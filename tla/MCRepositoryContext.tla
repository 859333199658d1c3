------------------------ MODULE MCRepositoryContext ------------------------
(* TLC instances of RepositoryContext. *)
EXTENDS RepositoryContext

CONSTANTS a, b, c

\* The second commit keeps one chunk, drops one and adds one.
TwoCommits == <<{a, b}, {b, c}>>
=============================================================================
