---------------------------- MODULE PatchFormat ----------------------------
(***************************************************************************)
(* parse_patch (app/services/patch_format.py): the subset of unified diffs *)
(* that a model's proposal may use, read line by line against the list of  *)
(* files the proposal declares.                                            *)
(*                                                                         *)
(* Simplifications.                                                        *)
(*  - A line is what its regular expression or first character makes of    *)
(*    it ("context" begins with a blank); a path is a value, refused by    *)
(*    validate_path or not.  Which lines follow is decided as they are     *)
(*    read.                                                                *)
(*  - The limit on the size of a patch is a bound on its lines.            *)
(***************************************************************************)
EXTENDS Naturals, Sequences, FiniteSets, SequencesExt

CONSTANTS
    Paths,      \* paths without "/dev/null"
    Unsafe,     \* those that validate_path refuses
    Folded,     \* casefold: a function on Paths
    MaxCount,   \* bound: the counts in a hunk header
    MaxDeclared,\* bound: files_changed
    MaxRead     \* bound: lines of a patch

ASSUME PatchAssumption == MaxCount \in Nat /\ MaxDeclared \in Nat

DevNull == "/dev/null"

VARIABLES
    declared,   \* files_changed
    read,       \* the lines read
    expects,    \* "header", "mode", "index", "old", "new", "hunks", "body",
                \* "accepted" or "refused"
    section,    \* what is known of the file that is being read
    output      \* the PatchFiles

patchVars == <<declared, read, expects, section, output>>

Line(kind, path, left, right) == [kind |-> kind, path |-> path, left |-> left, right |-> right]
Plain(kind) == Line(kind, DevNull, 0, 0)

FileLines == {Line(kind, p, 0, 0) : kind \in {"---", "+++"}, p \in Paths \cup {DevNull}}

HunkLines == {Line("@@", DevNull, o, n) : o, n \in 0..MaxCount}

Lines ==
    {Line("diff", p, 0, 0) : p \in Paths} \cup FileLines \cup HunkLines
    \cup {Plain(kind) : kind \in {"new-file", "deleted-file", "index", "context", "+", "-",
                                  "no-newline", "other"}}

NoSection == [path |-> DevNull, new |-> FALSE, deleted |-> FALSE, hunks |-> 0,
              old |-> 0, added |-> 0, left |-> 0, right |-> 0, body |-> FALSE]

\* Each path is validated, and no two are alike but for case.
DeclaredWell ==
    /\ ToSet(declared) \cap Unsafe = {}
    /\ IsInjective([i \in DOMAIN declared |-> Folded[declared[i]]])

PatchInit ==
    /\ declared \in UNION {[1..n -> Paths] : n \in 0..MaxDeclared}
    /\ read = <<>>
    /\ expects = IF DeclaredWell THEN "header" ELSE "refused"
    /\ section = NoSection
    /\ output = <<>>

-----------------------------------------------------------------------------

Finished == [path |-> section.path, new |-> section.new, deleted |-> section.deleted]

\* The hunks of a file may end here.
FileDone == expects = "hunks" /\ section.hunks > 0

Closed == IF FileDone THEN Append(output, Finished) ELSE output

\* Variant with a bug: a line of context is a line of the old file only.
AddsNoContext(kind) == kind \in {"+", "+++"}

\* A line of a body that looks like a file name is a deletion or an addition.
Removes(kind) == kind \in {"context", "-", "---"}
Adds(kind) == kind \in {"context", "+", "+++"}

\* More body is read while a count is not reached, and no count may be passed.
InHunk(s) ==
    <<IF s.old < s.left \/ s.added < s.right THEN "body"
      ELSE IF s.old = s.left /\ s.added = s.right THEN "hunks" ELSE "refused", s>>

\* What a line is where it stands: what is expected next, and the section.
After(line) ==
    CASE line.kind = "diff" /\ line.path \notin Unsafe /\ (expects = "header" \/ FileDone) ->
            <<"mode", [NoSection EXCEPT !.path = line.path]>>
      [] line.kind \in {"new-file", "deleted-file"} /\ expects = "mode" ->
            <<"index", [section EXCEPT !.new = line.kind = "new-file",
                                       !.deleted = line.kind = "deleted-file"]>>
      [] line.kind = "index" /\ expects \in {"mode", "index"} ->
            <<"old", section>>
      [] /\ line.kind = "---" /\ expects \in {"mode", "index", "old"}
         /\ line.path = (IF section.new THEN DevNull ELSE section.path) ->
            <<"new", section>>
      [] /\ line.kind = "+++" /\ expects = "new"
         /\ line.path = (IF section.deleted THEN DevNull ELSE section.path) ->
            <<"hunks", section>>
      [] line.kind = "@@" /\ expects = "hunks" ->
            InHunk([section EXCEPT !.hunks = @ + 1, !.old = 0, !.added = 0, !.body = FALSE,
                                   !.left = line.left, !.right = line.right])
      [] expects = "body" /\ (Removes(line.kind) \/ Adds(line.kind)) ->
            InHunk([section EXCEPT !.old = IF Removes(line.kind) THEN @ + 1 ELSE @,
                                   !.added = IF Adds(line.kind) THEN @ + 1 ELSE @,
                                   !.body = TRUE])
      [] line.kind = "no-newline" /\ expects \in {"body", "hunks"} /\ section.body ->
            <<expects, [section EXCEPT !.body = FALSE]>>
      [] OTHER -> <<"refused", section>>

Read(line) ==
    /\ expects \notin {"accepted", "refused"}
    /\ Len(read) < MaxRead
    /\ read' = Append(read, line)
    /\ expects' = After(line)[1]
    /\ section' = After(line)[2]
    /\ output' = IF line.kind = "diff" THEN Closed ELSE output
    /\ UNCHANGED declared

\* The files of the patch are the declared ones.
Matches(files) ==
    Len(files) = Len(declared) /\ {f.path : f \in ToSet(files)} = ToSet(declared)

EndOfPatch ==
    /\ expects \notin {"accepted", "refused"}
    /\ expects' = IF (expects = "header" \/ FileDone) /\ Matches(Closed)
                  THEN "accepted" ELSE "refused"
    /\ output' = Closed
    /\ UNCHANGED <<declared, read, section>>

PatchNext == EndOfPatch \/ \E line \in Lines : Read(line)

PatchSpec == PatchInit /\ [][PatchNext]_patchVars

-----------------------------------------------------------------------------
(* A patch, said without reading it in order. *)

Count(lines, kinds) == Cardinality({i \in DOMAIN lines : lines[i].kind \in kinds})

\* The lines from each line of a kind up to the next one of that kind.
Segments(lines, kind) ==
    LET At == {i \in DOMAIN lines : lines[i].kind = kind}
        Until(i) == CHOOSE j \in i..Len(lines) :
                      /\ \A k \in (i + 1)..j : k \notin At
                      /\ j = Len(lines) \/ j + 1 \in At
    IN  {SubSeq(lines, i, Until(i)) : i \in At}

IsHunk(h) ==
    /\ \A i \in 2..Len(h) :
          \/ h[i].kind \in {"context", "+", "-", "+++", "---"}
          \/ h[i].kind = "no-newline" /\ i > 2 /\ h[i - 1].kind # "no-newline"
    /\ Count(Tail(h), {"context", "-", "---"}) = h[1].left
    /\ Count(Tail(h), {"context", "+", "+++"}) = h[1].right

IsFile(s) ==
    \E mode, index \in 0..1 :
        LET at == 2 + mode + index
            new == mode = 1 /\ s[2].kind = "new-file"
            deleted == mode = 1 /\ s[2].kind = "deleted-file"
        IN  /\ Len(s) > at + 1
            /\ s[1].path \notin Unsafe
            /\ mode = 1 => new \/ deleted
            /\ index = 1 => s[at - 1].kind = "index"
            /\ s[at] = Line("---", IF new THEN DevNull ELSE s[1].path, 0, 0)
            /\ s[at + 1] = Line("+++", IF deleted THEN DevNull ELSE s[1].path, 0, 0)
            /\ s[at + 2].kind = "@@"
            /\ \A h \in Segments(SubSeq(s, at + 2, Len(s)), "@@") : IsHunk(h)

IsPatch(lines, files) ==
    LET headers == {i \in DOMAIN lines : lines[i].kind = "diff"}
    IN  /\ lines # <<>> => 1 \in headers
        /\ \A s \in Segments(lines, "diff") : IsFile(s)
        /\ {lines[i].path : i \in headers} = ToSet(files)
        /\ Cardinality(headers) = Len(files)

-----------------------------------------------------------------------------
(* What is accepted is a patch of exactly the declared files, each once, and every
   hunk has the lines that its header counts, whatever order they came in; a patch
   that was read to its end and refused is none. *)
AcceptsPatches ==
    /\ expects = "accepted" =>
          /\ IsPatch(read, declared)
          /\ Cardinality({Folded[p] : p \in ToSet(declared)}) = Len(declared)
          /\ \A f \in ToSet(output) : ~(f.new /\ f.deleted)
    /\ expects = "refused" /\ DeclaredWell => ~IsPatch(read, declared)
=============================================================================
