------------------------------ MODULE Chunking ------------------------------
(***************************************************************************)
(* chunk_source (app/indexing/chunking.py): a file is cut into chunks of   *)
(* whole lines, at a top-level definition or after a blank line where one  *)
(* is near.  One step per iteration of its loops.                          *)
(*                                                                         *)
(* A file is what the loops look at: how many characters there are up to   *)
(* the end of each line, which lines are blank, and which lines precede a  *)
(* top-level definition (none but in Python source that parses).  Lines    *)
(* are numbered from 1; position p is the place after line p.              *)
(***************************************************************************)
EXTENDS Integers, Sequences

CONSTANTS
    MaxLines,   \* max_lines
    MaxChars,   \* max_chars
    Files       \* the files: records of lines, offset, blank and tops

\* splitlines(keepends=True) returns no empty line.
ASSUME ChunkingAssumption ==
    /\ MaxLines \in Nat \ {0} /\ MaxChars \in Nat \ {0}
    /\ \A f \in Files :
          /\ f.lines \in Nat
          /\ f.offset \in [0..f.lines -> Nat]
          /\ f.offset[0] = 0
          /\ \A i, j \in 0..f.lines : i < j => f.offset[i] < f.offset[j]
          /\ f.blank \subseteq 1..f.lines
          /\ f.tops \subseteq 0..f.lines

VARIABLES
    file,
    start, end,     \* the window of the next chunk: lines start+1..end
    size,           \* its characters
    chunks,         \* pairs <<start_line, end_line>>
    chunking        \* "growing", "cutting", "returned" or "raised"

vars == <<file, start, end, size, chunks, chunking>>

Chars(i) == file.offset[i] - file.offset[i - 1]

Init ==
    /\ file \in Files
    /\ start = 0 /\ end = 0 /\ size = 0
    /\ chunks = <<>>
    /\ chunking = IF \E i \in 1..file.lines : Chars(i) > MaxChars THEN "raised" ELSE "growing"

\* Variant with a bug: the line that does not fit is taken.
FitsBefore == end < file.lines /\ end - start < MaxLines /\ size <= MaxChars

Fits == end < file.lines /\ end - start < MaxLines /\ size + Chars(end + 1) <= MaxChars

Grow ==
    /\ chunking = "growing" /\ start < file.lines
    /\ Fits
    /\ size' = size + Chars(end + 1)
    /\ end' = end + 1
    /\ UNCHANGED <<file, start, chunks, chunking>>

Full ==
    /\ chunking = "growing" /\ start < file.lines
    /\ ~Fits
    /\ chunking' = "cutting"
    /\ UNCHANGED <<file, start, end, size, chunks>>

\* Where a window that is not the last may be cut: in its second half, and after
\* one line at least.
Window ==
    LET half == (end - start) \div 2
    IN  (start + (IF half < 1 THEN 1 ELSE half))..end

Preferred ==
    IF file.tops \cap Window # {} THEN file.tops \cap Window ELSE file.blank \cap Window

\* max(preferred), or where the window ends.
CutAt ==
    IF end < file.lines /\ Preferred # {}
    THEN CHOOSE p \in Preferred : \A q \in Preferred : q <= p
    ELSE end

Cut ==
    /\ chunking = "cutting"
    /\ chunks' = Append(chunks, <<start + 1, CutAt>>)
    /\ start' = CutAt /\ end' = CutAt /\ size' = 0
    /\ chunking' = "growing"
    /\ UNCHANGED file

Return ==
    /\ chunking = "growing" /\ start = file.lines
    /\ chunking' = "returned"
    /\ UNCHANGED <<file, start, end, size, chunks>>

Next == Grow \/ Full \/ Cut \/ Return

Spec == Init /\ [][Next]_vars

-----------------------------------------------------------------------------
TypeOK ==
    /\ file \in Files
    /\ start \in Nat /\ end \in Nat /\ size \in Int
    /\ chunks \in Seq(Nat \X Nat)
    /\ chunking \in {"growing", "cutting", "returned", "raised"}

(* The chunks are the file: none empty, each the next lines after the one before,
   so that no line is lost or indexed twice wherever the cuts are moved to; none
   over either limit; and the last ends with the file. *)
ChunksTile ==
    /\ \A i \in 1..Len(chunks) :
          LET first == chunks[i][1]
              last == chunks[i][2]
          IN  /\ first = IF i = 1 THEN 1 ELSE chunks[i - 1][2] + 1
              /\ first <= last /\ last <= file.lines
              /\ last - first < MaxLines
              /\ file.offset[last] - file.offset[first - 1] <= MaxChars
    /\ chunking = "returned" =>
          file.lines = IF chunks = <<>> THEN 0 ELSE chunks[Len(chunks)][2]
=============================================================================
