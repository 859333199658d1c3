----------------------------- MODULE LoopsProofs -----------------------------
(***************************************************************************)
(* Proofs about the loops under the stages: Chunking for any files and     *)
(* limits, ProviderCalls for any number of workers and any limits, and     *)
(* PlanPass for plans of any size.                                         *)
(*                                                                         *)
(* ChunksTile is not inductive.  That a chunk is not empty rests on the    *)
(* lines being within the limit, so that a full window has a line; that it *)
(* is within the limits, on what the window counts; and that it begins     *)
(* where the last one ended, on where the window begins.                   *)
(*                                                                         *)
(* RequestsBounded is not either: it counts requests and says nothing of   *)
(* the workers.  The claims, calls and tries of a stage make a grid of     *)
(* requests (Slots); those ahead of no worker are Spent, and there are at  *)
(* least as many of these as requests, because no two workers hold the     *)
(* same claim and each one only goes on.                                   *)
(*                                                                         *)
(* ReturnsAdvance compares a loop with a least fixed point.  No induction  *)
(* over the plan is needed: the fixed point makes of a task what its       *)
(* parents tell (AdvanceFromParents), and the loop has visited these.      *)
(***************************************************************************)
EXTENDS Chunking, ProviderCalls, PlanPass, SequenceTheorems, FiniteSetTheorems,
        WellFoundedInduction, TLAPS

-----------------------------------------------------------------------------
(* The cutting of a file *)

\* max(): a set of numbers that is not empty and has a bound has a largest one.
LEMMA LargestExists ==
    ASSUME NEW S \in SUBSET Nat, S # {}, NEW b \in Nat, \A n \in S : n <= b
    PROVE  \E m \in S : \A n \in S : n <= m
<1> DEFINE R == {ss \in Nat \X Nat : ss[1] < ss[2]}
           T == {b - n : n \in S}
<1>1. IsWellFoundedOn(R, Nat)
  <2>1. OpToRel(<, Nat) = R
      BY DEF OpToRel
  <2> QED BY <2>1, NatLessThanWellFounded
<1>2. T \subseteq Nat /\ T # {}
  <2>1. \A n \in S : b - n \in Nat
      OBVIOUS
  <2> QED BY <2>1
<1>3. PICK x \in T : \A y \in T : ~(<<y, x>> \in R)
  <2> HIDE DEF R, T
  <2> QED BY <1>1, <1>2, WFMin
<1>4. PICK m \in S : x = b - m
    BY <1>3
<1>5. ASSUME NEW n \in S PROVE n <= m
  <2>1. b - n \in T /\ b - n \in Nat /\ x \in Nat
      BY <1>2, <1>3
  <2>2. ~(b - n < x)
      BY <2>1, <1>3
  <2> QED BY <2>2, <1>4
<1> QED BY <1>5

\* The window: where it is, what it counts, and that it has a line when it is cut.
WindowInv ==
    /\ start <= end /\ end <= file.lines
    /\ end - start <= MaxLines
    /\ size = file.offset[end] - file.offset[start]
    /\ size <= MaxChars
    /\ chunking = "cutting" => start < end
    /\ chunking = "returned" => start = file.lines
    /\ chunking # "raised" => \A i \in 1..file.lines : Chars(i) <= MaxChars

LastLine == IF chunks = <<>> THEN 0 ELSE chunks[Len(chunks)][2]

\* The chunk of a number in the list is right.
Tile(i) ==
    /\ chunks[i][1] = IF i = 1 THEN 1 ELSE chunks[i - 1][2] + 1
    /\ chunks[i][1] <= chunks[i][2] /\ chunks[i][2] <= file.lines
    /\ chunks[i][2] - chunks[i][1] < MaxLines
    /\ file.offset[chunks[i][2]] - file.offset[chunks[i][1] - 1] <= MaxChars

ListInv ==
    /\ start = LastLine
    /\ \A i \in 1..Len(chunks) : Tile(i)

Inv == TypeOK /\ WindowInv /\ ListInv

\* What the assumption says of the file that is cut.
LEMMA FileFacts ==
    ASSUME TypeOK
    PROVE  /\ file.lines \in Nat
           /\ file.offset \in [0..file.lines -> Nat]
           /\ file.offset[0] = 0
           /\ \A i, j \in 0..file.lines : i < j => file.offset[i] < file.offset[j]
           /\ file.blank \subseteq 1..file.lines
           /\ file.tops \subseteq 0..file.lines
           /\ MaxLines \in Nat \ {0} /\ MaxChars \in Nat \ {0}
BY ChunkingAssumption DEF TypeOK

\* Nothing is cut at first, and the window is empty.
LEMMA InitInv == Init => Inv
<1> SUFFICES ASSUME Init PROVE Inv
    OBVIOUS
<1>1. TypeOK
    BY DEF Init, TypeOK
<1>2. WindowInv
  <2>1. start = 0 /\ end = 0 /\ size = 0 /\ chunking \in {"growing", "raised"}
      BY DEF Init
  <2>2. ASSUME chunking # "raised", NEW i \in 1..file.lines PROVE Chars(i) <= MaxChars
    <3>1. Chars(i) \in Int
      <4>1. i \in 0..file.lines /\ i - 1 \in 0..file.lines
          BY <1>1, FileFacts
      <4>2. file.offset[i] \in Nat /\ file.offset[i - 1] \in Nat
          BY <1>1, <4>1, FileFacts
      <4> QED BY <4>2 DEF Chars
    <3> QED BY <2>2, <3>1, FileFacts, <1>1 DEF Init
  <2>3. 0 <= file.lines /\ file.offset[0] = 0 /\ MaxLines \in Nat /\ MaxChars \in Nat
      BY <1>1, FileFacts
  <2> QED BY <2>1, <2>2, <2>3 DEF WindowInv
<1>3. ListInv
    BY DEF Init, ListInv, LastLine
<1> QED BY <1>1, <1>2, <1>3 DEF Inv

\* The window grows by a line that fits.
LEMMA GrowInv == Inv /\ Grow => Inv'
<1> SUFFICES ASSUME Inv, Grow PROVE Inv'
    OBVIOUS
<1>1. /\ TypeOK /\ WindowInv /\ start \in Nat /\ end \in Nat /\ size \in Int
      /\ end < file.lines /\ end - start < MaxLines /\ size + Chars(end + 1) <= MaxChars
      /\ size' = size + Chars(end + 1) /\ end' = end + 1
      /\ UNCHANGED <<file, start, chunks, chunking>> /\ chunking = "growing"
    BY DEF Inv, TypeOK, Grow, Fits
<1>2. /\ end + 1 \in 1..file.lines /\ end \in 0..file.lines /\ end + 1 \in 0..file.lines
      /\ start \in 0..file.lines
    BY <1>1, FileFacts DEF WindowInv
<1>3. /\ file.offset[end] \in Nat /\ file.offset[end + 1] \in Nat /\ (end + 1) - 1 = end
      /\ file.offset[start] \in Nat
  <2>1. \A i \in 0..file.lines : file.offset[i] \in Nat
      BY <1>1, FileFacts
  <2> QED BY <1>1, <1>2, <2>1
<1>4. Chars(end + 1) = file.offset[end + 1] - file.offset[end]
    BY <1>3 DEF Chars
<1>5. TypeOK'
    BY <1>1, <1>3, <1>4 DEF TypeOK
<1>6. WindowInv'
  <2>1. /\ start' <= end' /\ end' <= file'.lines /\ end' - start' <= MaxLines
        /\ size' <= MaxChars
      BY <1>1, <1>2, FileFacts DEF WindowInv
  <2>2. size' = file'.offset[end'] - file'.offset[start']
      BY <1>1, <1>3, <1>4 DEF WindowInv
  <2>3. chunking' = "growing"
      BY <1>1
  <2>4. \A i \in 1..file'.lines : Chars(i)' <= MaxChars
      BY <1>1 DEF WindowInv, Chars
  <2> QED BY <2>1, <2>2, <2>3, <2>4 DEF WindowInv
<1>7. ListInv'
    BY <1>1 DEF Inv, ListInv, LastLine, Tile
<1> QED BY <1>5, <1>6, <1>7 DEF Inv

\* A window that does not grow any more has a line: a line by itself fits.
LEMMA FullInv == Inv /\ Full => Inv'
<1> SUFFICES ASSUME Inv, Full PROVE Inv'
    OBVIOUS
<1>1. /\ TypeOK /\ WindowInv /\ start \in Nat /\ end \in Nat /\ start < file.lines
      /\ chunking = "growing" /\ chunking' = "cutting" /\ ~Fits
      /\ UNCHANGED <<file, start, end, size, chunks>>
    BY DEF Inv, TypeOK, Full
<1>2. start < end
  <2>1. SUFFICES ASSUME start = end PROVE FALSE
      BY <1>1 DEF WindowInv
  <2>2. start + 1 \in 1..file.lines /\ file.offset[start] \in Nat
      BY <1>1, FileFacts
  <2>3. Chars(start + 1) <= MaxChars /\ size = 0
      BY <1>1, <2>1, <2>2 DEF WindowInv
  <2>4. Chars(start + 1) \in Int
    <3>1. (start + 1) \in 0..file.lines /\ start \in 0..file.lines /\ (start + 1) - 1 = start
        BY <1>1, FileFacts
    <3>2. file.offset[start + 1] \in Nat
        BY <1>1, <3>1, FileFacts
    <3> QED BY <2>2, <3>1, <3>2 DEF Chars
  <2> QED BY <1>1, <2>1, <2>3, <2>4, FileFacts DEF Fits
<1>3. TypeOK'
    BY <1>1 DEF TypeOK
<1>4. WindowInv'
    BY <1>1, <1>2 DEF WindowInv, Chars
<1>5. ListInv'
    BY <1>1 DEF Inv, ListInv, LastLine, Tile
<1> QED BY <1>3, <1>4, <1>5 DEF Inv

\* A cut is after the first line of the window and not after its last.
LEMMA CutWithinWindow ==
    ASSUME TypeOK, start < end, end <= file.lines
    PROVE  CutAt \in Nat /\ start < CutAt /\ CutAt <= end
<1>1. start \in Nat /\ end \in Nat
    BY DEF TypeOK
<1>2. \A p \in Window : p \in Nat /\ start < p /\ p <= end
  <2> DEFINE half == (end - start) \div 2
  <2>1. half \in Int
      BY <1>1
  <2> HIDE DEF half
  <2>2. Window = (start + (IF half < 1 THEN 1 ELSE half))..end
      BY DEF Window, half
  <2> QED BY <1>1, <2>1, <2>2
<1>3. Preferred \subseteq Window
    BY DEF Preferred
<1>4. CASE end < file.lines /\ Preferred # {}
  <2>1. \E m \in Preferred : \A n \in Preferred : n <= m
      BY <1>1, <1>2, <1>3, <1>4, LargestExists
  <2>2. CutAt \in Preferred
      BY <1>4, <2>1 DEF CutAt
  <2> QED BY <2>2, <1>2, <1>3
<1>5. CASE ~(end < file.lines /\ Preferred # {})
  <2>1. CutAt = end
      BY <1>5 DEF CutAt
  <2> QED BY <2>1, <1>1
<1> QED BY <1>4, <1>5

\* Offsets grow: a shorter prefix of the file has no more characters.
LEMMA OffsetsGrow ==
    ASSUME TypeOK, NEW i \in 0..file.lines, NEW j \in 0..file.lines, i <= j
    PROVE  file.offset[i] <= file.offset[j]
<1>1. file.offset[i] \in Nat /\ file.offset[j] \in Nat
    BY FileFacts
<1>2. CASE i = j
    BY <1>1, <1>2
<1>3. CASE i < j
    BY <1>1, <1>3, FileFacts
<1> QED BY <1>2, <1>3, FileFacts

\* A cut appends the chunk that is due, and the next window begins behind it.
LEMMA CutInv == Inv /\ Cut => Inv'
<1> SUFFICES ASSUME Inv, Cut PROVE Inv'
    OBVIOUS
<1> DEFINE c == CutAt
           chunk == <<start + 1, c>>
<1>1. /\ TypeOK /\ WindowInv /\ ListInv /\ start \in Nat /\ end \in Nat
      /\ chunks \in Seq(Nat \X Nat) /\ start < end
      /\ file.lines \in Nat /\ MaxLines \in Nat /\ MaxChars \in Nat
    BY FileFacts DEF Inv, TypeOK, Cut, WindowInv
<1>2. c \in Nat /\ start < c /\ c <= end
    BY <1>1, CutWithinWindow DEF WindowInv
<1>3. /\ chunks' = Append(chunks, chunk) /\ start' = c /\ end' = c /\ size' = 0
      /\ chunking' = "growing" /\ file' = file /\ chunking = "cutting"
    BY DEF Cut
<1> HIDE DEF c
<1>4. chunk \in Nat \X Nat /\ chunk[1] = start + 1 /\ chunk[2] = c
    BY <1>1, <1>2
<1>5. Len(chunks) \in Nat
    BY <1>1, LenProperties
<1>6. /\ chunks' \in Seq(Nat \X Nat) /\ chunks' # <<>> /\ Len(chunks') = Len(chunks) + 1
      /\ \A i \in 1..Len(chunks) : chunks'[i] = chunks[i]
      /\ chunks'[Len(chunks) + 1] = chunk
  <2> HIDE DEF chunk
  <2>1. chunk \in Nat \X Nat /\ chunks \in Seq(Nat \X Nat) /\ chunks' = Append(chunks, chunk)
      BY <1>1, <1>3, <1>4
  <2>2. chunks' \in Seq(Nat \X Nat) /\ chunks' # <<>> /\ Len(chunks') = Len(chunks) + 1
      BY <2>1, AppendProperties
  <2>3. /\ \A i \in 1..Len(chunks) : chunks'[i] = chunks[i]
        /\ chunks'[Len(chunks) + 1] = chunk
      BY <2>1, AppendProperties
  <2> QED BY <2>2, <2>3
<1> HIDE DEF chunk
<1>7. TypeOK'
    BY <1>1, <1>2, <1>3, <1>6 DEF TypeOK
<1>8. /\ start \in 0..file.lines /\ c \in 0..file.lines /\ end \in 0..file.lines
    BY <1>1, <1>2 DEF WindowInv
<1>9. file.offset[start] \in Nat /\ file.offset[c] \in Nat /\ file.offset[end] \in Nat
    BY <1>1, <1>8, FileFacts
<1>10. WindowInv'
  <2>1. /\ start' <= end' /\ end' <= file'.lines /\ end' - start' <= MaxLines
        /\ size' <= MaxChars
      BY <1>1, <1>2, <1>3, <1>8
  <2>2. size' = file'.offset[end'] - file'.offset[start']
      BY <1>3, <1>9
  <2>3. \A i \in 1..file'.lines : Chars(i)' <= MaxChars
      BY <1>1, <1>3 DEF WindowInv, Chars
  <2> QED BY <1>3, <2>1, <2>2, <2>3 DEF WindowInv
<1>11. start' = LastLine'
    BY <1>3, <1>4, <1>6 DEF LastLine
<1>12. ASSUME NEW i \in 1..Len(chunks) PROVE Tile(i)'
  <2>1. Tile(i) /\ chunks'[i] = chunks[i] /\ file' = file
      BY <1>1, <1>3, <1>6 DEF ListInv
  <2>2. i # 1 => chunks'[i - 1] = chunks[i - 1]
    <3>1. i # 1 => i - 1 \in 1..Len(chunks)
        BY <1>5
    <3> QED BY <3>1, <1>6
  <2> QED BY <2>1, <2>2 DEF Tile
<1>13. ASSUME NEW n \in Nat, n = Len(chunks) + 1 PROVE Tile(n)'
  <2>1. chunks'[n][1] = start + 1 /\ chunks'[n][2] = c
      BY <1>4, <1>6, <1>13
  <2>2. start + 1 = IF n = 1 THEN 1 ELSE chunks'[n - 1][2] + 1
    <3>1. CASE chunks = <<>>
      <4>1. n = 1 /\ start = 0
          BY <1>1, <1>13, <3>1 DEF ListInv, LastLine
      <4> QED BY <4>1
    <3>2. CASE chunks # <<>>
      <4>1. Len(chunks) # 0 /\ start = chunks[Len(chunks)][2]
          BY <1>1, <3>2 DEF ListInv, LastLine
      <4>2. n # 1 /\ n - 1 = Len(chunks) /\ chunks'[n - 1] = chunks[Len(chunks)]
          BY <1>5, <1>6, <1>13, <4>1
      <4> QED BY <4>1, <4>2
    <3> QED BY <3>1, <3>2
  <2>3. start + 1 <= c /\ c <= file.lines /\ c - (start + 1) < MaxLines
      BY <1>1, <1>2 DEF WindowInv
  <2>4. file.offset[c] - file.offset[start] <= MaxChars
    <3>1. file.offset[c] <= file.offset[end]
        BY <1>1, <1>2, <1>8, OffsetsGrow
    <3>2. file.offset[end] - file.offset[start] <= MaxChars
        BY <1>1 DEF WindowInv
    <3>3. MaxChars \in Nat
        BY <1>1
    <3> QED BY <1>9, <3>1, <3>2, <3>3
  <2>5. (start + 1) - 1 = start
      BY <1>1
  <2> QED BY <1>3, <2>1, <2>2, <2>3, <2>4, <2>5 DEF Tile
<1>14. ListInv'
  <2>1. ASSUME NEW i \in 1..Len(chunks') PROVE Tile(i)'
    <3>1. i \in 1..Len(chunks) \/ i = Len(chunks) + 1
        BY <1>5, <1>6
    <3> QED BY <3>1, <1>5, <1>12, <1>13
  <2> QED BY <2>1, <1>11 DEF ListInv
<1> QED BY <1>7, <1>10, <1>14 DEF Inv

\* The loop is left at the end of the file only.
LEMMA ReturnInv == Inv /\ Return => Inv'
<1> SUFFICES ASSUME Inv, Return PROVE Inv'
    OBVIOUS
<1>1. /\ start = file.lines /\ chunking' = "returned" /\ chunking = "growing"
      /\ UNCHANGED <<file, start, end, size, chunks>>
    BY DEF Return
<1>2. TypeOK'
    BY <1>1 DEF Inv, TypeOK
<1>3. WindowInv'
    BY <1>1 DEF Inv, WindowInv, Chars
<1>4. ListInv'
    BY <1>1 DEF Inv, ListInv, LastLine, Tile
<1> QED BY <1>2, <1>3, <1>4 DEF Inv

\* Every step keeps the invariant.
LEMMA NextInv == Inv /\ [Next]_vars => Inv'
<1> SUFFICES ASSUME Inv, [Next]_vars PROVE Inv'
    OBVIOUS
<1>1. CASE UNCHANGED vars
    BY <1>1 DEF Inv, TypeOK, WindowInv, Chars, ListInv, LastLine, Tile, vars
<1>2. CASE Next
    BY <1>2, GrowInv, FullInv, CutInv, ReturnInv DEF Next
<1> QED BY <1>1, <1>2

\* The list of right chunks, up to where the window begins, tiles the file.
LEMMA InvImplies == Inv => ChunksTile
<1> SUFFICES ASSUME Inv PROVE ChunksTile
    OBVIOUS
<1>1. \A i \in 1..Len(chunks) : Tile(i)
    BY DEF Inv, ListInv
<1>2. chunking = "returned" => file.lines = LastLine
    BY DEF Inv, WindowInv, ListInv
<1> QED BY <1>1, <1>2 DEF ChunksTile, Tile, LastLine

(* chunk_source loses no line, repeats none, makes no empty chunk and none over either
   limit, for every file and all limits. *)
THEOREM ChunksTileCorrect == Spec => []ChunksTile
<1>1. Init => Inv
    BY InitInv
<1>2. Inv /\ [Next]_vars => Inv'
    BY NextInv
<1>3. Inv => ChunksTile
    BY InvImplies
<1> QED BY <1>1, <1>2, <1>3, PTL DEF Spec

-----------------------------------------------------------------------------
(* The requests to a provider, for any number of workers and any limits. *)

\* How many claims may have asked: those before there was a plan.
Asking == IF plan = NoPlan THEN row.claims ELSE plan.claims

\* The requests these may make: the try of a call of a claim, as <<claim, <<call, try>>>>.
Slots == (1..Asking) \X ((0..(Calls - 1)) \X (0..Retries))

\* A request is ahead of what a worker holds: of its claim, and not yet made.
Ahead(x, s) ==
    /\ x.token = s[1]
    /\ \/ /\ x.pc \in {"start", "ask"}
          /\ s[2][1] > x.calls \/ (s[2][1] = x.calls /\ s[2][2] >= x.tries)
       \/ /\ x.pc = "sleep"
          /\ s[2][1] > x.calls \/ (s[2][1] = x.calls /\ s[2][2] > x.tries)

Open(s) == \E w \in Workers : Ahead(worker[w], s)

\* The requests that are made, or will never be.
Spent == {s \in Slots : ~Open(s)}

CallTypes ==
    /\ stage \in {"issue", "context", "plan"}
    /\ row \in [status : {"pending", "running", "completed", "failed"},
                attempts : Nat, claims : Nat, token : Nat, waits : BOOLEAN]
    /\ plan \in [by : Nat, claims : Nat]
    /\ requests \in Nat
    /\ worker \in [Workers -> [pc : {"idle", "start", "ask", "sleep", "create", "finish"},
                               token : Nat, calls : Nat, tries : Nat,
                               outcome : {"ok", "failed", "transient"}]]

\* Every claim is an attempt, and a row that may be claimed has one left.
RowInv ==
    /\ row.claims = row.attempts /\ row.attempts <= AttemptLimit
    /\ row.status = "pending" => row.attempts < AttemptLimit
    /\ plan # NoPlan => stage = "plan" /\ plan.claims <= row.claims

\* What a worker holds is within the limits, of a claim that was made, and if it may
\* still ask or insert, of one that found no plan.
HeldInv ==
    \A w \in Workers :
        /\ worker[w].pc # "idle" => worker[w].token \in 1..row.claims
        /\ worker[w].calls < Calls /\ worker[w].tries <= Retries
        /\ worker[w].pc = "sleep" => worker[w].tries < Retries
        /\ worker[w].pc = "create" => stage = "plan"
        /\ worker[w].pc \in {"ask", "sleep", "create"} /\ plan # NoPlan =>
              worker[w].token <= plan.claims

\* No two workers hold the same claim.
ClaimsApart ==
    \A v, w \in Workers :
        /\ worker[v].pc # "idle" /\ worker[w].pc # "idle"
        /\ worker[v].token = worker[w].token
        => v = w

CallInv == CallTypes /\ RowInv /\ HeldInv /\ ClaimsApart /\ requests <= Cardinality(Spent)

\* The limits of every stage.
LEMMA LimitsOfStage ==
    ASSUME CallTypes
    PROVE  /\ Calls \in Nat \ {0} /\ Retries \in Nat
           /\ PerClaim \in Nat /\ Asking \in Nat
<1>1. Calls \in Nat \ {0} /\ Retries \in Nat
    BY CallsAssumption DEF CallTypes, Calls, Retries
<1>2. Asking \in Nat
    BY DEF CallTypes, Asking
<1> QED BY <1>1, <1>2 DEF PerClaim

\* There are PerClaim requests for each claim that may ask.
LEMMA SlotsCounted ==
    ASSUME CallTypes
    PROVE  IsFiniteSet(Slots) /\ Cardinality(Slots) = Asking * PerClaim
<1>1. Calls \in Nat \ {0} /\ Retries \in Nat /\ Asking \in Nat
    BY LimitsOfStage
<1>2. IsFiniteSet(1..Asking) /\ Cardinality(1..Asking) = Asking
    BY <1>1, FS_Interval
<1>3. IsFiniteSet(0..(Calls - 1)) /\ Cardinality(0..(Calls - 1)) = Calls
    BY <1>1, FS_Interval
<1>4. IsFiniteSet(0..Retries) /\ Cardinality(0..Retries) = Retries + 1
    BY <1>1, FS_Interval
<1> DEFINE Tries == (0..(Calls - 1)) \X (0..Retries)
<1>5. IsFiniteSet(Tries) /\ Cardinality(Tries) = PerClaim
  <2>1. IsFiniteSet(Tries)
      BY <1>3, <1>4, FS_Product
  <2>2. Cardinality(Tries) = Cardinality(0..(Calls - 1)) * Cardinality(0..Retries)
      BY <1>3, <1>4, FS_Product
  <2> QED BY <1>3, <1>4, <2>1, <2>2 DEF PerClaim
<1>6. IsFiniteSet((1..Asking) \X Tries) /\ Cardinality((1..Asking) \X Tries) = Asking * PerClaim
  <2> HIDE DEF Tries
  <2> QED BY <1>2, <1>5, FS_Product
<1> QED BY <1>6 DEF Slots

LEMMA SpentCounted ==
    CallTypes =>
        /\ IsFiniteSet(Spent)
        /\ Cardinality(Spent) \in Nat /\ Cardinality(Spent) <= Asking * PerClaim
<1> SUFFICES ASSUME CallTypes
             PROVE  /\ IsFiniteSet(Spent)
                    /\ Cardinality(Spent) \in Nat /\ Cardinality(Spent) <= Asking * PerClaim
    OBVIOUS
<1>1. Spent \in SUBSET Slots
    BY DEF Spent
<1>2. IsFiniteSet(Spent) /\ Cardinality(Spent) <= Cardinality(Slots)
    BY <1>1, SlotsCounted, FS_Subset
<1> QED BY <1>2, SlotsCounted, FS_CardinalityType

\* What is spent stays spent, if no request comes ahead of a worker again.
LEMMA SpentKept ==
    ASSUME CallTypes, CallTypes', Slots \subseteq Slots', requests <= Cardinality(Spent),
           requests' = requests, \A s \in Slots : Open(s)' => Open(s)
    PROVE  requests' <= Cardinality(Spent')
<1>1. Spent \in SUBSET Spent'
    BY DEF Spent
<1>2. (IsFiniteSet(Spent) /\ Cardinality(Spent) \in Nat)'
    BY SpentCounted, PTL
<1>3. Cardinality(Spent) <= Cardinality(Spent')
    BY <1>1, <1>2, FS_Subset
<1>4. Cardinality(Spent) \in Nat /\ requests \in Nat
    BY SpentCounted DEF CallTypes
<1> QED BY <1>2, <1>3, <1>4

\* The worker of a step goes on, and no request comes ahead of it again.
LEMMA OpenFromOthers ==
    ASSUME CallTypes, NEW w \in Workers, NEW x, Put(w, x), NEW s,
           Ahead(x, s) => Ahead(worker[w], s)
    PROVE  Open(s)' => Open(s)
<1> SUFFICES ASSUME NEW v \in Workers, Ahead(worker'[v], s)
             PROVE  Open(s)
    BY DEF Open, Ahead
<1>1. worker'[v] = IF v = w THEN x ELSE worker[v]
    BY DEF CallTypes, Put
<1> QED BY <1>1 DEF Open

Held == [pc : {"idle", "start", "ask", "sleep", "create", "finish"},
         token : Nat, calls : Nat, tries : Nat, outcome : {"ok", "failed", "transient"}]

LEMMA HeldBy == ASSUME CallTypes, NEW w \in Workers PROVE worker[w] \in Held
BY DEF CallTypes, Held

\* What a worker comes to hold within a claim keeps what does not count requests.
LEMMA HeldKept ==
    ASSUME CallInv, NEW w \in Workers, NEW x \in Held, Put(w, x), UNCHANGED <<stage, row, plan>>,
           requests' \in Nat,
           x.pc # "idle" => worker[w].pc # "idle" /\ x.token = worker[w].token,
           x.calls < Calls, x.tries <= Retries, x.pc = "sleep" => x.tries < Retries,
           x.pc = "create" => stage = "plan",
           x.pc \in {"ask", "sleep", "create"} /\ plan # NoPlan => x.token <= plan.claims
    PROVE  CallTypes' /\ RowInv' /\ HeldInv' /\ ClaimsApart'
<1>1. \A v \in Workers : worker'[v] = IF v = w THEN x ELSE worker[v]
    BY DEF CallInv, CallTypes, Put
<1>2. Calls' = Calls /\ Retries' = Retries
    BY DEF Calls, Retries
<1>3. CallTypes'
    BY DEF CallInv, CallTypes, Put, Held
<1>4. RowInv'
    BY DEF CallInv, RowInv, NoPlan
<1>5. HeldInv'
  <2> SUFFICES ASSUME NEW v \in Workers
               PROVE  /\ worker'[v].pc # "idle" => worker'[v].token \in 1..row.claims
                      /\ worker'[v].calls < Calls /\ worker'[v].tries <= Retries
                      /\ worker'[v].pc = "sleep" => worker'[v].tries < Retries
                      /\ worker'[v].pc = "create" => stage = "plan"
                      /\ worker'[v].pc \in {"ask", "sleep", "create"} /\ plan # NoPlan =>
                            worker'[v].token <= plan.claims
      BY <1>2 DEF HeldInv, NoPlan
  <2>1. CASE v = w
      BY <2>1, <1>1 DEF CallInv, HeldInv
  <2>2. CASE v # w
      BY <2>2, <1>1 DEF CallInv, HeldInv
  <2> QED BY <2>1, <2>2
<1>6. ClaimsApart'
  <2> SUFFICES ASSUME NEW u \in Workers, NEW v \in Workers,
                      worker'[u].pc # "idle", worker'[v].pc # "idle",
                      worker'[u].token = worker'[v].token
               PROVE  u = v
      BY DEF ClaimsApart
  <2>1. /\ worker[u].pc # "idle" /\ worker'[u].token = worker[u].token
        /\ worker[v].pc # "idle" /\ worker'[v].token = worker[v].token
      BY <1>1
  <2> QED BY <2>1 DEF CallInv, ClaimsApart
<1> QED BY <1>3, <1>4, <1>5, <1>6

\* A step without a request within a claim, or out of it.
LEMMA NoRequest ==
    ASSUME CallInv, NEW w \in Workers, NEW x \in Held, Put(w, x),
           UNCHANGED <<stage, row, plan, requests>>,
           x.pc # "idle" => worker[w].pc # "idle" /\ x.token = worker[w].token,
           x.calls < Calls, x.tries <= Retries, x.pc = "sleep" => x.tries < Retries,
           x.pc = "create" => stage = "plan",
           x.pc \in {"ask", "sleep", "create"} /\ plan # NoPlan => x.token <= plan.claims,
           \A s \in Slots : Ahead(x, s) => Ahead(worker[w], s)
    PROVE  CallInv'
<1>1. CallTypes /\ requests <= Cardinality(Spent) /\ requests \in Nat
    BY DEF CallInv, CallTypes
<1>2. CallTypes' /\ RowInv' /\ HeldInv' /\ ClaimsApart'
    BY <1>1, HeldKept
<1>3. Slots' = Slots
    BY DEF Slots, Asking, Calls, Retries, NoPlan
<1>4. \A s \in Slots : Open(s)' => Open(s)
    BY <1>1, OpenFromOthers
<1>5. requests' <= Cardinality(Spent')
    BY <1>1, <1>2, <1>3, <1>4, SpentKept
<1> QED BY <1>2, <1>5 DEF CallInv

\* A request is one that nobody else has, and it is not made again.
LEMMA RequestSpends ==
    ASSUME CallInv, NEW w \in Workers, NEW x, worker[w].pc = "ask", Put(w, x), CallTypes',
           requests' = requests + 1, UNCHANGED <<stage, row, plan>>,
           \A s \in Slots : Ahead(x, s) => Ahead(worker[w], s),
           ~Ahead(x, <<worker[w].token, <<worker[w].calls, worker[w].tries>>>>)
    PROVE  requests' <= Cardinality(Spent')
<1> PICK made : made = <<worker[w].token, <<worker[w].calls, worker[w].tries>>>>
    OBVIOUS
<1>1. CallTypes /\ Slots' = Slots /\ worker[w] \in Held
    BY HeldBy DEF CallInv, Slots, Asking, Calls, Retries, NoPlan
<1>2. made \in Slots
  <2>1. worker[w].token \in 1..Asking
    <3>1. worker[w].token \in 1..row.claims
        BY DEF CallInv, HeldInv
    <3>2. plan # NoPlan => worker[w].token <= plan.claims
        BY DEF CallInv, HeldInv
    <3>3. row.claims \in Nat /\ plan.claims \in Nat
        BY <1>1 DEF CallTypes
    <3> QED BY <3>1, <3>2, <3>3 DEF Asking
  <2>2. worker[w].calls \in 0..(Calls - 1) /\ worker[w].tries \in 0..Retries
      BY <1>1, LimitsOfStage DEF CallInv, HeldInv, Held
  <2> QED BY <2>1, <2>2 DEF Slots
<1>3. Open(made)
    BY <1>1 DEF Open, Ahead, Held
<1>4. ~Open(made)'
  <2> SUFFICES ASSUME NEW v \in Workers, Ahead(worker'[v], made) PROVE FALSE
      BY DEF Open, Ahead
  <2>1. worker'[v] = IF v = w THEN x ELSE worker[v]
      BY <1>1 DEF CallTypes, Put
  <2>2. v # w
      BY <2>1
  <2>3. worker[v].pc # "idle" /\ worker[v].token = worker[w].token
      BY <2>1, <2>2 DEF Ahead
  <2> QED BY <2>2, <2>3 DEF CallInv, ClaimsApart
<1>5. \A s \in Slots : Open(s)' => Open(s)
    BY <1>1, OpenFromOthers
<1>6. Spent \cup {made} \in SUBSET Spent' /\ made \notin Spent
    BY <1>1, <1>2, <1>3, <1>4, <1>5 DEF Spent
<1>7. (IsFiniteSet(Spent) /\ Cardinality(Spent) \in Nat)'
    BY SpentCounted, PTL
<1>8. IsFiniteSet(Spent) /\ Cardinality(Spent) \in Nat
    BY <1>1, SpentCounted
<1>9. Cardinality(Spent \cup {made}) = Cardinality(Spent) + 1
    BY <1>6, <1>8, FS_AddElement
<1>10. Cardinality(Spent \cup {made}) <= Cardinality(Spent')
    BY <1>6, <1>7, FS_Subset
<1>11. requests \in Nat /\ requests <= Cardinality(Spent)
    BY DEF CallInv, CallTypes
<1> QED BY <1>7, <1>8, <1>9, <1>10, <1>11

\* An answer: the call goes on after a sleep, the next call is made, or the asking ends.
LEMMA AnswerInv ==
    ASSUME CallInv, NEW w \in Workers, NEW x \in Held, Asks(w), Put(w, x),
           x.token = worker[w].token,
           x.pc = "create" => stage = "plan",
           \/ /\ x.pc \in {"create", "finish"}
              /\ x.calls = worker[w].calls /\ x.tries = worker[w].tries
           \/ x.pc = "ask" /\ CallAgain(w) /\ x.calls = worker[w].calls + 1 /\ x.tries = 0
           \/ /\ x.pc = "sleep" /\ MayTryAgain(w)
              /\ x.calls = worker[w].calls /\ x.tries = worker[w].tries
    PROVE  CallInv'
<1>1. /\ CallTypes /\ worker[w] \in Held /\ worker[w].pc = "ask"
      /\ requests' = requests + 1 /\ UNCHANGED <<stage, row, plan>> /\ requests' \in Nat
    BY HeldBy DEF CallInv, Asks, CallTypes
<1>2. /\ worker[w].calls < Calls /\ worker[w].tries <= Retries
      /\ plan # NoPlan => worker[w].token <= plan.claims
    BY <1>1 DEF CallInv, HeldInv
<1>3. x.calls < Calls /\ x.tries <= Retries /\ (x.pc = "sleep" => x.tries < Retries)
    BY <1>2, <1>1, LimitsOfStage DEF CallAgain, MayTryAgain
<1>4. CallTypes' /\ RowInv' /\ HeldInv' /\ ClaimsApart'
    BY <1>1, <1>2, <1>3, HeldKept
<1>5. ASSUME NEW s \in Slots, Ahead(x, s) PROVE Ahead(worker[w], s)
  <2>1. s[2][1] \in Int /\ s[2][2] \in Int
      BY <1>1, LimitsOfStage DEF Slots
  <2> QED BY <1>1, <1>5, <2>1 DEF Ahead, Held
<1>6. ~Ahead(x, <<worker[w].token, <<worker[w].calls, worker[w].tries>>>>)
    BY <1>1 DEF Ahead, Held
<1>7. requests' <= Cardinality(Spent')
    BY <1>1, <1>4, <1>5, <1>6, RequestSpends
<1> QED BY <1>4, <1>7 DEF CallInv

\* A claim is a new number, and all of its requests are still to be made.
LEMMA ClaimInv == ASSUME CallInv, NEW w \in Workers, Claim(w) PROVE CallInv'
<1>0. PICK x : x = [Idle EXCEPT !.pc = "start", !.token = row.claims + 1]
    OBVIOUS
<1>1. /\ CallTypes /\ RowInv /\ row.claims \in Nat /\ row.attempts \in Nat
      /\ worker[w].pc = "idle" /\ row.status = "pending"
      /\ row' = [row EXCEPT !.status = "running", !.attempts = row.attempts + 1,
                            !.claims = row.claims + 1, !.token = row.claims + 1]
      /\ UNCHANGED <<stage, plan, requests>>
    BY DEF CallInv, CallTypes, Claim
<1>2. /\ x \in Held /\ x.pc = "start" /\ x.token = row.claims + 1
      /\ x.calls = 0 /\ x.tries = 0
  <2>1. Idle \in Held /\ Idle.calls = 0 /\ Idle.tries = 0
      BY DEF Idle, Held
  <2>2. row.claims + 1 \in Nat
      BY <1>1
  <2> QED BY <1>0, <2>1, <2>2 DEF Held
<1>3. \A v \in Workers : worker'[v] = IF v = w THEN x ELSE worker[v]
    BY <1>0, <1>1 DEF CallTypes, Claim, Put
<1>4. row'.claims = row.claims + 1 /\ row'.attempts = row.attempts + 1 /\ row'.status = "running"
    BY <1>1 DEF CallTypes
<1>5. CallTypes'
  <2>1. row' \in [status : {"pending", "running", "completed", "failed"},
                  attempts : Nat, claims : Nat, token : Nat, waits : BOOLEAN]
    <3>1. /\ row \in [status : {"pending", "running", "completed", "failed"},
                     attempts : Nat, claims : Nat, token : Nat, waits : BOOLEAN]
          /\ row.claims + 1 \in Nat /\ row.attempts + 1 \in Nat
        BY <1>1 DEF CallTypes
    <3>2. row' = [row EXCEPT !.status = "running", !.attempts = row.attempts + 1,
                             !.claims = row.claims + 1, !.token = row.claims + 1]
        BY <1>1
    <3> QED BY <3>1, <3>2
  <2>2. worker' \in [Workers -> Held]
    <3>1. worker \in [Workers -> Held] /\ worker' = [worker EXCEPT ![w] = worker'[w]]
        BY <1>1 DEF CallTypes, Held, Claim, Put
    <3> QED BY <3>1, <1>2, <1>3
  <2> QED BY <1>1, <2>1, <2>2 DEF CallTypes, Held
<1>6. RowInv'
  <2>1. AttemptLimit \in Nat /\ row.attempts < AttemptLimit
      BY <1>1, CallsAssumption DEF RowInv
  <2>2. plan # NoPlan => stage = "plan" /\ plan.claims <= row.claims /\ plan.claims \in Nat
      BY <1>1 DEF RowInv, CallTypes
  <2> QED BY <1>1, <1>4, <2>1, <2>2 DEF RowInv, NoPlan
<1>7. HeldInv'
  <2> SUFFICES ASSUME NEW v \in Workers
               PROVE  /\ worker'[v].pc # "idle" => worker'[v].token \in 1..(row.claims + 1)
                      /\ worker'[v].calls < Calls /\ worker'[v].tries <= Retries
                      /\ worker'[v].pc = "sleep" => worker'[v].tries < Retries
                      /\ worker'[v].pc = "create" => stage = "plan"
                      /\ worker'[v].pc \in {"ask", "sleep", "create"} /\ plan # NoPlan =>
                            worker'[v].token <= plan.claims
      BY <1>1, <1>4 DEF HeldInv, NoPlan, Calls, Retries
  <2>1. CASE v = w
    <3>1. row.claims \in Nat /\ Calls \in Nat \ {0} /\ Retries \in Nat
        BY <1>1, LimitsOfStage
    <3>2. worker'[v] = x
        BY <2>1, <1>3
    <3> QED BY <3>1, <3>2, <1>2
  <2>2. CASE v # w
      BY <2>2, <1>1, <1>3 DEF CallInv, HeldInv
  <2> QED BY <2>1, <2>2
<1>8. ClaimsApart'
  <2> SUFFICES ASSUME NEW u \in Workers, NEW v \in Workers,
                      worker'[u].pc # "idle", worker'[v].pc # "idle",
                      worker'[u].token = worker'[v].token
               PROVE  u = v
      BY DEF ClaimsApart
  <2>1. \A y \in Workers : worker[y].pc # "idle" => worker[y].token \in 1..row.claims
      BY DEF CallInv, HeldInv
  <2>2. u = w <=> v = w
    <3>1. row.claims \in Nat /\ worker'[w].token = row.claims + 1
        BY <1>1, <1>2, <1>3
    <3>2. \A y \in Workers \ {w} : worker'[y] = worker[y]
        BY <1>3
    <3> QED BY <2>1, <3>1, <3>2
  <2>3. CASE u # w
      BY <2>2, <2>3, <1>3 DEF CallInv, ClaimsApart
  <2> QED BY <2>2, <2>3
<1>9. Slots \subseteq Slots'
  <2>1. Asking' \in Nat /\ Asking \in Nat /\ Asking <= Asking'
      BY <1>1, <1>4 DEF Asking, NoPlan, CallTypes
  <2>2. Calls' = Calls /\ Retries' = Retries
      BY <1>1 DEF Calls, Retries
  <2>3. 1..Asking \subseteq 1..Asking'
      BY <2>1
  <2> QED BY <2>2, <2>3 DEF Slots
<1>10. ASSUME NEW s \in Slots, Open(s)' PROVE Open(s)
  <2>1. PICK v \in Workers : Ahead(worker'[v], s)
      BY <1>10 DEF Open, Ahead
  <2>2. CASE v # w
      BY <2>1, <2>2, <1>3 DEF Open
  <2>3. CASE v = w
    <3>1. plan # NoPlan => plan.claims <= row.claims /\ plan.claims \in Nat
        BY <1>1 DEF RowInv, CallTypes
    <3>2. s[1] \in 1..Asking /\ Asking <= row.claims /\ Asking \in Nat
        BY <1>1, <3>1 DEF Slots, Asking
    <3>3. s[1] = row.claims + 1
        BY <2>1, <2>3, <1>2, <1>3 DEF Ahead
    <3> QED BY <3>2, <3>3, <1>1
  <2> QED BY <2>2, <2>3
<1>11. requests' <= Cardinality(Spent')
    BY <1>1, <1>5, <1>9, <1>10, SpentKept DEF CallInv
<1> QED BY <1>5, <1>6, <1>7, <1>8, <1>11 DEF CallInv

\* The row changes, but not how often it was claimed.
LEMMA RowKept ==
    ASSUME CallInv, CallTypes', RowInv', row'.claims = row.claims,
           UNCHANGED <<stage, plan, requests, worker>>
    PROVE  CallInv'
<1>1. Slots' = Slots /\ Spent' = Spent
    BY DEF Slots, Spent, Asking, Calls, Retries, NoPlan, Open, Ahead
<1>2. HeldInv' /\ ClaimsApart'
    BY DEF CallInv, HeldInv, ClaimsApart, Calls, Retries, NoPlan
<1> QED BY <1>1, <1>2 DEF CallInv

LEMMA DueInv == ASSUME CallInv, Due PROVE CallInv'
<1>1. CallTypes' /\ row'.claims = row.claims
    BY DEF CallInv, CallTypes, Due
<1>2. RowInv'
    BY DEF CallInv, CallTypes, RowInv, NoPlan, Due
<1> QED BY <1>1, <1>2, RowKept DEF Due

LEMMA ExpireInv == ASSUME CallInv, Expire PROVE CallInv'
<1>1. CallTypes' /\ row'.claims = row.claims
    BY DEF CallInv, CallTypes, Expire
<1>2. RowInv'
    BY DEF CallInv, CallTypes, RowInv, NoPlan, Expire
<1> QED BY <1>1, <1>2, RowKept DEF Expire

LEMMA ResumeInv == ASSUME CallInv, Resume PROVE CallInv'
<1>1. CallTypes' /\ row'.claims = row.claims
    BY DEF CallInv, CallTypes, Resume, Resumed
<1>2. RowInv'
    BY DEF CallInv, CallTypes, RowInv, NoPlan, Resume, Resumed, RetryLeft
<1> QED BY <1>1, <1>2, RowKept DEF Resume

\* A worker that is done with its claim, or dead, holds nothing.
LEMMA DieInv == ASSUME CallInv, NEW w \in Workers, Die(w) PROVE CallInv'
<1>1. Put(w, Idle) /\ UNCHANGED <<stage, row, plan, requests>> /\ CallTypes
    BY DEF Die, CallInv
<1>2. Idle \in Held /\ Idle.pc = "idle" /\ Idle.calls = 0 /\ Idle.tries = 0
    BY DEF Idle, Held
<1>3. \A s \in Slots : ~Ahead(Idle, s)
    BY <1>2 DEF Ahead
<1> HIDE DEF Idle
<1> QED BY <1>1, <1>2, <1>3, NoRequest, LimitsOfStage

\* Only an outcome that may be tried again, with an attempt left, makes it pending.
LEMMA FinishInv == ASSUME CallInv, NEW w \in Workers, Finish(w) PROVE CallInv'
<1> PICK left : left = [worker EXCEPT ![w] = Idle]
    OBVIOUS
<1>1. /\ CallTypes /\ RowInv /\ HeldInv /\ ClaimsApart /\ worker' = left
      /\ UNCHANGED <<stage, plan, requests>>
    BY DEF CallInv, Finish, Put
<1>2. CallTypes' /\ row'.claims = row.claims
  <2>1. /\ row' \in [status : {"pending", "running", "completed", "failed"},
                     attempts : Nat, claims : Nat, token : Nat, waits : BOOLEAN]
        /\ row'.claims = row.claims
      BY <1>1 DEF CallTypes, Finish
  <2>2. worker' \in [Workers -> Held]
    <3>1. worker \in [Workers -> Held] /\ Idle \in Held
        BY <1>1 DEF CallTypes, Held, Idle
    <3> QED BY <3>1, <1>1
  <2> QED BY <1>1, <2>1, <2>2 DEF CallTypes, Held
<1>3. RowInv'
    BY <1>1 DEF CallTypes, RowInv, NoPlan, Finish, RetryLeft
<1>4. \A v \in Workers : worker'[v] = IF v = w THEN Idle ELSE worker[v]
    BY <1>1 DEF CallTypes
<1>5. Idle.pc = "idle" /\ Idle.calls = 0 /\ Idle.tries = 0
    BY DEF Idle
<1>6. HeldInv'
  <2> SUFFICES ASSUME NEW v \in Workers
               PROVE  /\ worker'[v].pc # "idle" => worker'[v].token \in 1..row.claims
                      /\ worker'[v].calls < Calls /\ worker'[v].tries <= Retries
                      /\ worker'[v].pc = "sleep" => worker'[v].tries < Retries
                      /\ worker'[v].pc = "create" => stage = "plan"
                      /\ worker'[v].pc \in {"ask", "sleep", "create"} /\ plan # NoPlan =>
                            worker'[v].token <= plan.claims
      BY <1>1, <1>2 DEF HeldInv, NoPlan, Calls, Retries
  <2> QED BY <1>1, <1>4, <1>5, LimitsOfStage DEF HeldInv
<1>7. ClaimsApart'
    BY <1>1, <1>4, <1>5 DEF ClaimsApart
<1>8. Slots' = Slots
    BY <1>1, <1>2 DEF Slots, Asking, Calls, Retries, NoPlan
<1>9. Put(w, Idle)
    BY DEF Finish
<1>10. \A s \in Slots : Open(s)' => Open(s)
  <2>1. \A s : ~Ahead(Idle, s)
      BY <1>5 DEF Ahead
  <2> HIDE DEF Idle
  <2> QED BY <1>1, <1>9, <2>1, OpenFromOthers
<1>11. requests' <= Cardinality(Spent')
    BY <1>1, <1>2, <1>8, <1>10, SpentKept DEF CallInv
<1> QED BY <1>2, <1>3, <1>6, <1>7, <1>11 DEF CallInv

\* The end of a stage makes no request, and an answer with which it ends is the last one.
LEMMA EndsInv ==
    ASSUME CallInv, NEW w \in Workers, NEW outcome \in {"ok", "failed", "transient"},
           Ends(w, outcome),
           \/ Asks(w)
           \/ worker[w].pc # "idle" /\ UNCHANGED <<stage, row, plan, requests>>
    PROVE  CallInv'
<1>1. PICK x : x = [worker[w] EXCEPT !.pc = "finish", !.outcome = outcome]
    OBVIOUS
<1>2. worker[w] \in Held /\ CallTypes
    BY HeldBy DEF CallInv
<1>3. /\ x \in Held /\ x.pc = "finish" /\ x.token = worker[w].token
      /\ x.calls = worker[w].calls /\ x.tries = worker[w].tries
    BY <1>1, <1>2 DEF Held
<1>4. Put(w, x)
    BY <1>1 DEF Ends
<1>5. CASE Asks(w)
    BY <1>3, <1>4, <1>5, AnswerInv
<1>6. CASE worker[w].pc # "idle" /\ UNCHANGED <<stage, row, plan, requests>>
  <2>1. \A s \in Slots : ~Ahead(x, s)
      BY <1>3 DEF Ahead
  <2>2. x.calls < Calls /\ x.tries <= Retries
      BY <1>3 DEF CallInv, HeldInv
  <2> QED BY <1>3, <1>4, <1>6, <2>1, <2>2, NoRequest
<1> QED BY <1>5, <1>6

\* The planner is asked again, or the next query is.
LEMMA NextCallInv ==
    ASSUME CallInv, NEW w \in Workers, Asks(w), CallAgain(w), NextCall(w) PROVE CallInv'
<1>1. PICK x : x = [worker[w] EXCEPT !.calls = worker[w].calls + 1, !.tries = 0]
    OBVIOUS
<1>2. worker[w] \in Held /\ CallTypes /\ worker[w].pc = "ask"
    BY HeldBy DEF CallInv, Asks
<1>3. /\ x \in Held /\ x.pc = "ask" /\ x.token = worker[w].token
      /\ x.calls = worker[w].calls + 1 /\ x.tries = 0
  <2>1. worker[w].calls + 1 \in Nat
      BY <1>2 DEF Held
  <2> QED BY <1>1, <1>2, <2>1 DEF Held
<1>4. Put(w, x)
    BY <1>1 DEF NextCall
<1> QED BY <1>3, <1>4, AnswerInv

\* The client sleeps before it tries again.
LEMMA SleepInv ==
    ASSUME CallInv, NEW w \in Workers, Asks(w), MayTryAgain(w),
           Put(w, [worker[w] EXCEPT !.pc = "sleep"])
    PROVE  CallInv'
<1>1. PICK x : x = [worker[w] EXCEPT !.pc = "sleep"]
    OBVIOUS
<1>2. worker[w] \in Held /\ CallTypes
    BY HeldBy DEF CallInv
<1>3. /\ x \in Held /\ x.pc = "sleep" /\ x.token = worker[w].token
      /\ x.calls = worker[w].calls /\ x.tries = worker[w].tries
    BY <1>1, <1>2 DEF Held
<1> QED BY <1>1, <1>3, AnswerInv

\* A plan is only asked for when there is none: a claim made after it asks for nothing.
LEMMA StartInv == ASSUME CallInv, NEW w \in Workers, Start(w) PROVE CallInv'
<1>1. /\ worker[w] \in Held /\ CallTypes /\ worker[w].pc = "start"
      /\ UNCHANGED <<stage, row, plan, requests>>
    BY HeldBy DEF CallInv, Start
<1>2. CASE ExistingPlan
    BY <1>1, <1>2, EndsInv DEF Start
<1>3. CASE ~ExistingPlan
  <2>1. PICK x : x = [worker[w] EXCEPT !.pc = "ask"]
      OBVIOUS
  <2>2. /\ x \in Held /\ x.pc = "ask" /\ x.token = worker[w].token
        /\ x.calls = worker[w].calls /\ x.tries = worker[w].tries
      BY <1>1, <2>1 DEF Held
  <2>3. Put(w, x)
      BY <1>3, <2>1 DEF Start
  <2>4. plan = NoPlan
      BY <1>3 DEF ExistingPlan, CallInv, RowInv
  <2>5. x.calls < Calls /\ x.tries <= Retries
      BY <2>2 DEF CallInv, HeldInv
  <2>6. \A s \in Slots : Ahead(x, s) => Ahead(worker[w], s)
      BY <1>1, <2>2 DEF Ahead
  <2> QED BY <1>1, <2>2, <2>3, <2>4, <2>5, <2>6, NoRequest
<1> QED BY <1>2, <1>3

LEMMA WakeUpInv == ASSUME CallInv, NEW w \in Workers, WakeUp(w) PROVE CallInv'
<1>1. PICK x : x = [worker[w] EXCEPT !.pc = "ask", !.tries = worker[w].tries + 1]
    OBVIOUS
<1>2. /\ worker[w] \in Held /\ CallTypes /\ worker[w].pc = "sleep"
      /\ UNCHANGED <<stage, row, plan, requests>>
    BY HeldBy DEF CallInv, WakeUp
<1>3. /\ x \in Held /\ x.pc = "ask" /\ x.token = worker[w].token
      /\ x.calls = worker[w].calls /\ x.tries = worker[w].tries + 1
  <2>1. worker[w].tries + 1 \in Nat
      BY <1>2 DEF Held
  <2> QED BY <1>1, <1>2, <2>1 DEF Held
<1>4. Put(w, x)
    BY <1>1 DEF WakeUp
<1>5. /\ x.calls < Calls /\ worker[w].tries < Retries
      /\ plan # NoPlan => x.token <= plan.claims
    BY <1>2, <1>3 DEF CallInv, HeldInv
<1>6. x.tries <= Retries
    BY <1>2, <1>3, <1>5, LimitsOfStage DEF Held
<1>7. ASSUME NEW s \in Slots, Ahead(x, s) PROVE Ahead(worker[w], s)
  <2>1. s[2][2] \in Int /\ worker[w].tries \in Int
      BY <1>2, LimitsOfStage DEF Slots, Held
  <2> QED BY <1>2, <1>3, <1>7, <2>1 DEF Ahead
<1> QED BY <1>2, <1>3, <1>4, <1>5, <1>6, <1>7, NoRequest

\* Of an answer the asking ends, goes on after a sleep, or goes on with the next call.
LEMMA ReplyInv == ASSUME CallInv, NEW w \in Workers, Reply(w) PROVE CallInv'
<1>1. CASE Good(w)
  <2>1. Asks(w)
      BY <1>1 DEF Good
  <2>2. CASE stage = "plan" /\ Put(w, [worker[w] EXCEPT !.pc = "create"])
    <3>1. PICK x : x = [worker[w] EXCEPT !.pc = "create"]
        OBVIOUS
    <3>2. worker[w] \in Held
        BY HeldBy DEF CallInv
    <3>3. /\ x \in Held /\ x.pc = "create" /\ x.token = worker[w].token
          /\ x.calls = worker[w].calls /\ x.tries = worker[w].tries
        BY <3>1, <3>2 DEF Held
    <3> QED BY <2>1, <2>2, <3>1, <3>3, AnswerInv
  <2>3. CASE CallAgain(w) /\ NextCall(w)
      BY <2>1, <2>3, NextCallInv
  <2>4. CASE Ends(w, "ok")
      BY <2>1, <2>4, EndsInv
  <2> QED BY <1>1, <2>2, <2>3, <2>4 DEF Good
<1>2. CASE Invalid(w)
    BY <1>2, NextCallInv, EndsInv DEF Invalid
<1>3. CASE Rejected(w)
    BY <1>3, EndsInv DEF Rejected
<1>4. CASE Odd(w)
    BY <1>4, EndsInv DEF Odd
<1>5. CASE Down(w)
    BY <1>5, SleepInv, EndsInv DEF Down, GivenUp
<1>6. CASE Limited(w)
  <2>1. Asks(w)
      BY <1>6 DEF Limited
  <2>2. \/ MayTryAgain(w) /\ Put(w, [worker[w] EXCEPT !.pc = "sleep"])
        \/ Ends(w, "failed")
        \/ Ends(w, "transient")
      BY <1>6 DEF Limited, GivenUp
  <2> QED BY <2>1, <2>2, SleepInv, EndsInv
<1> QED BY <1>1, <1>2, <1>3, <1>4, <1>5, <1>6 DEF Reply

\* The plan is inserted when there was none, and every claim made by then may have asked.
LEMMA CreateInv == ASSUME CallInv, NEW w \in Workers, Create(w) PROVE CallInv'
<1>1. /\ CallTypes /\ RowInv /\ worker[w] \in Held /\ worker[w].pc = "create"
      /\ row.claims \in Nat /\ UNCHANGED <<stage, row, requests>>
    BY HeldBy DEF CallInv, CallTypes, Create
<1>2. CASE plan' = plan /\ (Ends(w, "failed") \/ Ends(w, "ok"))
    BY <1>1, <1>2, EndsInv
<1>3. CASE plan = NoPlan /\ plan' = Inserted(w) /\ Ends(w, "ok")
  <2>1. PICK x : x = [worker[w] EXCEPT !.pc = "finish", !.outcome = "ok"]
      OBVIOUS
  <2>2. /\ x \in Held /\ x.pc = "finish" /\ x.token = worker[w].token
        /\ x.calls = worker[w].calls /\ x.tries = worker[w].tries
      BY <1>1, <2>1 DEF Held
  <2>3. Put(w, x)
      BY <1>3, <2>1 DEF Ends
  <2>4. \A v \in Workers : worker'[v] = IF v = w THEN x ELSE worker[v]
      BY <1>1, <2>3 DEF CallTypes, Put
  <2>5. worker[w].token \in 1..row.claims
      BY <1>1 DEF CallInv, HeldInv
  <2>6. plan' = [by |-> worker[w].token, claims |-> row.claims]
      BY <1>3 DEF Inserted
  <2>7. plan'.claims = row.claims /\ plan' # NoPlan /\ plan' \in [by : Nat, claims : Nat]
      BY <1>1, <2>5, <2>6 DEF NoPlan
  <2>8. CallTypes'
    <3>1. worker' \in [Workers -> Held]
      <4>1. worker \in [Workers -> Held]
          BY <1>1 DEF CallTypes, Held
      <4> QED BY <4>1, <2>2, <2>3 DEF Put
    <3> QED BY <1>1, <2>7, <3>1 DEF CallTypes, Held
  <2>9. RowInv'
    <3>1. stage = "plan"
        BY <1>1 DEF CallInv, HeldInv
    <3> QED BY <1>1, <2>7, <3>1 DEF RowInv
  <2>10. HeldInv'
    <3> SUFFICES ASSUME NEW v \in Workers
                 PROVE  /\ worker'[v].pc # "idle" => worker'[v].token \in 1..row.claims
                        /\ worker'[v].calls < Calls /\ worker'[v].tries <= Retries
                        /\ worker'[v].pc = "sleep" => worker'[v].tries < Retries
                        /\ worker'[v].pc = "create" => stage = "plan"
                        /\ worker'[v].pc \in {"ask", "sleep", "create"} =>
                              worker'[v].token <= row.claims
        BY <1>1, <2>7 DEF HeldInv, Calls, Retries
    <3>1. CASE v = w
        BY <3>1, <2>2, <2>4, <2>5 DEF CallInv, HeldInv
    <3>2. CASE v # w
      <4>1. worker'[v] = worker[v]
          BY <3>2, <2>4
      <4>2. worker[v].pc # "idle" => worker[v].token <= row.claims
          BY <1>1 DEF CallInv, HeldInv
      <4> QED BY <4>1, <4>2 DEF CallInv, HeldInv
    <3> QED BY <3>1, <3>2
  <2>11. ClaimsApart'
    <3> SUFFICES ASSUME NEW u \in Workers, NEW v \in Workers,
                        worker'[u].pc # "idle", worker'[v].pc # "idle",
                        worker'[u].token = worker'[v].token
                 PROVE  u = v
        BY DEF ClaimsApart
    <3>1. /\ worker[u].pc # "idle" /\ worker'[u].token = worker[u].token
          /\ worker[v].pc # "idle" /\ worker'[v].token = worker[v].token
        BY <1>1, <2>2, <2>4
    <3> QED BY <3>1 DEF CallInv, ClaimsApart
  <2>12. Slots' = Slots
    <3>1. Asking' = Asking
        BY <1>3, <2>7 DEF Asking
    <3>2. Calls' = Calls /\ Retries' = Retries
        BY <1>1 DEF Calls, Retries
    <3> QED BY <3>1, <3>2 DEF Slots
  <2>13. \A s \in Slots : Open(s)' => Open(s)
    <3>1. \A s : ~Ahead(x, s)
        BY <2>2 DEF Ahead
    <3> QED BY <1>1, <2>3, <3>1, OpenFromOthers
  <2>14. requests' <= Cardinality(Spent')
      BY <1>1, <2>8, <2>12, <2>13, SpentKept DEF CallInv
  <2> QED BY <2>8, <2>9, <2>10, <2>11, <2>14 DEF CallInv
<1> QED BY <1>2, <1>3 DEF Create, Inserted

LEMMA SoftTimeLimitInv == ASSUME CallInv, NEW w \in Workers, SoftTimeLimit(w) PROVE CallInv'
BY EndsInv DEF SoftTimeLimit

\* Nobody has asked at first.
LEMMA CallsInitInv == CallsInit => CallInv
<1> SUFFICES ASSUME CallsInit PROVE CallInv
    OBVIOUS
<1>1. CallTypes
  <2>1. worker = [w \in Workers |-> Idle] /\ Idle \in Held
      BY DEF CallsInit, Idle, Held
  <2>2. worker \in [Workers -> Held]
      BY <2>1
  <2> QED BY <2>2 DEF CallsInit, CallTypes, NoPlan, Held
<1>2. RowInv
    BY CallsAssumption DEF CallsInit, RowInv
<1>3. \A w \in Workers : worker[w].pc = "idle" /\ worker[w].calls = 0 /\ worker[w].tries = 0
    BY DEF CallsInit, Idle
<1>4. HeldInv /\ ClaimsApart
    BY <1>1, <1>3, LimitsOfStage DEF HeldInv, ClaimsApart
<1>5. requests <= Cardinality(Spent)
    BY <1>1, SpentCounted DEF CallsInit
<1> QED BY <1>1, <1>2, <1>4, <1>5 DEF CallInv

\* Every step keeps the invariant.
LEMMA CallsNextInv == CallInv /\ [CallsNext]_callVars => CallInv'
<1> SUFFICES ASSUME CallInv, [CallsNext]_callVars PROVE CallInv'
    OBVIOUS
<1>1. CASE UNCHANGED callVars
  <2>1. UNCHANGED <<stage, row, plan, requests, worker>>
      BY <1>1 DEF callVars
  <2>2. Slots' = Slots /\ Spent' = Spent
      BY <2>1 DEF Slots, Spent, Asking, Calls, Retries, NoPlan, Open, Ahead
  <2>3. CallTypes' /\ RowInv' /\ HeldInv' /\ ClaimsApart'
      BY <2>1 DEF CallInv, CallTypes, RowInv, HeldInv, ClaimsApart, Calls, Retries, NoPlan
  <2> QED BY <2>1, <2>2, <2>3 DEF CallInv
<1>2. ASSUME NEW w \in Workers, Claim(w) \/ WorkerStep(w) \/ SoftTimeLimit(w) \/ Die(w)
      PROVE  CallInv'
    BY <1>2, ClaimInv, StartInv, ReplyInv, WakeUpInv, CreateInv, FinishInv,
       SoftTimeLimitInv, DieInv DEF WorkerStep
<1>3. CASE Due \/ Expire \/ Resume
    BY <1>3, DueInv, ExpireInv, ResumeInv
<1> QED BY <1>1, <1>2, <1>3 DEF CallsNext

\* Requests do not exceed the spent ones, these the slots, and these the limit.
LEMMA CallInvImplies == CallInv => RequestsBounded
<1> SUFFICES ASSUME CallInv PROVE RequestsBounded
    OBVIOUS
<1>1. /\ CallTypes /\ requests \in Nat /\ Asking \in Nat /\ PerClaim \in Nat
      /\ requests <= Asking * PerClaim
  <2>1. CallTypes /\ requests \in Nat /\ requests <= Cardinality(Spent)
      BY DEF CallInv, CallTypes
  <2>2. Cardinality(Spent) \in Nat /\ Cardinality(Spent) <= Asking * PerClaim
      BY <2>1, SpentCounted
  <2>3. Asking \in Nat /\ PerClaim \in Nat
      BY <2>1, LimitsOfStage
  <2>4. Asking * PerClaim \in Nat
      BY <2>3
  <2> QED BY <2>1, <2>2, <2>3, <2>4
<1>2. Asking <= AttemptLimit
    BY <1>1, CallsAssumption DEF CallInv, CallTypes, RowInv, Asking
<1>3. AttemptLimit \in Nat
    BY CallsAssumption
<1>4. requests <= AttemptLimit * PerClaim
  <2>1. \A a, b, c \in Nat : a <= b => a * c <= b * c
      OBVIOUS
  <2>2. Asking * PerClaim <= AttemptLimit * PerClaim
      BY <1>1, <1>2, <1>3, <2>1
  <2>3. Asking * PerClaim \in Nat /\ AttemptLimit * PerClaim \in Nat
      BY <1>1, <1>3
  <2> QED BY <1>1, <2>2, <2>3
<1> QED BY <1>1, <1>4 DEF RequestsBounded, Asking

(* The retries of the client, of the planner and of the workflow multiply and no more:
   for any number of workers, with any of them dead, late or without its claim, a stage
   asks a provider at most PerClaim times per attempt, and once there is a plan no later
   claim adds to it. *)
THEOREM RequestsBoundedCorrect == CallsSpec => []RequestsBounded
<1>1. CallsInit => CallInv
    BY CallsInitInv
<1>2. CallInv /\ [CallsNext]_callVars => CallInv'
    BY CallsNextInv
<1>3. CallInv => RequestsBounded
    BY CallInvImplies
<1> QED BY <1>1, <1>2, <1>3, PTL DEF CallsSpec

-----------------------------------------------------------------------------
(* The scheduling pass, for plans of any size in any states. *)

\* The order of numbers is by how many are not above them.
LEMMA SortedLists ==
    ASSUME NEW S, S \subseteq Int, IsFiniteSet(S)
    PROVE  /\ Cardinality(S) \in Nat
           /\ Sorted(S) \in [1..Cardinality(S) -> S]
           /\ \A i, j \in 1..Cardinality(S) : i # j => Sorted(S)[i] # Sorted(S)[j]
           /\ \A k \in S : \E i \in 1..Cardinality(S) : Sorted(S)[i] = k
<1> DEFINE n == Cardinality(S)
           Upto(k) == {j \in S : j <= k}
           rank == [k \in S |-> Cardinality(Upto(k))]
<1>1. n \in Nat
    BY FS_CardinalityType
<1>2. IsFiniteSet(1..n) /\ Cardinality(1..n) = n
    BY <1>1, FS_Interval
<1>3. ASSUME NEW k \in S
      PROVE  /\ IsFiniteSet(Upto(k)) /\ Cardinality(Upto(k)) \in 1..n
  <2>1. Upto(k) \in SUBSET S /\ k \in Upto(k)
      OBVIOUS
  <2>2. IsFiniteSet(Upto(k)) /\ Cardinality(Upto(k)) <= n
      BY <2>1, FS_Subset
  <2>3. Cardinality(Upto(k)) \in Nat /\ Cardinality(Upto(k)) # 0
    <3> HIDE DEF Upto
    <3> QED BY <2>1, <2>2, FS_CardinalityType, FS_EmptySet
  <2> QED BY <1>1, <2>2, <2>3
<1>4. ASSUME NEW k \in S, NEW m \in S, k < m PROVE rank[k] < rank[m]
  <2>1. Upto(k) \in SUBSET Upto(m) /\ m \in Upto(m) /\ m \notin Upto(k)
    <3>1. k \in Int /\ m \in Int /\ \A j \in S : j \in Int
        OBVIOUS
    <3>2. \A j \in S : j <= k => j <= m
        BY <1>4, <3>1
    <3>3. m <= m /\ ~(m <= k)
        BY <1>4, <3>1
    <3>4. \A j \in Upto(k) : j \in Upto(m)
        BY <3>2
    <3>5. m \in Upto(m)
        BY <3>3
    <3>6. m \notin Upto(k)
        BY <3>3
    <3> QED BY <3>4, <3>5, <3>6
  <2>2. /\ Cardinality(Upto(k)) <= Cardinality(Upto(m))
        /\ Cardinality(Upto(m)) = Cardinality(Upto(k)) => Upto(m) = Upto(k)
    <3> HIDE DEF Upto
    <3> QED BY <2>1, <1>3, FS_Subset
  <2>3. Cardinality(Upto(k)) \in Nat /\ Cardinality(Upto(m)) \in Nat
      BY <1>1, <1>3
  <2> HIDE DEF Upto
  <2> QED BY <2>1, <2>2, <2>3
<1>5. rank \in [S -> 1..n] /\ \A k \in S : rank[k] \in Int
    BY <1>1, <1>3
<1> HIDE DEF rank, Upto
<1>6. \A i \in 1..n : \E k \in S : rank[k] = i
  <2>1. \A k, m \in S : rank[k] = rank[m] => k = m
      BY <1>4, <1>5
  <2>2. rank \in Injection(S, 1..n)
      BY <1>5, <2>1 DEF Injection, IsInjective
  <2>3. rank \in Surjection(S, 1..n)
      BY <2>2, <1>2, FS_Injection
  <2> QED BY <2>3 DEF Surjection
<1> DEFINE Increasing(q) == \A i, j \in DOMAIN q : i < j => q[i] < q[j]
<1>7. \E q \in [1..n -> S] : Increasing(q)
  <2> DEFINE q == [i \in 1..n |-> CHOOSE k \in S : rank[k] = i]
  <2>1. \A i \in 1..n : q[i] \in S /\ rank[q[i]] = i
      BY <1>6
  <2>2. q \in [1..n -> S]
      BY <2>1
  <2>3. ASSUME NEW i \in 1..n, NEW j \in 1..n, i < j PROVE q[i] < q[j]
    <3> HIDE DEF q
    <3>1. q[i] \in S /\ q[j] \in S /\ rank[q[i]] = i /\ rank[q[j]] = j
        BY <2>1
    <3>2. q[i] # q[j]
        BY <3>1, <2>3, <1>1
    <3>3. ~(q[j] < q[i])
      <4>1. q[j] < q[i] => j < i
          BY <3>1, <1>4
      <4> QED BY <4>1, <2>3, <1>1
    <3>4. q[i] \in Int /\ q[j] \in Int
        BY <3>1
    <3> QED BY <3>2, <3>3, <3>4
  <2> HIDE DEF q
  <2> QED BY <2>2, <2>3
<1>8. Sorted(S) \in [1..n -> S] /\ Increasing(Sorted(S))
    BY <1>7 DEF Sorted
<1> DEFINE list == Sorted(S)
<1>9. \A i, j \in 1..n : i # j => list[i] # list[j]
  <2> SUFFICES ASSUME NEW i \in 1..n, NEW j \in 1..n, i # j PROVE list[i] # list[j]
      OBVIOUS
  <2>1. i < j \/ j < i
      BY <1>1
  <2>2. list[i] \in Int /\ list[j] \in Int
      BY <1>8
  <2>3. list[i] < list[j] \/ list[j] < list[i]
      BY <1>8, <2>1
  <2> QED BY <2>2, <2>3
<1>10. \A k \in S : \E i \in 1..n : list[i] = k
  <2> HIDE DEF list
  <2>1. list \in [1..n -> S]
      BY <1>8 DEF list
  <2>2. list \in Injection(1..n, S)
      BY <1>9, <2>1 DEF Injection, IsInjective
  <2>3. list \in Surjection(1..n, S)
      BY <2>2, <1>2, FS_Injection
  <2> QED BY <2>3 DEF Surjection
<1> QED BY <1>1, <1>8, <1>9, <1>10

\* ClosedUnderFailure, at one task.
Fails(dd, st, S, t) == \E p \in dd[t] : st[p] \in {"failed", "blocked"} \/ p \in S

\* The blocked tasks are closed: whoever has one for a parent is blocked itself.
LEMMA DoomedClosed ==
    ASSUME NEW dd, NEW st, NEW t \in Pending(st), Fails(dd, st, Doomed(dd, st), t)
    PROVE  t \in Doomed(dd, st)
<1> SUFFICES ASSUME NEW S \in SUBSET Pending(st), ClosedUnderFailure(dd, st, S)
             PROVE  t \in S
    BY DEF Doomed
<1>1. Doomed(dd, st) \subseteq S
    BY DEF Doomed
<1>2. Fails(dd, st, S, t)
    BY <1>1 DEF Fails
<1> QED BY <1>2 DEF ClosedUnderFailure, Fails

\* ... and they are the least closed set: nobody is blocked without such a parent.
LEMMA DoomedLeast ==
    ASSUME NEW dd, NEW st, NEW t \in Doomed(dd, st)
    PROVE  Fails(dd, st, Doomed(dd, st), t)
<1> SUFFICES ASSUME ~Fails(dd, st, Doomed(dd, st), t) PROVE FALSE
    OBVIOUS
<1> DEFINE rest == Doomed(dd, st) \ {t}
<1>1. rest \in SUBSET Pending(st)
    BY DEF Doomed
<1>2. ClosedUnderFailure(dd, st, rest)
  <2> SUFFICES ASSUME NEW u \in Pending(st), Fails(dd, st, rest, u) PROVE u \in rest
      BY DEF ClosedUnderFailure, Fails
  <2>1. Fails(dd, st, Doomed(dd, st), u)
      BY DEF Fails
  <2> QED BY <2>1, DoomedClosed
<1>3. t \in rest
    BY <1>1, <1>2 DEF Doomed
<1> QED BY <1>3

\* What Advance makes of a task, told by what it makes of the parents.
LEMMA AdvanceFromParents ==
    ASSUME NEW dd, NEW st, NEW t \in DOMAIN st, dd[t] \subseteq DOMAIN st
    PROVE  Advance(dd, st)[t] =
              IF st[t] # "pending" THEN st[t]
              ELSE IF \E p \in dd[t] : Advance(dd, st)[p] \in {"failed", "blocked"} THEN "blocked"
              ELSE IF \A p \in dd[t] : Advance(dd, st)[p] = "completed" THEN "queued"
              ELSE st[t]
<1> DEFINE adv == Advance(dd, st)
<1>1. \A p \in DOMAIN st :
          adv[p] = IF p \in Doomed(dd, st) THEN "blocked"
                   ELSE IF p \in Ready(dd, st) THEN "queued" ELSE st[p]
    BY DEF Advance
<1>2. \A p \in DOMAIN st : p \in Doomed(dd, st) \/ p \in Ready(dd, st) => st[p] = "pending"
    BY DEF Doomed, Ready, Pending
<1> HIDE DEF adv
<1>3. CASE st[t] # "pending"
    BY <1>1, <1>2, <1>3 DEF adv
<1>4. \A p \in dd[t] :
          adv[p] \in {"failed", "blocked"} <=>
              st[p] \in {"failed", "blocked"} \/ p \in Doomed(dd, st)
    BY <1>1, <1>2
<1>5. \A p \in dd[t] : adv[p] = "completed" <=> st[p] = "completed"
    BY <1>1, <1>2
<1>6. ASSUME st[t] = "pending" PROVE t \in Pending(st)
    BY <1>6 DEF Pending
<1>7. CASE st[t] = "pending" /\ Fails(dd, st, Doomed(dd, st), t)
  <2>1. t \in Doomed(dd, st)
      BY <1>6, <1>7, DoomedClosed
  <2>2. \E p \in dd[t] : adv[p] \in {"failed", "blocked"}
      BY <1>4, <1>7 DEF Fails
  <2> QED BY <1>1, <1>7, <2>1, <2>2 DEF adv
<1>8. CASE st[t] = "pending" /\ ~Fails(dd, st, Doomed(dd, st), t)
  <2>1. t \notin Doomed(dd, st)
      BY <1>8, DoomedLeast
  <2>2. ~\E p \in dd[t] : adv[p] \in {"failed", "blocked"}
      BY <1>4, <1>8 DEF Fails
  <2>3. t \in Ready(dd, st) <=> \A p \in dd[t] : adv[p] = "completed"
      BY <1>5, <1>6, <1>8 DEF Ready
  <2> QED BY <1>1, <1>8, <2>1, <2>2, <2>3 DEF adv
<1> QED BY <1>3, <1>7, <1>8

Given == Scope \cup {"pending", "queued", "blocked"}

PassTypes ==
    /\ deps \in [Keys -> SUBSET (Keys \cup {Unknown})]
    /\ pc \in {"check", "batch", "loop", "done", "refused"}
    /\ pc \notin {"check", "refused"} => \A k \in Keys : deps[k] \subseteq Keys
    /\ ordered \in Seq(Keys)
    /\ given \in [Keys -> Given] /\ updated \in [Keys -> Given]
    /\ at \in Nat

\* Every task is listed once, after its parents.
ListedOnce == \A i, j \in 1..Len(ordered) : ordered[i] = ordered[j] => i = j

ListedLater ==
    \A i \in 1..Len(ordered) : deps[ordered[i]] \subseteq {ordered[j] : j \in 1..(i - 1)}

\* The loop has made of the tasks it has visited what Advance makes of them.
VisitInv ==
    /\ pc \in {"check", "batch"} => at = 0
    /\ pc \in {"loop", "done"} =>
          /\ Len(ordered) = Size /\ at <= Size
          /\ \A k \in Keys : \E i \in 1..Size : ordered[i] = k
          /\ \A i \in 1..Size :
                updated[ordered[i]] =
                    IF i <= at THEN Advance(deps, given)[ordered[i]] ELSE given[ordered[i]]
    /\ pc = "done" => at = Size

PassInv == PassTypes /\ ListedOnce /\ ListedLater /\ VisitInv

\* The length of the list, and its set.
LEMMA ListFacts ==
    ASSUME PassTypes
    PROVE  /\ Len(ordered) \in Nat /\ DOMAIN ordered = 1..Len(ordered)
           /\ \A i \in 1..Len(ordered) : ordered[i] \in Keys
           /\ ToSet(ordered) = {ordered[i] : i \in 1..Len(ordered)}
<1>1. ordered \in Seq(Keys)
    BY DEF PassTypes
<1> QED BY <1>1, LenProperties, ElementOfSeq DEF ToSet

LEMMA PassInitInv == PassInit => PassInv
<1> SUFFICES ASSUME PassInit PROVE PassInv
    OBVIOUS
<1>1. PassTypes
    BY DEF PassInit, PassTypes, NoStates, Given
<1>2. Len(ordered) = 0
    BY DEF PassInit
<1> QED BY <1>1, <1>2 DEF PassInit, PassInv, ListedOnce, ListedLater, VisitInv

LEMMA RefuseInv == PassInv /\ Refuse => PassInv'
BY DEF PassInv, PassTypes, ListedOnce, ListedLater, VisitInv, Refuse

LEMMA PrepareInv == PassInv /\ Prepare => PassInv'
BY DEF PassInv, PassTypes, ListedOnce, ListedLater, VisitInv, Prepare, WellFormed

\* A batch has tasks that are not listed yet, and whose parents are.
LEMMA BatchInv == PassInv /\ Batch => PassInv'
<1> SUFFICES ASSUME PassInv, Batch PROVE PassInv'
    OBVIOUS
<1> DEFINE S == GetReady
           n == Cardinality(S)
           m == Len(ordered)
           q == Sorted(S)
<1>1. /\ PassTypes /\ pc = "batch" /\ ordered' = ordered \o q
      /\ UNCHANGED <<deps, pc, given, updated, at>>
    BY DEF PassInv, Batch
<1>2. S \subseteq Keys \ ToSet(ordered) /\ \A k \in S : deps[k] \subseteq ToSet(ordered)
    BY DEF GetReady
<1>3. S \subseteq Int /\ IsFiniteSet(S)
  <2>1. Keys \subseteq Int /\ IsFiniteSet(Keys)
      BY PassAssumption, FS_Interval DEF Keys
  <2>2. S \in SUBSET Keys
      BY <1>2
  <2> QED BY <2>1, <2>2, FS_Subset
<1>4. /\ n \in Nat /\ q \in [1..n -> S]
      /\ \A i, j \in 1..n : i # j => q[i] # q[j]
    BY <1>3, SortedLists
<1>5. /\ m \in Nat /\ \A i \in 1..m : ordered[i] \in Keys
      /\ ToSet(ordered) = {ordered[i] : i \in 1..m}
    BY <1>1, ListFacts
<1> HIDE DEF S, n, m, q
<1>6. q \in Seq(Keys) /\ Len(q) = n
    BY <1>2, <1>4
<1>7. /\ ordered' \in Seq(Keys) /\ Len(ordered') = m + n
      /\ \A i \in 1..(m + n) : ordered'[i] = IF i <= m THEN ordered[i] ELSE q[i - m]
    BY <1>1, <1>6, ConcatProperties DEF PassTypes, m
<1>8. \A i \in (m + 1)..(m + n) : i - m \in 1..n /\ ordered'[i] = q[i - m] /\ q[i - m] \in S
    BY <1>4, <1>5, <1>7
<1>9. \A i \in 1..m : ordered'[i] = ordered[i] /\ ordered[i] \in ToSet(ordered)
    BY <1>4, <1>5, <1>7
<1>10. PassTypes'
    BY <1>1, <1>7 DEF PassTypes
<1>11. ListedOnce'
  <2> SUFFICES ASSUME NEW i \in 1..(m + n), NEW j \in 1..(m + n), ordered'[i] = ordered'[j]
               PROVE  i = j
      BY <1>7 DEF ListedOnce
  <2>1. CASE i <= m /\ j <= m
      BY <2>1, <1>5, <1>9 DEF PassInv, ListedOnce, m
  <2>2. CASE i > m /\ j > m
    <3>1. i \in (m + 1)..(m + n) /\ j \in (m + 1)..(m + n)
        BY <2>2, <1>4, <1>5
    <3>2. q[i - m] = q[j - m] /\ i - m \in 1..n /\ j - m \in 1..n
        BY <3>1, <1>8
    <3>3. i - m = j - m
        BY <3>2, <1>4
    <3> QED BY <3>3, <1>4, <1>5
  <2>3. CASE (i <= m /\ j > m) \/ (i > m /\ j <= m)
    <3>1. \A a \in 1..(m + n) : a <= m => ordered'[a] \in ToSet(ordered)
        BY <1>4, <1>5, <1>9
    <3>2. \A a \in 1..(m + n) : a > m => ordered'[a] \in S
        BY <1>4, <1>5, <1>8
    <3> QED BY <2>3, <3>1, <3>2, <1>2
  <2> QED BY <2>1, <2>2, <2>3, <1>4, <1>5
<1>12. ListedLater'
  <2> SUFFICES ASSUME NEW i \in 1..(m + n)
               PROVE  deps[ordered'[i]] \subseteq {ordered'[j] : j \in 1..(i - 1)}
      BY <1>1, <1>7 DEF ListedLater
  <2> SUFFICES ASSUME NEW p \in deps[ordered'[i]]
               PROVE  \E j \in 1..(i - 1) : p = ordered'[j]
      OBVIOUS
  <2>1. CASE i <= m
    <3>1. i \in 1..m /\ ordered'[i] = ordered[i]
        BY <2>1, <1>4, <1>5, <1>9
    <3>2. PICK j \in 1..(i - 1) : p = ordered[j]
        BY <3>1 DEF PassInv, ListedLater, m
    <3>3. ordered'[j] = ordered[j]
        BY <3>1, <1>5, <1>9
    <3> QED BY <3>2, <3>3
  <2>2. CASE i > m
    <3>1. ordered'[i] \in S
        BY <2>2, <1>4, <1>5, <1>8
    <3>2. PICK j \in 1..m : p = ordered[j]
        BY <3>1, <1>2, <1>5
    <3>3. j \in 1..(i - 1) /\ ordered'[j] = ordered[j]
        BY <2>2, <1>4, <1>5, <1>9
    <3> QED BY <3>2, <3>3
  <2> QED BY <2>1, <2>2, <1>4, <1>5
<1>13. VisitInv'
    BY <1>1 DEF PassInv, VisitInv
<1> QED BY <1>10, <1>11, <1>12, <1>13 DEF PassInv

\* advance is called with a list of all tasks, each once: as many as there are.
LEMMA CallKeeps == PassInv /\ Call => PassInv'
<1> SUFFICES ASSUME PassInv, Call PROVE PassInv'
    OBVIOUS
<1>1. /\ PassTypes /\ pc = "batch" /\ ToSet(ordered) = Keys /\ pc' = "loop"
      /\ given' \in [Keys -> Scope] /\ updated' = given'
      /\ UNCHANGED <<deps, ordered, at>> /\ at = 0
    BY DEF PassInv, VisitInv, Call
<1>2. PassTypes'
  <2>1. given' \in [Keys -> Given]
      BY <1>1 DEF Given
  <2> QED BY <1>1, <2>1 DEF PassTypes
<1>3. /\ Len(ordered) \in Nat /\ DOMAIN ordered = 1..Len(ordered)
      /\ \A i \in 1..Len(ordered) : ordered[i] \in Keys
      /\ ToSet(ordered) = {ordered[i] : i \in 1..Len(ordered)}
    BY <1>1, ListFacts
<1>4. \A k \in Keys : \E i \in 1..Len(ordered) : ordered[i] = k
    BY <1>1, <1>3
<1>5. Len(ordered) = Size
  <2>1. ordered \in [1..Len(ordered) -> Keys]
      BY <1>1, <1>3, LenProperties DEF PassTypes
  <2>2. ordered \in Injection(1..Len(ordered), Keys)
      BY <2>1, <1>3 DEF PassInv, ListedOnce, Injection, IsInjective
  <2>3. ordered \in Surjection(1..Len(ordered), Keys)
      BY <2>1, <1>4 DEF Surjection
  <2>4. IsFiniteSet(1..Len(ordered)) /\ Cardinality(1..Len(ordered)) = Len(ordered)
      BY <1>3, FS_Interval
  <2>5. Cardinality(Keys) = Size
      BY PassAssumption, FS_Interval DEF Keys
  <2>6. Cardinality(1..Len(ordered)) = Cardinality(Keys)
    <3> PICK D : D = 1..Len(ordered)
        OBVIOUS
    <3>1. ordered \in Injection(D, Keys) /\ ordered \in Surjection(D, Keys) /\ IsFiniteSet(D)
        BY <2>2, <2>3, <2>4
    <3>2. ordered \in Bijection(D, Keys)
        BY <3>1 DEF Bijection
    <3>3. ExistsBijection(D, Keys)
        BY <3>2 DEF ExistsBijection
    <3>4. Cardinality(D) = Cardinality(Keys)
        BY <3>1, <3>3, FS_Bijection
    <3> QED BY <3>4
  <2> QED BY <2>4, <2>5, <2>6
<1>6. VisitInv'
  <2>1. \A i \in 1..Size : ~(i <= 0)
      BY PassAssumption
  <2> QED BY <1>1, <1>4, <1>5, <2>1, PassAssumption DEF VisitInv
<1>7. ListedOnce' /\ ListedLater'
  <2>1. ordered' = ordered /\ deps' = deps
      BY <1>1
  <2>2. ListedOnce /\ ListedLater
      BY DEF PassInv
  <2>3. ListedOnce'
      BY <2>1, <2>2 DEF ListedOnce
  <2>4. ListedLater'
      BY <2>1, <2>2 DEF ListedLater
  <2> QED BY <2>3, <2>4
<1> QED BY <1>2, <1>6, <1>7 DEF PassInv

\* The parents of the task that is visited have been: what they have become decides.
LEMMA VisitKeeps == PassInv /\ Visit => PassInv'
<1> SUFFICES ASSUME PassInv, Visit PROVE PassInv'
    OBVIOUS
<1> DEFINE k == ordered[at + 1]
           adv == Advance(deps, given)
<1>1. /\ PassTypes /\ pc = "loop" /\ at < Size /\ at \in Nat /\ Len(ordered) = Size
      /\ at' = at + 1 /\ UNCHANGED <<deps, pc, ordered, given>>
      /\ updated' = IF updated[k] = "pending"
                    THEN [updated EXCEPT ![k] = Released(k)] ELSE updated
    BY DEF PassInv, PassTypes, VisitInv, Visit
<1>2. at + 1 \in 1..Size /\ k \in Keys /\ Size \in Nat
    BY <1>1, ListFacts, PassAssumption
<1>3. \A i \in 1..Size : updated[ordered[i]] = IF i <= at THEN adv[ordered[i]]
                                               ELSE given[ordered[i]]
    BY <1>1 DEF PassInv, VisitInv
<1>4. updated[k] = given[k]
  <2>1. ~(at + 1 <= at)
      BY <1>1
  <2> QED BY <1>2, <1>3, <2>1
<1>5. deps[k] \subseteq Keys /\ \A p \in deps[k] : updated[p] = adv[p]
  <2>1. deps[k] \subseteq Keys
      BY <1>1, <1>2 DEF PassTypes
  <2>2. ASSUME NEW p \in deps[k] PROVE updated[p] = adv[p]
    <3>1. PICK j \in 1..((at + 1) - 1) : p = ordered[j]
        BY <1>1, <1>2 DEF PassInv, ListedLater
    <3>2. j \in 1..Size /\ j <= at
        BY <1>1, <1>2
    <3> QED BY <3>1, <3>2, <1>3
  <2> QED BY <2>1, <2>2
<1>6. DOMAIN given = Keys
    BY <1>1 DEF PassTypes
<1> HIDE DEF k, adv
<1>7. adv[k] = IF given[k] # "pending" THEN given[k]
               ELSE IF \E p \in deps[k] : adv[p] \in {"failed", "blocked"} THEN "blocked"
               ELSE IF \A p \in deps[k] : adv[p] = "completed" THEN "queued"
               ELSE given[k]
    BY <1>2, <1>5, <1>6, AdvanceFromParents DEF adv
<1>8. (IF updated[k] = "pending" THEN Released(k) ELSE updated[k]) = adv[k]
    BY <1>4, <1>5, <1>7 DEF Released
<1>9. /\ updated'[k] = adv[k]
      /\ \A t \in Keys : t # k => updated'[t] = updated[t]
  <2>1. updated \in [Keys -> Given]
      BY <1>1 DEF PassTypes
  <2> QED BY <1>1, <1>2, <1>8, <2>1
<1>10. PassTypes'
  <2>1. Released(k) \in Given \/ Released(k) = updated[k]
      BY DEF Released, Given
  <2>2. updated \in [Keys -> Given]
      BY <1>1 DEF PassTypes
  <2>3. updated[k] \in Given
      BY <2>2, <1>2
  <2>4. updated' \in [Keys -> Given]
      BY <1>1, <2>1, <2>2, <2>3
  <2> QED BY <1>1, <2>4 DEF PassTypes
<1>11. VisitInv'
  <2> SUFFICES ASSUME NEW i \in 1..Size
               PROVE  updated'[ordered[i]] = IF i <= at + 1 THEN adv[ordered[i]]
                                             ELSE given[ordered[i]]
      BY <1>1, <1>2 DEF PassInv, VisitInv, adv
  <2>1. CASE i = at + 1
      BY <2>1, <1>9 DEF k
  <2>2. CASE i # at + 1
    <3>1. ordered[i] # k
        BY <2>2, <1>1, <1>2 DEF PassInv, ListedOnce, k
    <3>2. ordered[i] \in Keys
        BY <1>1, ListFacts
    <3>3. updated'[ordered[i]] = updated[ordered[i]]
        BY <3>1, <3>2, <1>9
    <3>4. i <= at + 1 <=> i <= at
        BY <2>2, <1>1, <1>2
    <3> QED BY <3>3, <3>4, <1>3
  <2> QED BY <2>1, <2>2
<1> QED BY <1>1, <1>10, <1>11 DEF PassInv, ListedOnce, ListedLater

LEMMA PassReturnInv == PassInv /\ PassReturn => PassInv'
BY DEF PassInv, PassTypes, ListedOnce, ListedLater, VisitInv, PassReturn

\* Every step keeps the invariant.
LEMMA PassNextInv == PassInv /\ [PassNext]_passVars => PassInv'
<1> SUFFICES ASSUME PassInv, [PassNext]_passVars PROVE PassInv'
    OBVIOUS
<1>1. CASE UNCHANGED passVars
    BY <1>1 DEF PassInv, PassTypes, ListedOnce, ListedLater, VisitInv, passVars
<1>2. CASE PassNext
    BY <1>2, RefuseInv, PrepareInv, BatchInv, CallKeeps, VisitKeeps, PassReturnInv DEF PassNext
<1> QED BY <1>1, <1>2

\* When all tasks have been visited, what the loop holds is Advance.
LEMMA PassInvImplies == PassInv => ReturnsAdvance
<1> SUFFICES ASSUME PassInv PROVE ReturnsAdvance
    OBVIOUS
<1>1. PassTypes
    BY DEF PassInv
<1>2. ParentsFirst
    BY <1>1, ListFacts DEF PassInv, ListedOnce, ListedLater, ParentsFirst, IsInjective
<1>3. ASSUME pc = "done" PROVE updated = Advance(deps, given)
  <2>1. \A i \in 1..Size : updated[ordered[i]] = Advance(deps, given)[ordered[i]]
      BY <1>3, PassAssumption DEF PassInv, VisitInv
  <2>2. \A k \in Keys : updated[k] = Advance(deps, given)[k]
      BY <1>3, <2>1 DEF PassInv, VisitInv
  <2>3. updated \in [Keys -> Given] /\ DOMAIN given = Keys
      BY <1>1 DEF PassTypes
  <2> QED BY <2>2, <2>3 DEF Advance
<1> QED BY <1>2, <1>3 DEF ReturnsAdvance

(* For every plan, of any size, and every state of its tasks: execution_order lists
   each task once and after its parents, so that advance's one pass in that order, with
   its working copy, blocks all that is below a failure, releases exactly the tasks
   whose parents are completed, and moves nothing else. *)
THEOREM ReturnsAdvanceCorrect == PassSpec => []ReturnsAdvance
<1>1. PassInit => PassInv
    BY PassInitInv
<1>2. PassInv /\ [PassNext]_passVars => PassInv'
    BY PassNextInv
<1>3. PassInv => ReturnsAdvance
    BY PassInvImplies
<1> QED BY <1>1, <1>2, <1>3, PTL DEF PassSpec
=============================================================================
