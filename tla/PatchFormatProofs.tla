-------------------------- MODULE PatchFormatProofs --------------------------
(***************************************************************************)
(* Proofs about PatchFormat, for patches and proposals of any length.      *)
(*                                                                         *)
(* AcceptsPatches compares a reader of lines with a description of whole   *)
(* patches, cut into files and hunks.  The invariant (InFile, OfFile,      *)
(* OfBody, OfHunk) says what the reader's few variables mean of the lines  *)
(* read: those before the last header are files, those before the last     *)
(* "@@" are hunks, and the counts are those of the last hunk.  A refused   *)
(* line is one with which the lines read are no patch.                     *)
(***************************************************************************)
EXTENDS PatchFormat, Integers, FunctionTheorems, SequenceTheorems, FiniteSetTheorems,
        WellFoundedInduction, TLAPS

-----------------------------------------------------------------------------
(* Lists of lines *)

\* A set of numbers that is not empty and has a bound has a largest one.
LEMMA LargestExists ==
    ASSUME NEW S \in SUBSET Nat, S # {}, NEW b \in Nat, \A n \in S : n <= b
    PROVE  \E m \in S : \A n \in S : n <= m
<1> DEFINE R == {ss \in Nat \X Nat : ss[1] < ss[2]}
           T == {b - n : n \in S}
<1>1. IsWellFoundedOn(R, Nat)
  <2>1. OpToRel(<, Nat) = R
      BY DEF OpToRel
  <2> QED BY <2>1, NatLessThanWellFounded
<1>2. T \subseteq Nat /\ T # {}
  <2>1. \A n \in S : b - n \in Nat
      OBVIOUS
  <2> QED BY <2>1
<1>3. PICK x \in T : \A y \in T : ~(<<y, x>> \in R)
  <2> HIDE DEF R, T
  <2> QED BY <1>1, <1>2, WFMin
<1>4. PICK m \in S : x = b - m
    BY <1>3
<1>5. ASSUME NEW n \in S PROVE n <= m
  <2>1. b - n \in T /\ b - n \in Nat /\ x \in Nat
      BY <1>2, <1>3
  <2>2. ~(b - n < x)
      BY <2>1, <1>3
  <2> QED BY <2>2, <1>4
<1> QED BY <1>5

\* A line more, at the end of a list, of what follows a position, and of the rest.
LEMMA AppendFacts ==
    ASSUME NEW s \in Seq(Lines), NEW x \in Lines
    PROVE  /\ Append(s, x) \in Seq(Lines) /\ Len(Append(s, x)) = Len(s) + 1 /\ Len(s) \in Nat
           /\ DOMAIN Append(s, x) = 1..(Len(s) + 1) /\ DOMAIN s = 1..Len(s)
           /\ \A i \in 1..Len(s) : Append(s, x)[i] = s[i]
           /\ Append(s, x)[Len(s) + 1] = x
<1>1. Append(s, x) \in Seq(Lines) /\ Len(Append(s, x)) = Len(s) + 1
    BY AppendProperties
<1>2. /\ \A i \in 1..Len(s) : Append(s, x)[i] = s[i]
      /\ Append(s, x)[Len(s) + 1] = x
    BY AppendProperties
<1>3. Len(s) \in Nat /\ DOMAIN s = 1..Len(s)
    BY LenProperties
<1>4. DOMAIN Append(s, x) = 1..Len(Append(s, x))
    BY <1>1, LenProperties
<1> QED BY <1>1, <1>2, <1>3, <1>4

LEMMA SubSeqFacts ==
    ASSUME NEW s \in Seq(Lines), NEW i \in 1..(Len(s) + 1), NEW j \in (i - 1)..Len(s)
    PROVE  /\ SubSeq(s, i, j) \in Seq(Lines) /\ Len(SubSeq(s, i, j)) = j - i + 1
           /\ \A k \in 1..(j - i + 1) : SubSeq(s, i, j)[k] = s[i + k - 1]
<1>1. Len(s) \in Nat
    BY LenProperties
<1>2. SubSeq(s, i, j) \in Seq(Lines)
    BY <1>1, SubSeqProperties
<1>3. Len(SubSeq(s, i, j)) = j - i + 1
    BY <1>1, SubSeqProperties
<1>4. \A k \in 1..(j - i + 1) : SubSeq(s, i, j)[k] = s[i + k - 1]
    BY <1>1, SubSeqProperties
<1> QED BY <1>2, <1>3, <1>4

\* Two lists of the same length are the same if their lines are.
LEMMA SameLines ==
    ASSUME NEW s \in Seq(Lines), NEW t \in Seq(Lines), Len(s) = Len(t),
           \A i \in 1..Len(s) : s[i] = t[i]
    PROVE  s = t
BY LenProperties

LEMMA SubSeqOfAppend ==
    ASSUME NEW s \in Seq(Lines), NEW x \in Lines, NEW i \in 1..(Len(s) + 1)
    PROVE  /\ SubSeq(Append(s, x), i, Len(s) + 1) = Append(SubSeq(s, i, Len(s)), x)
           /\ \A j \in (i - 1)..Len(s) : SubSeq(Append(s, x), i, j) = SubSeq(s, i, j)
<1> DEFINE t == Append(s, x)
           a == SubSeq(s, i, Len(s))
<1>1. /\ t \in Seq(Lines) /\ Len(t) = Len(s) + 1 /\ Len(s) \in Nat
      /\ \A k \in 1..Len(s) : t[k] = s[k]
      /\ t[Len(s) + 1] = x
    BY AppendFacts
<1> HIDE DEF t
<1>2. SubSeq(t, i, Len(s) + 1) = Append(a, x)
  <2>1. /\ SubSeq(t, i, Len(s) + 1) \in Seq(Lines)
        /\ Len(SubSeq(t, i, Len(s) + 1)) = Len(s) - i + 2
        /\ \A k \in 1..(Len(s) - i + 2) : SubSeq(t, i, Len(s) + 1)[k] = t[i + k - 1]
    <3>1. i \in 1..(Len(t) + 1) /\ Len(s) + 1 \in (i - 1)..Len(t)
        BY <1>1
    <3>2. (Len(s) + 1) - i + 1 = Len(s) - i + 2
        BY <1>1
    <3> QED BY <3>1, <3>2, <1>1, SubSeqFacts
  <2>2. /\ a \in Seq(Lines) /\ Len(a) = Len(s) - i + 1
        /\ \A k \in 1..(Len(s) - i + 1) : a[k] = s[i + k - 1]
    <3>1. Len(s) \in (i - 1)..Len(s)
        BY <1>1
    <3> QED BY <3>1, SubSeqFacts
  <2> HIDE DEF a
  <2>3. /\ Append(a, x) \in Seq(Lines) /\ Len(Append(a, x)) = Len(s) - i + 2
        /\ \A k \in 1..Len(a) : Append(a, x)[k] = a[k]
        /\ Append(a, x)[Len(a) + 1] = x
      BY <2>2, <1>1, AppendFacts
  <2>4. ASSUME NEW k \in 1..(Len(s) - i + 2)
        PROVE  SubSeq(t, i, Len(s) + 1)[k] = Append(a, x)[k]
    <3>1. CASE k \in 1..Len(a)
      <4>1. Append(a, x)[k] = s[i + k - 1]
          BY <3>1, <2>2, <2>3
      <4>2. i + k - 1 \in 1..Len(s)
          BY <3>1, <2>2, <1>1
      <4>3. SubSeq(t, i, Len(s) + 1)[k] = t[i + k - 1]
          BY <2>1
      <4> QED BY <4>1, <4>2, <4>3, <1>1
    <3>2. CASE k = Len(a) + 1
      <4>1. i + k - 1 = Len(s) + 1
          BY <3>2, <2>2, <1>1
      <4>2. Append(a, x)[k] = x
          BY <3>2, <2>3
      <4>3. SubSeq(t, i, Len(s) + 1)[k] = t[i + k - 1]
          BY <2>1
      <4>4. t[i + k - 1] = x
          BY <4>1, <1>1
      <4> QED BY <4>2, <4>3, <4>4
    <3>3. k \in 1..Len(a) \/ k = Len(a) + 1
      <4>1. Len(s) \in Int /\ i \in Int /\ k \in Int /\ Len(a) = Len(s) - i + 1
          BY <1>1, <2>2
      <4> QED BY <4>1
    <3> QED BY <3>1, <3>2, <3>3
  <2> QED BY <2>1, <2>3, <2>4, SameLines
<1>3. ASSUME NEW j \in (i - 1)..Len(s) PROVE SubSeq(t, i, j) = SubSeq(s, i, j)
  <2>1. /\ SubSeq(t, i, j) \in Seq(Lines) /\ Len(SubSeq(t, i, j)) = j - i + 1
        /\ \A k \in 1..(j - i + 1) : SubSeq(t, i, j)[k] = t[i + k - 1]
    <3>1. i \in 1..(Len(t) + 1) /\ j \in (i - 1)..Len(t)
        BY <1>1
    <3> QED BY <3>1, <1>1, SubSeqFacts
  <2>2. /\ SubSeq(s, i, j) \in Seq(Lines) /\ Len(SubSeq(s, i, j)) = j - i + 1
        /\ \A k \in 1..(j - i + 1) : SubSeq(s, i, j)[k] = s[i + k - 1]
      BY SubSeqFacts
  <2>3. \A k \in 1..(j - i + 1) : i + k - 1 \in 1..Len(s)
      BY <1>1
  <2> QED BY <2>1, <2>2, <2>3, <1>1, SameLines
<1> QED BY <1>2, <1>3 DEF t

LEMMA TailOfAppend ==
    ASSUME NEW s \in Seq(Lines), s # <<>>, NEW x \in Lines
    PROVE  Tail(Append(s, x)) = Append(Tail(s), x)
BY HeadTailAppend

\* The lines of some kinds, with one more line.
LEMMA CountOfAppend ==
    ASSUME NEW s \in Seq(Lines), NEW x \in Lines, NEW kinds
    PROVE  /\ Count(s, kinds) \in Nat
           /\ Count(Append(s, x), kinds) =
                 IF x.kind \in kinds THEN Count(s, kinds) + 1 ELSE Count(s, kinds)
<1> DEFINE Of(t) == {i \in DOMAIN t : t[i].kind \in kinds}
<1>1. /\ DOMAIN Append(s, x) = 1..(Len(s) + 1) /\ DOMAIN s = 1..Len(s) /\ Len(s) \in Nat
      /\ \A i \in 1..Len(s) : Append(s, x)[i] = s[i]
      /\ Append(s, x)[Len(s) + 1] = x
    BY AppendFacts
<1>2. IsFiniteSet(Of(s)) /\ Cardinality(Of(s)) \in Nat
  <2>1. IsFiniteSet(1..Len(s)) /\ Of(s) \in SUBSET (1..Len(s))
      BY <1>1, FS_Interval
  <2> QED BY <2>1, FS_Subset, FS_CardinalityType
<1>3. CASE x.kind \in kinds
  <2>1. Of(Append(s, x)) = Of(s) \cup {Len(s) + 1} /\ Len(s) + 1 \notin Of(s)
      BY <1>1, <1>3
  <2>2. Cardinality(Of(Append(s, x))) = Cardinality(Of(s)) + 1
    <3> HIDE DEF Of
    <3> QED BY <2>1, <1>2, FS_AddElement
  <2> QED BY <1>2, <1>3, <2>2 DEF Count
<1>4. CASE x.kind \notin kinds
  <2>1. Of(Append(s, x)) = Of(s)
      BY <1>1, <1>4
  <2> QED BY <1>2, <1>4, <2>1 DEF Count
<1> QED BY <1>3, <1>4

-----------------------------------------------------------------------------
(* Where the lines from a line of a kind up to the next one of it are. *)

SegmentEnds(lines, kind) ==
    {e \in (1..Len(lines)) \X (1..Len(lines)) :
        /\ e[1] <= e[2] /\ lines[e[1]].kind = kind
        /\ \A k \in (e[1] + 1)..e[2] : lines[k].kind # kind
        /\ e[2] = Len(lines) \/ lines[e[2] + 1].kind = kind}

\* Each line of the kind has one end.
LEMMA SegmentsByTheirEnds ==
    ASSUME NEW lines \in Seq(Lines), NEW kind
    PROVE  Segments(lines, kind) = {SubSeq(lines, e[1], e[2]) : e \in SegmentEnds(lines, kind)}
<1> DEFINE At == {i \in DOMAIN lines : lines[i].kind = kind}
           IsUntil(i, j) == /\ \A k \in (i + 1)..j : k \notin At
                            /\ j = Len(lines) \/ j + 1 \in At
           Until(i) == CHOOSE j \in i..Len(lines) : IsUntil(i, j)
<1>1. DOMAIN lines = 1..Len(lines) /\ Len(lines) \in Nat
    BY LenProperties
<1>2. Segments(lines, kind) = {SubSeq(lines, i, Until(i)) : i \in At}
    BY DEF Segments
<1>3. ASSUME NEW i \in At, NEW j \in i..Len(lines)
      PROVE  IsUntil(i, j) <=> <<i, j>> \in SegmentEnds(lines, kind)
  <2>1. i \in 1..Len(lines) /\ j \in 1..Len(lines) /\ i <= j /\ lines[i].kind = kind
      BY <1>1
  <2>2. \A k \in (i + 1)..j : k \in 1..Len(lines)
      BY <1>1, <2>1
  <2>3. j # Len(lines) => j + 1 \in 1..Len(lines)
    <3>1. j \in Int /\ Len(lines) \in Int /\ 1 <= j /\ j <= Len(lines)
        BY <1>1, <2>1
    <3> QED BY <3>1
  <2>4. j + 1 \in At => j + 1 \in 1..Len(lines)
      BY <1>1
  <2> QED BY <1>1, <2>1, <2>2, <2>3, <2>4 DEF SegmentEnds
<1>4. ASSUME NEW i \in At PROVE \E j \in i..Len(lines) : IsUntil(i, j)
  <2> DEFINE S == {j \in i..Len(lines) : \A k \in (i + 1)..j : k \notin At}
  <2>1. i \in 1..Len(lines) /\ i \in S /\ S \subseteq Nat /\ \A j \in S : j <= Len(lines)
      BY <1>1
  <2>2. PICK m \in S : \A j \in S : j <= m
    <3> HIDE DEF S
    <3> QED BY <1>1, <2>1, LargestExists
  <2>3. m \in i..Len(lines) /\ m \in Nat
      BY <1>1, <2>1
  <2>4. ASSUME m # Len(lines), m + 1 \notin At PROVE FALSE
    <3>1. m + 1 \in i..Len(lines)
      <4>1. i \in Int /\ m \in Int /\ Len(lines) \in Int /\ i <= m /\ m <= Len(lines)
          BY <1>1, <2>1, <2>3
      <4> QED BY <4>1, <2>4
    <3>2. \A k \in (i + 1)..(m + 1) : k \in (i + 1)..m \/ k = m + 1
        BY <1>1, <2>1, <2>3
    <3>3. m + 1 \in S
        BY <3>1, <3>2, <2>4
    <3> QED BY <3>3, <2>2, <2>3
  <2> QED BY <2>3, <2>4
<1>5. \A i \in At : Until(i) \in i..Len(lines) /\ IsUntil(i, Until(i))
    BY <1>4
<1>6. ASSUME NEW i \in At, NEW j \in i..Len(lines), NEW m \in i..Len(lines),
             IsUntil(i, j), IsUntil(i, m), j < m
      PROVE  FALSE
  <2>1. j \in Nat /\ m \in Nat /\ i \in Nat
      BY <1>1
  <2>2. j + 1 \in (i + 1)..m /\ j # Len(lines)
    <3>1. i <= j /\ m <= Len(lines) /\ Len(lines) \in Int
        BY <1>1, <2>1
    <3> QED BY <3>1, <1>6, <2>1
  <2> QED BY <2>2, <1>6
<1>7. ASSUME NEW i \in At, NEW j \in i..Len(lines), IsUntil(i, j) PROVE j = Until(i)
  <2>1. Until(i) \in i..Len(lines) /\ IsUntil(i, Until(i))
      BY <1>5
  <2>2. ~(j < Until(i)) /\ ~(Until(i) < j)
    <3> HIDE DEF Until, IsUntil
    <3> QED BY <1>6, <1>7, <2>1
  <2>3. j \in Int /\ Until(i) \in Int
    <3> HIDE DEF Until
    <3> QED BY <1>1, <2>1
  <2> HIDE DEF Until
  <2> QED BY <2>2, <2>3
<1> HIDE DEF Until, IsUntil
<1>8. ASSUME NEW i \in At PROVE <<i, Until(i)>> \in SegmentEnds(lines, kind)
    BY <1>3, <1>5
<1>9. ASSUME NEW e \in SegmentEnds(lines, kind)
      PROVE  e[1] \in At /\ e[2] = Until(e[1])
  <2>1. e[1] \in At /\ e[2] \in e[1]..Len(lines) /\ e = <<e[1], e[2]>>
      BY <1>1 DEF SegmentEnds
  <2>2. IsUntil(e[1], e[2])
      BY <2>1, <1>3
  <2> QED BY <2>1, <2>2, <1>7
<1>10. \A y : y \in {SubSeq(lines, i, Until(i)) : i \in At}
              <=> y \in {SubSeq(lines, e[1], e[2]) : e \in SegmentEnds(lines, kind)}
  <2> TAKE y
  <2>1. ASSUME NEW i \in At, y = SubSeq(lines, i, Until(i))
        PROVE  \E e \in SegmentEnds(lines, kind) : y = SubSeq(lines, e[1], e[2])
    <3>1. <<i, Until(i)>> \in SegmentEnds(lines, kind)
        BY <1>8
    <3> QED BY <3>1, <2>1
  <2>2. ASSUME NEW e \in SegmentEnds(lines, kind), y = SubSeq(lines, e[1], e[2])
        PROVE  \E i \in At : y = SubSeq(lines, i, Until(i))
      BY <2>2, <1>9
  <2> HIDE DEF At
  <2> QED BY <2>1, <2>2
<1> QED BY <1>2, <1>10

\* A line more opens a segment, or goes with the last one.
LEMMA SegmentEndsOfAppend ==
    ASSUME NEW s \in Seq(Lines), NEW x \in Lines, NEW kind
    PROVE  {e \in SegmentEnds(Append(s, x), kind) : e[2] # Len(s) + 1} =
              IF x.kind = kind THEN SegmentEnds(s, kind)
              ELSE {e \in SegmentEnds(s, kind) : e[2] # Len(s)}
<1> DEFINE t == Append(s, x)
           n == Len(s)
           Old == {e \in SegmentEnds(t, kind) : e[2] # n + 1}
           New == IF x.kind = kind THEN SegmentEnds(s, kind)
                  ELSE {e \in SegmentEnds(s, kind) : e[2] # n}
<1>1. /\ n \in Nat /\ Len(t) = n + 1 /\ \A i \in 1..n : t[i] = s[i]
      /\ t[n + 1] = x
    BY AppendFacts
<1> HIDE DEF t, n
<1>2. ASSUME NEW a \in 1..n, NEW b \in 1..n, a <= b
      PROVE  /\ t[a] = s[a]
             /\ \A k \in (a + 1)..b : t[k] = s[k]
             /\ b # n => t[b + 1] = s[b + 1]
  <2>1. \A k \in (a + 1)..b : k \in 1..n
      BY <1>1, <1>2
  <2>2. b # n => b + 1 \in 1..n
      BY <1>1
  <2> QED BY <1>1, <2>1, <2>2
<1>3. ASSUME NEW e \in Old PROVE e \in New
  <2>1. /\ e \in (1..(n + 1)) \X (1..(n + 1)) /\ e[1] <= e[2] /\ t[e[1]].kind = kind
        /\ \A k \in (e[1] + 1)..e[2] : t[k].kind # kind
        /\ t[e[2] + 1].kind = kind
      BY <1>1 DEF SegmentEnds
  <2>2. e[1] \in 1..n /\ e[2] \in 1..n /\ e \in (1..n) \X (1..n)
    <3>1. e[1] \in 1..(n + 1) /\ e[2] \in 1..(n + 1) /\ e[2] # n + 1 /\ e = <<e[1], e[2]>>
        BY <2>1
    <3> QED BY <3>1, <2>1, <1>1
  <2>3. /\ s[e[1]].kind = kind
        /\ \A k \in (e[1] + 1)..e[2] : s[k].kind # kind
        /\ e[2] # n => s[e[2] + 1].kind = kind
      BY <2>1, <2>2, <1>2
  <2>4. e \in SegmentEnds(s, kind)
      BY <2>1, <2>2, <2>3 DEF SegmentEnds, n
  <2>5. x.kind # kind => e[2] # n
      BY <2>1, <1>1
  <2> QED BY <2>4, <2>5
<1>4. ASSUME NEW e \in New PROVE e \in Old
  <2>1. /\ e \in SegmentEnds(s, kind) /\ e \in (1..n) \X (1..n) /\ e[1] <= e[2]
        /\ s[e[1]].kind = kind
        /\ \A k \in (e[1] + 1)..e[2] : s[k].kind # kind
        /\ e[2] = n \/ s[e[2] + 1].kind = kind
      BY DEF SegmentEnds, n
  <2>2. /\ e[1] \in 1..n /\ e[2] \in 1..n /\ e \in (1..(n + 1)) \X (1..(n + 1)) /\ e[2] # n + 1
    <3>1. e[1] \in 1..n /\ e[2] \in 1..n /\ e = <<e[1], e[2]>>
        BY <2>1
    <3> QED BY <3>1, <1>1
  <2>3. /\ t[e[1]].kind = kind
        /\ \A k \in (e[1] + 1)..e[2] : t[k].kind # kind
        /\ e[2] # n => t[e[2] + 1].kind = kind
      BY <2>1, <2>2, <1>2
  <2>4. e[2] = n => t[e[2] + 1].kind = kind
      BY <1>1
  <2> QED BY <2>1, <2>2, <2>3, <2>4, <1>1 DEF SegmentEnds
<1> QED BY <1>3, <1>4 DEF t, n

\* A list is cut into the segments that have ended and the last one.
CutInto(s, kind, ended, last) ==
    \E h \in 1..Len(s) :
        /\ s[h].kind = kind
        /\ \A k \in (h + 1)..Len(s) : s[k].kind # kind
        /\ last = SubSeq(s, h, Len(s))
        /\ ended = {SubSeq(s, e[1], e[2]) : e \in {e \in SegmentEnds(s, kind) : e[2] # Len(s)}}

LEMMA CutSegments ==
    ASSUME NEW s \in Seq(Lines), NEW kind, NEW ended, NEW last, CutInto(s, kind, ended, last)
    PROVE  /\ Segments(s, kind) = ended \cup {last}
           /\ last \in Seq(Lines) /\ Len(last) \in Nat \ {0} /\ last[1].kind = kind
           /\ \A k \in 2..Len(last) : last[k].kind # kind
<1>1. Len(s) \in Nat
    BY LenProperties
<1>2. PICK h \in 1..Len(s) :
        /\ s[h].kind = kind
        /\ \A k \in (h + 1)..Len(s) : s[k].kind # kind
        /\ last = SubSeq(s, h, Len(s))
        /\ ended = {SubSeq(s, e[1], e[2]) : e \in {e \in SegmentEnds(s, kind) : e[2] # Len(s)}}
    BY DEF CutInto
<1>3. <<h, Len(s)>> \in SegmentEnds(s, kind)
    BY <1>1, <1>2 DEF SegmentEnds
<1>4. ASSUME NEW e \in SegmentEnds(s, kind), e[2] = Len(s) PROVE e = <<h, Len(s)>>
  <2>1. /\ e[1] \in 1..Len(s) /\ e = <<e[1], e[2]>> /\ s[e[1]].kind = kind
        /\ \A k \in (e[1] + 1)..Len(s) : s[k].kind # kind
      BY <1>4 DEF SegmentEnds
  <2>2. ~(e[1] < h) /\ ~(h < e[1])
      BY <1>1, <1>2, <2>1
  <2> QED BY <1>1, <1>4, <2>1, <2>2
<1>5. Segments(s, kind) = ended \cup {last}
  <2>1. Segments(s, kind) = {SubSeq(s, e[1], e[2]) : e \in SegmentEnds(s, kind)}
      BY SegmentsByTheirEnds
  <2> DEFINE End == {e \in SegmentEnds(s, kind) : e[2] # Len(s)}
  <2>2. SegmentEnds(s, kind) = End \cup {<<h, Len(s)>>}
      BY <1>3, <1>4
  <2>3. last = SubSeq(s, <<h, Len(s)>>[1], <<h, Len(s)>>[2])
      BY <1>2
  <2>4. ended = {SubSeq(s, e[1], e[2]) : e \in End}
      BY <1>2
  <2> HIDE DEF End
  <2> QED BY <2>1, <2>2, <2>3, <2>4
<1>6. /\ last \in Seq(Lines) /\ Len(last) = Len(s) - h + 1
      /\ \A k \in 1..(Len(s) - h + 1) : last[k] = s[h + k - 1]
  <2>1. h \in 1..(Len(s) + 1) /\ Len(s) \in (h - 1)..Len(s)
      BY <1>1
  <2> QED BY <1>2, <2>1, SubSeqFacts
<1>7. last[1].kind = kind /\ \A k \in 2..Len(last) : last[k].kind # kind
  <2>1. 1 \in 1..(Len(s) - h + 1) /\ h + 1 - 1 = h
      BY <1>1
  <2>2. ASSUME NEW k \in 2..Len(last) PROVE last[k].kind # kind
    <3>1. k \in 1..(Len(s) - h + 1) /\ h + k - 1 \in (h + 1)..Len(s)
        BY <1>1, <1>6
    <3> QED BY <3>1, <1>2, <1>6
  <2> QED BY <2>1, <2>2, <1>2, <1>6
<1> QED BY <1>1, <1>5, <1>6, <1>7

LEMMA CutByLineOfKind ==
    ASSUME NEW s \in Seq(Lines), NEW x \in Lines, NEW kind, x.kind = kind
    PROVE  CutInto(Append(s, x), kind, Segments(s, kind), <<x>>)
<1> DEFINE t == Append(s, x)
           n == Len(s)
<1>1. t \in Seq(Lines) /\ n \in Nat /\ Len(t) = n + 1 /\ t[n + 1] = x
    BY AppendFacts
<1>2. SubSeq(t, n + 1, n + 1) = <<x>>
  <2>1. SubSeq(t, n + 1, n + 1) \in Seq(Lines) /\ Len(SubSeq(t, n + 1, n + 1)) = 1
    <3>1. n + 1 \in 1..(Len(t) + 1) /\ n + 1 \in ((n + 1) - 1)..Len(t)
          /\ (n + 1) - (n + 1) + 1 = 1
        BY <1>1
    <3> HIDE DEF t, n
    <3> QED BY <3>1, <1>1, SubSeqFacts
  <2>2. SubSeq(t, n + 1, n + 1)[1] = x
    <3>1. n + 1 \in 1..(Len(t) + 1) /\ n + 1 \in ((n + 1) - 1)..Len(t)
          /\ 1 \in 1..((n + 1) - (n + 1) + 1) /\ (n + 1) + 1 - 1 = n + 1
        BY <1>1
    <3> HIDE DEF t, n
    <3> QED BY <3>1, <1>1, SubSeqFacts
  <2>3. <<x>> \in Seq(Lines) /\ Len(<<x>>) = 1 /\ <<x>>[1] = x
      OBVIOUS
  <2> HIDE DEF t, n
  <2>4. \A i \in 1..1 : i = 1
      OBVIOUS
  <2> QED BY <2>1, <2>2, <2>3, <2>4, SameLines
<1>3. {e \in SegmentEnds(t, kind) : e[2] # n + 1} = SegmentEnds(s, kind)
    BY SegmentEndsOfAppend
<1>4. \A e \in SegmentEnds(s, kind) : SubSeq(t, e[1], e[2]) = SubSeq(s, e[1], e[2])
  <2> SUFFICES ASSUME NEW e \in SegmentEnds(s, kind)
               PROVE  SubSeq(t, e[1], e[2]) = SubSeq(s, e[1], e[2])
      OBVIOUS
  <2>1. e[1] \in 1..(Len(s) + 1) /\ e[2] \in (e[1] - 1)..Len(s)
      BY <1>1 DEF SegmentEnds
  <2> QED BY <2>1, SubSeqOfAppend
<1>5. Segments(s, kind) =
         {SubSeq(t, e[1], e[2]) : e \in {e \in SegmentEnds(t, kind) : e[2] # Len(t)}}
  <2>1. Segments(s, kind) = {SubSeq(s, e[1], e[2]) : e \in SegmentEnds(s, kind)}
      BY SegmentsByTheirEnds
  <2>2. Segments(s, kind) = {SubSeq(t, e[1], e[2]) : e \in SegmentEnds(s, kind)}
      BY <2>1, <1>4
  <2> HIDE DEF t, n
  <2> QED BY <2>2, <1>1, <1>3
<1>6. n + 1 \in 1..Len(t) /\ \A k \in ((n + 1) + 1)..Len(t) : FALSE
    BY <1>1
<1> HIDE DEF t, n
<1> QED BY <1>1, <1>2, <1>5, <1>6 DEF CutInto, t

LEMMA CutByOtherLine ==
    ASSUME NEW s \in Seq(Lines), NEW x \in Lines, NEW kind, x.kind # kind,
           NEW ended, NEW last, CutInto(s, kind, ended, last)
    PROVE  CutInto(Append(s, x), kind, ended, Append(last, x))
<1> DEFINE t == Append(s, x)
           n == Len(s)
<1>1. /\ t \in Seq(Lines) /\ n \in Nat /\ Len(t) = n + 1 /\ t[n + 1] = x
      /\ \A i \in 1..n : t[i] = s[i]
    BY AppendFacts
<1>2. PICK h \in 1..Len(s) :
        /\ s[h].kind = kind
        /\ \A k \in (h + 1)..Len(s) : s[k].kind # kind
        /\ last = SubSeq(s, h, Len(s))
        /\ ended = {SubSeq(s, e[1], e[2]) : e \in {e \in SegmentEnds(s, kind) : e[2] # Len(s)}}
    BY DEF CutInto
<1>3. SubSeq(t, h, n + 1) = Append(last, x)
  <2>1. h \in 1..(Len(s) + 1)
      BY <1>1
  <2> QED BY <2>1, <1>2, SubSeqOfAppend
<1>4. {e \in SegmentEnds(t, kind) : e[2] # n + 1} = {e \in SegmentEnds(s, kind) : e[2] # n}
    BY SegmentEndsOfAppend
<1>5. \A e \in SegmentEnds(s, kind) : SubSeq(t, e[1], e[2]) = SubSeq(s, e[1], e[2])
  <2> SUFFICES ASSUME NEW e \in SegmentEnds(s, kind)
               PROVE  SubSeq(t, e[1], e[2]) = SubSeq(s, e[1], e[2])
      OBVIOUS
  <2>1. e[1] \in 1..(Len(s) + 1) /\ e[2] \in (e[1] - 1)..Len(s)
      BY <1>1 DEF SegmentEnds
  <2> QED BY <2>1, SubSeqOfAppend
<1>6. ended = {SubSeq(t, e[1], e[2]) : e \in {e \in SegmentEnds(t, kind) : e[2] # Len(t)}}
  <2>1. ended = {SubSeq(t, e[1], e[2]) : e \in {e \in SegmentEnds(s, kind) : e[2] # n}}
      BY <1>2, <1>5
  <2> HIDE DEF t, n
  <2> QED BY <2>1, <1>1, <1>4
<1>7. /\ h \in 1..Len(t) /\ t[h].kind = kind
      /\ \A k \in (h + 1)..Len(t) : t[k].kind # kind
  <2>1. \A k \in (h + 1)..Len(t) : k \in (h + 1)..n \/ k = n + 1
      BY <1>1
  <2>2. \A k \in (h + 1)..n : k \in 1..n
      BY <1>1
  <2> QED BY <1>1, <1>2, <2>1, <2>2
<1> HIDE DEF t, n
<1> QED BY <1>1, <1>3, <1>6, <1>7 DEF CutInto, t

-----------------------------------------------------------------------------
(* The hunks of the file that is being read. *)

\* A line of which the kind and the path are all.
Bare(x) == x = Line(x.kind, x.path, 0, 0)

LEMMA LineFacts ==
    ASSUME PatchAssumption, NEW x \in Lines
    PROVE  /\ x.left \in Nat /\ x.right \in Nat
           /\ x.kind = "diff" => x.path \in Paths
           /\ x.kind \in {"---", "+++"} => Bare(x)
           /\ x.kind \in {"diff", "---", "+++", "@@", "new-file", "deleted-file", "index",
                          "context", "+", "-", "no-newline", "other"}
<1> DEFINE Headers == {Line("diff", p, 0, 0) : p \in Paths}
           Others == {Plain(kind) : kind \in {"new-file", "deleted-file", "index", "context",
                                              "+", "-", "no-newline", "other"}}
<1>1. ASSUME x \in Headers
      PROVE  x.kind = "diff" /\ x.path \in Paths /\ x.left \in Nat /\ x.right \in Nat
  <2>1. PICK p \in Paths : x = Line("diff", p, 0, 0)
      BY <1>1
  <2> QED BY <2>1 DEF Line
<1>2. ASSUME x \in FileLines
      PROVE  x.kind \in {"---", "+++"} /\ Bare(x) /\ x.left \in Nat /\ x.right \in Nat
  <2>1. PICK kind \in {"---", "+++"}, p \in Paths \cup {DevNull} : x = Line(kind, p, 0, 0)
      BY <1>2 DEF FileLines
  <2> QED BY <2>1 DEF Line, Bare
<1>3. ASSUME x \in HunkLines
      PROVE  x.kind = "@@" /\ x.left \in Nat /\ x.right \in Nat
  <2>1. PICK o \in 0..MaxCount, n \in 0..MaxCount : x = Line("@@", DevNull, o, n)
      BY <1>3 DEF HunkLines
  <2>2. o \in Nat /\ n \in Nat
      BY PatchAssumption DEF PatchAssumption
  <2> QED BY <2>1, <2>2 DEF Line
<1>4. ASSUME x \in Others
      PROVE  /\ x.kind \in {"new-file", "deleted-file", "index", "context", "+", "-",
                            "no-newline", "other"}
             /\ x.left \in Nat /\ x.right \in Nat
  <2>1. PICK kind \in {"new-file", "deleted-file", "index", "context", "+", "-", "no-newline",
                       "other"} : x = Plain(kind)
      BY <1>4
  <2> QED BY <2>1 DEF Line, Plain
<1>5. Lines = Headers \cup FileLines \cup HunkLines \cup Others
    BY Zenon DEF Lines
<1> HIDE DEF Headers, Others
<1>6. CASE x \in Headers
    BY <1>6, <1>1
<1>7. CASE x \in FileLines
    BY <1>7, <1>2
<1>8. CASE x \in HunkLines
    BY <1>8, <1>3
<1>9. CASE x \in Others
    BY <1>9, <1>4
<1> QED BY <1>5, <1>6, <1>7, <1>8, <1>9

Sections ==
    [path : Paths \cup {DevNull}, new : BOOLEAN, deleted : BOOLEAN, hunks : Nat,
     old : Nat, added : Nat, left : Nat, right : Nat, body : BOOLEAN]

OfOld == {"context", "-", "---"}
OfNew == {"context", "+", "+++"}

\* The lines under the header of a hunk are lines of a body.
BodyLine(h, i) ==
    \/ h[i].kind \in {"context", "+", "-", "+++", "---"}
    \/ h[i].kind = "no-newline" /\ i > 2 /\ h[i - 1].kind # "no-newline"

\* What the section says of the hunk that is being read.
OfHunk(h, sec) ==
    /\ h[1].left = sec.left /\ h[1].right = sec.right
    /\ Count(Tail(h), OfOld) = sec.old /\ Count(Tail(h), OfNew) = sec.added
    /\ \A i \in 2..Len(h) : BodyLine(h, i)
    /\ sec.body <=> Len(h) > 1 /\ h[Len(h)].kind # "no-newline"

Counted(sec) == sec.old = sec.left /\ sec.added = sec.right

LEMMA HunkDone ==
    ASSUME NEW h, NEW sec, OfHunk(h, sec)
    PROVE  IsHunk(h) <=> Counted(sec)
BY DEF OfHunk, IsHunk, Counted, BodyLine, OfOld, OfNew

LEMMA HunkStarts ==
    ASSUME NEW x \in Lines, NEW sec \in Sections, sec.left = x.left, sec.right = x.right,
           sec.old = 0, sec.added = 0, ~sec.body
    PROVE  OfHunk(<<x>>, sec)
<1>1. Tail(<<x>>) = <<>> /\ Len(<<x>>) = 1 /\ <<x>>[1] = x
    OBVIOUS
<1>2. ASSUME NEW kinds PROVE Count(<<>>, kinds) = 0
  <2>1. {i \in DOMAIN <<>> : <<>>[i].kind \in kinds} = {}
      OBVIOUS
  <2> QED BY <2>1, FS_EmptySet DEF Count
<1>3. 2..1 = {}
    OBVIOUS
<1> QED BY <1>1, <1>2, <1>3 DEF OfHunk

\* A line more in a hunk.
LEMMA HunkGrows ==
    ASSUME NEW h \in Seq(Lines), Len(h) \in Nat \ {0}, NEW sec \in Sections, OfHunk(h, sec),
           NEW x \in Lines
    PROVE  /\ Removes(x.kind) \/ Adds(x.kind) =>
                OfHunk(Append(h, x),
                       [sec EXCEPT !.old = IF Removes(x.kind) THEN sec.old + 1 ELSE sec.old,
                                   !.added = IF Adds(x.kind) THEN sec.added + 1 ELSE sec.added,
                                   !.body = TRUE])
           /\ x.kind = "no-newline" /\ sec.body =>
                OfHunk(Append(h, x), [sec EXCEPT !.body = FALSE])
           /\ ~(Removes(x.kind) \/ Adds(x.kind)) /\ ~(x.kind = "no-newline" /\ sec.body) =>
                ~IsHunk(Append(h, x))
<1> DEFINE g == Append(h, x)
           n == Len(h)
<1>1. /\ g \in Seq(Lines) /\ n \in Nat /\ n # 0 /\ Len(g) = n + 1 /\ g[n + 1] = x
      /\ \A i \in 1..n : g[i] = h[i]
    BY AppendFacts
<1>2. Tail(g) = Append(Tail(h), x) /\ Tail(h) \in Seq(Lines)
    BY TailOfAppend, HeadTailProperties
<1>3. ASSUME NEW kinds
      PROVE  /\ Count(Tail(h), kinds) \in Nat
             /\ Count(Tail(g), kinds) =
                   IF x.kind \in kinds THEN Count(Tail(h), kinds) + 1 ELSE Count(Tail(h), kinds)
  <2>1. /\ Count(Tail(h), kinds) \in Nat
        /\ Count(Append(Tail(h), x), kinds) =
              IF x.kind \in kinds THEN Count(Tail(h), kinds) + 1 ELSE Count(Tail(h), kinds)
    <3> DEFINE rest == Tail(h)
    <3>1. rest \in Seq(Lines)
        BY <1>2
    <3> HIDE DEF rest
    <3>2. /\ Count(rest, kinds) \in Nat
          /\ Count(Append(rest, x), kinds) =
                IF x.kind \in kinds THEN Count(rest, kinds) + 1 ELSE Count(rest, kinds)
        BY <3>1, CountOfAppend
    <3> QED BY <3>2 DEF rest
  <2>2. Count(Tail(g), kinds) = Count(Append(Tail(h), x), kinds)
      BY <1>2
  <2> QED BY <2>1, <2>2
<1> HIDE DEF g, n
<1>4. g[1] = h[1]
    BY <1>1
<1>5. \A i \in 2..n : BodyLine(g, i)
  <2> SUFFICES ASSUME NEW i \in 2..n PROVE BodyLine(g, i)
      OBVIOUS
  <2>1. g[i] = h[i] /\ (i > 2 => g[i - 1] = h[i - 1])
      BY <1>1
  <2>2. BodyLine(h, i)
      BY DEF OfHunk, n
  <2> QED BY <2>1, <2>2 DEF BodyLine
<1>6. 2..(n + 1) = 2..n \cup {n + 1} /\ n + 1 > 1
    BY <1>1
<1>7. BodyLine(g, n + 1) <=>
          (Removes(x.kind) \/ Adds(x.kind)) \/ (x.kind = "no-newline" /\ sec.body)
  <2>1. x.kind \in {"context", "+", "-", "+++", "---"} <=> Removes(x.kind) \/ Adds(x.kind)
      BY DEF Removes, Adds
  <2>2. (n + 1 > 2 /\ g[(n + 1) - 1].kind # "no-newline") <=> sec.body
    <3>1. (n + 1) - 1 = n /\ (n + 1 > 2 <=> n > 1) /\ g[n] = h[n]
        BY <1>1
    <3> QED BY <3>1 DEF OfHunk, n
  <2> QED BY <2>1, <2>2, <1>1 DEF BodyLine
<1>8. ASSUME Removes(x.kind) \/ Adds(x.kind)
      PROVE  OfHunk(g, [sec EXCEPT !.old = IF Removes(x.kind) THEN sec.old + 1 ELSE sec.old,
                                   !.added = IF Adds(x.kind) THEN sec.added + 1 ELSE sec.added,
                                   !.body = TRUE])
  <2> DEFINE next == [sec EXCEPT !.old = IF Removes(x.kind) THEN sec.old + 1 ELSE sec.old,
                                 !.added = IF Adds(x.kind) THEN sec.added + 1 ELSE sec.added,
                                 !.body = TRUE]
  <2>1. /\ next.left = sec.left /\ next.right = sec.right /\ next.body
        /\ next.old = IF Removes(x.kind) THEN sec.old + 1 ELSE sec.old
        /\ next.added = IF Adds(x.kind) THEN sec.added + 1 ELSE sec.added
      BY DEF Sections
  <2>2. Count(Tail(h), OfOld) = sec.old /\ Count(Tail(h), OfNew) = sec.added
      BY DEF OfHunk
  <2>3. /\ Count(Tail(g), OfOld) = next.old
        /\ Count(Tail(g), OfNew) = next.added
    <3>1. (x.kind \in OfOld <=> Removes(x.kind)) /\ (x.kind \in OfNew <=> Adds(x.kind))
        BY DEF OfOld, OfNew, Removes, Adds
    <3> HIDE DEF next
    <3> QED BY <3>1, <2>1, <2>2, <1>3
  <2>4. h[1].left = sec.left /\ h[1].right = sec.right
      BY DEF OfHunk
  <2>5. \A i \in 2..Len(g) : BodyLine(g, i)
      BY <1>1, <1>5, <1>6, <1>7, <1>8
  <2>6. Len(g) > 1 /\ g[Len(g)].kind # "no-newline"
      BY <1>1, <1>6, <1>8 DEF Removes, Adds
  <2> HIDE DEF next
  <2>7. OfHunk(g, next)
      BY <2>1, <2>3, <2>4, <2>5, <2>6, <1>4 DEF OfHunk
  <2> QED BY <2>7 DEF next
<1>9. ASSUME x.kind = "no-newline", sec.body
      PROVE  OfHunk(g, [sec EXCEPT !.body = FALSE])
  <2> DEFINE next == [sec EXCEPT !.body = FALSE]
  <2>1. /\ next.left = sec.left /\ next.right = sec.right /\ ~next.body
        /\ next.old = sec.old /\ next.added = sec.added
      BY DEF Sections
  <2>2. Count(Tail(h), OfOld) = sec.old /\ Count(Tail(h), OfNew) = sec.added
      BY DEF OfHunk
  <2>3. Count(Tail(g), OfOld) = sec.old /\ Count(Tail(g), OfNew) = sec.added
      BY <2>2, <1>3, <1>9 DEF OfOld, OfNew
  <2>4. h[1].left = sec.left /\ h[1].right = sec.right
      BY DEF OfHunk
  <2>5. \A i \in 2..Len(g) : BodyLine(g, i)
      BY <1>1, <1>5, <1>6, <1>7, <1>9
  <2>6. g[Len(g)].kind = "no-newline"
      BY <1>1, <1>9
  <2> HIDE DEF next
  <2>7. OfHunk(g, next)
      BY <2>1, <2>3, <2>4, <2>5, <2>6, <1>4 DEF OfHunk
  <2> QED BY <2>7 DEF next
<1>10. ASSUME ~(Removes(x.kind) \/ Adds(x.kind)), ~(x.kind = "no-newline" /\ sec.body)
       PROVE  ~IsHunk(g)
  <2>1. n + 1 \in 2..Len(g) /\ ~BodyLine(g, n + 1)
      BY <1>1, <1>6, <1>7, <1>10
  <2> QED BY <2>1 DEF IsHunk, BodyLine
<1> QED BY <1>8, <1>9, <1>10 DEF g

-----------------------------------------------------------------------------
(* The hunks of the file that is being read, one after another. *)

Fresh(sec) ==
    sec.hunks = 0 /\ sec.old = 0 /\ sec.added = 0 /\ sec.left = 0 /\ sec.right = 0 /\ ~sec.body

OfHunks(t, sec) ==
    \E ended, h :
        CutInto(t, "@@", ended, h) /\ (\A b \in ended : IsHunk(b)) /\ OfHunk(h, sec)

OfBody(t, sec) ==
    \/ t = <<>> /\ Fresh(sec)
    \/ t # <<>> /\ t[1].kind = "@@" /\ sec.hunks # 0 /\ OfHunks(t, sec)

AllHunks(t) == t # <<>> /\ t[1].kind = "@@" /\ \A h \in Segments(t, "@@") : IsHunk(h)

LEMMA BodyDone ==
    ASSUME NEW t \in Seq(Lines), NEW sec \in Sections, OfBody(t, sec)
    PROVE  AllHunks(t) <=> sec.hunks > 0 /\ Counted(sec)
<1>0. sec.hunks \in Nat
    BY DEF Sections
<1>1. CASE t = <<>> /\ Fresh(sec)
    BY <1>0, <1>1 DEF AllHunks, Fresh
<1>2. CASE t # <<>> /\ t[1].kind = "@@" /\ sec.hunks # 0 /\ OfHunks(t, sec)
  <2>1. PICK ended, h :
            CutInto(t, "@@", ended, h) /\ (\A b \in ended : IsHunk(b)) /\ OfHunk(h, sec)
      BY <1>2 DEF OfHunks
  <2>2. Segments(t, "@@") = ended \cup {h}
      BY <2>1, CutSegments
  <2>3. IsHunk(h) <=> Counted(sec)
      BY <2>1, HunkDone
  <2> QED BY <1>0, <1>2, <2>1, <2>2, <2>3 DEF AllHunks
<1> QED BY <1>1, <1>2 DEF OfBody

\* What a line between the hunks, or in one, makes of them.
LEMMA HeaderInBody ==
    ASSUME PatchAssumption, NEW t \in Seq(Lines), NEW sec \in Sections, OfBody(t, sec),
           NEW x \in Lines, x.kind = "@@"
    PROVE  IF Counted(sec)
           THEN OfBody(Append(t, x),
                       [sec EXCEPT !.hunks = sec.hunks + 1, !.old = 0, !.added = 0,
                                   !.body = FALSE, !.left = x.left, !.right = x.right])
           ELSE ~AllHunks(Append(t, x))
<1> DEFINE g == Append(t, x)
           next == [sec EXCEPT !.hunks = sec.hunks + 1, !.old = 0, !.added = 0,
                               !.body = FALSE, !.left = x.left, !.right = x.right]
<1>1. /\ g \in Seq(Lines) /\ g # <<>> /\ Len(t) \in Nat /\ Len(g) = Len(t) + 1
      /\ (t # <<>> => g[1] = t[1]) /\ (t = <<>> => g[1] = x)
  <2>1. /\ g \in Seq(Lines) /\ Len(t) \in Nat /\ Len(g) = Len(t) + 1 /\ g[Len(t) + 1] = x
        /\ \A i \in 1..Len(t) : g[i] = t[i]
      BY AppendFacts
  <2>2. (t = <<>> <=> Len(t) = 0) /\ (g = <<>> <=> Len(g) = 0)
      BY <2>1, EmptySeq
  <2> QED BY <2>1, <2>2
<1>2. CutInto(g, "@@", Segments(t, "@@"), <<x>>)
    BY CutByLineOfKind
<1>3. x.left \in Nat /\ x.right \in Nat
    BY LineFacts
<1>4. /\ next \in Sections /\ next.left = x.left /\ next.right = x.right
      /\ next.old = 0 /\ next.added = 0 /\ ~next.body /\ next.hunks = sec.hunks + 1
      /\ sec.hunks \in Nat
  <2>1. sec.hunks \in Nat
      BY DEF Sections
  <2>2. sec.hunks + 1 \in Nat /\ 0 \in Nat /\ FALSE \in BOOLEAN
      BY <2>1
  <2>3. next \in Sections
      BY <2>2, <1>3, Zenon DEF Sections
  <2>4. /\ next.left = x.left /\ next.right = x.right
        /\ next.old = 0 /\ next.added = 0 /\ ~next.body /\ next.hunks = sec.hunks + 1
      BY DEF Sections
  <2> QED BY <2>1, <2>3, <2>4
<1> HIDE DEF g, next
<1>5. OfHunk(<<x>>, next)
    BY <1>4, HunkStarts
<1>6. Segments(<<>>, "@@") = {}
    BY DEF Segments
<1>7. (t # <<>> => t[1].kind = "@@") /\ (t = <<>> => Counted(sec))
    BY DEF OfBody, Fresh, Counted
<1>8. CASE Counted(sec)
  <2>1. \A b \in Segments(t, "@@") : IsHunk(b)
    <3>1. CASE t = <<>>
        BY <3>1, <1>6
    <3>2. CASE t # <<>>
      <4>1. sec.hunks > 0
          BY <3>2, <1>4 DEF OfBody
      <4> QED BY <4>1, <1>8, BodyDone DEF AllHunks
    <3> QED BY <3>1, <3>2
  <2>2. OfHunks(g, next)
      BY <2>1, <1>2, <1>5 DEF OfHunks
  <2>3. g[1].kind = "@@" /\ next.hunks # 0
      BY <1>1, <1>7, <1>4
  <2>4. OfBody(g, next)
      BY <2>2, <2>3, <1>1 DEF OfBody
  <2> QED BY <2>4, <1>8 DEF g, next
<1>9. CASE ~Counted(sec)
  <2>1. t # <<>> /\ ~AllHunks(t) /\ t[1].kind = "@@"
      BY <1>7, <1>9, BodyDone
  <2>2. \E b \in Segments(t, "@@") : ~IsHunk(b)
      BY <2>1 DEF AllHunks
  <2>3. Segments(g, "@@") = Segments(t, "@@") \cup {<<x>>}
      BY <1>1, <1>2, CutSegments
  <2>4. ~AllHunks(g)
      BY <2>2, <2>3 DEF AllHunks
  <2> QED BY <2>4, <1>9 DEF g
<1> QED BY <1>8, <1>9

LEMMA LineInBody ==
    ASSUME NEW t \in Seq(Lines), NEW sec \in Sections, OfBody(t, sec),
           NEW x \in Lines, x.kind # "@@"
    PROVE  /\ t # <<>> /\ (Removes(x.kind) \/ Adds(x.kind)) =>
                OfBody(Append(t, x),
                       [sec EXCEPT !.old = IF Removes(x.kind) THEN sec.old + 1 ELSE sec.old,
                                   !.added = IF Adds(x.kind) THEN sec.added + 1 ELSE sec.added,
                                   !.body = TRUE])
           /\ x.kind = "no-newline" /\ sec.body =>
                OfBody(Append(t, x), [sec EXCEPT !.body = FALSE])
           /\ ~(t # <<>> /\ (Removes(x.kind) \/ Adds(x.kind)))
              /\ ~(x.kind = "no-newline" /\ sec.body) =>
                ~AllHunks(Append(t, x))
<1> DEFINE g == Append(t, x)
           longer == [sec EXCEPT !.old = IF Removes(x.kind) THEN sec.old + 1 ELSE sec.old,
                                 !.added = IF Adds(x.kind) THEN sec.added + 1 ELSE sec.added,
                                 !.body = TRUE]
           closed == [sec EXCEPT !.body = FALSE]
<1>1. /\ g \in Seq(Lines) /\ g # <<>>
      /\ (t # <<>> => g[1] = t[1]) /\ (t = <<>> => g[1] = x)
  <2>1. /\ g \in Seq(Lines) /\ Len(t) \in Nat /\ Len(g) = Len(t) + 1 /\ g[Len(t) + 1] = x
        /\ \A i \in 1..Len(t) : g[i] = t[i]
      BY AppendFacts
  <2>2. (t = <<>> <=> Len(t) = 0) /\ (g = <<>> <=> Len(g) = 0)
      BY <2>1, EmptySeq
  <2> QED BY <2>1, <2>2
<1>2. longer.hunks = sec.hunks /\ closed.hunks = sec.hunks
    BY DEF Sections
<1> HIDE DEF g
<1>3. CASE t = <<>>
  <2>1. ~sec.body /\ ~AllHunks(g)
      BY <1>1, <1>3 DEF OfBody, Fresh, AllHunks
  <2> QED BY <2>1, <1>3 DEF g
<1>4. CASE t # <<>>
  <2>1. t[1].kind = "@@" /\ sec.hunks # 0 /\ OfHunks(t, sec)
      BY <1>4 DEF OfBody
  <2>2. PICK ended, h :
            CutInto(t, "@@", ended, h) /\ (\A b \in ended : IsHunk(b)) /\ OfHunk(h, sec)
      BY <2>1 DEF OfHunks
  <2>3. CutInto(g, "@@", ended, Append(h, x))
      BY <2>2, CutByOtherLine DEF g
  <2>4. h \in Seq(Lines) /\ Len(h) \in Nat \ {0}
      BY <2>2, CutSegments
  <2>5. /\ Removes(x.kind) \/ Adds(x.kind) => OfHunk(Append(h, x), longer)
        /\ x.kind = "no-newline" /\ sec.body => OfHunk(Append(h, x), closed)
        /\ ~(Removes(x.kind) \/ Adds(x.kind)) /\ ~(x.kind = "no-newline" /\ sec.body) =>
             ~IsHunk(Append(h, x))
      BY <2>2, <2>4, HunkGrows
  <2> HIDE DEF longer, closed
  <2>6. g[1].kind = "@@"
      BY <1>1, <1>4, <2>1
  <2>7. ASSUME NEW next, next.hunks = sec.hunks, OfHunk(Append(h, x), next)
        PROVE  OfBody(g, next)
    <3>1. OfHunks(g, next)
        BY <2>2, <2>3, <2>7 DEF OfHunks
    <3> QED BY <3>1, <2>1, <2>6, <2>7, <1>1 DEF OfBody
  <2>8. Segments(g, "@@") = ended \cup {Append(h, x)}
    <3> DEFINE last == Append(h, x)
    <3>1. CutInto(g, "@@", ended, last)
        BY <2>3
    <3> HIDE DEF last
    <3>2. Segments(g, "@@") = ended \cup {last}
        BY <1>1, <3>1, CutSegments
    <3> QED BY <3>2 DEF last
  <2>9. ~IsHunk(Append(h, x)) => ~AllHunks(g)
      BY <2>8 DEF AllHunks
  <2>10. Removes(x.kind) \/ Adds(x.kind) => OfBody(g, longer)
      BY <2>5, <2>7, <1>2
  <2>11. x.kind = "no-newline" /\ sec.body => OfBody(g, closed)
      BY <2>5, <2>7, <1>2
  <2> QED BY <2>5, <2>9, <2>10, <2>11, <1>4 DEF g, longer, closed
<1> QED BY <1>3, <1>4

-----------------------------------------------------------------------------
(* The lines before the hunks: those of a mode and of an index may be there. *)

Creates(s, mode) == mode = 1 /\ s[2].kind = "new-file"
Deletes(s, mode) == mode = 1 /\ s[2].kind = "deleted-file"

OldLine(s, mode) == Line("---", IF Creates(s, mode) THEN DevNull ELSE s[1].path, 0, 0)
NewLine(s, mode) == Line("+++", IF Deletes(s, mode) THEN DevNull ELSE s[1].path, 0, 0)

Opening(s, mode, index, sec) ==
    /\ s[1].path = sec.path /\ sec.path \notin Unsafe
    /\ Len(s) >= 1 + mode + index
    /\ mode = 1 => s[2].kind \in {"new-file", "deleted-file"}
    /\ (sec.new <=> Creates(s, mode)) /\ (sec.deleted <=> Deletes(s, mode))
    /\ index = 1 => s[2 + mode].kind = "index"

Named(s, mode, index) ==
    /\ Len(s) >= 3 + mode + index
    /\ s[2 + mode + index] = OldLine(s, mode) /\ s[3 + mode + index] = NewLine(s, mode)

LEMMA HeadOfAppend ==
    ASSUME NEW s \in Seq(Lines), NEW x \in Lines, NEW mode \in 0..1, NEW index \in 0..1,
           NEW sec, Opening(s, mode, index, sec)
    PROVE  /\ Opening(Append(s, x), mode, index, sec)
           /\ OldLine(Append(s, x), mode) = OldLine(s, mode)
           /\ NewLine(Append(s, x), mode) = NewLine(s, mode)
<1> DEFINE g == Append(s, x)
<1>1. /\ Len(s) \in Nat /\ Len(g) = Len(s) + 1 /\ \A i \in 1..Len(s) : g[i] = s[i]
    BY AppendFacts
<1> HIDE DEF g
<1>2. /\ g[1] = s[1]
      /\ mode = 1 => g[2] = s[2]
      /\ index = 1 => g[2 + mode] = s[2 + mode]
  <2>0. mode \in Int /\ index \in Int /\ 0 <= mode /\ 0 <= index
      OBVIOUS
  <2>1. Len(s) >= 1 + mode + index
      BY DEF Opening
  <2>2. 1 <= Len(s) /\ (mode = 1 => 2 <= Len(s))
        /\ (index = 1 => 2 + mode <= Len(s) /\ 1 <= 2 + mode /\ 2 + mode \in Int)
      BY <2>0, <2>1, <1>1
  <2>3. /\ 1 \in 1..Len(s)
        /\ mode = 1 => 2 \in 1..Len(s)
        /\ index = 1 => 2 + mode \in 1..Len(s)
      BY <2>2, <1>1
  <2> QED BY <2>3, <1>1
<1>3. (Creates(g, mode) <=> Creates(s, mode)) /\ (Deletes(g, mode) <=> Deletes(s, mode))
    BY <1>2 DEF Creates, Deletes
<1>4. Opening(g, mode, index, sec)
  <2>1. Len(s) >= 1 + mode + index
      BY DEF Opening
  <2>2. Len(g) >= 1 + mode + index
    <3>1. mode \in Int /\ index \in Int
        OBVIOUS
    <3> QED BY <3>1, <2>1, <1>1
  <2>3. /\ s[1].path = sec.path /\ sec.path \notin Unsafe
        /\ mode = 1 => s[2].kind \in {"new-file", "deleted-file"}
        /\ (sec.new <=> Creates(s, mode)) /\ (sec.deleted <=> Deletes(s, mode))
        /\ index = 1 => s[2 + mode].kind = "index"
      BY DEF Opening
  <2>4. /\ g[1].path = sec.path
        /\ mode = 1 => g[2].kind \in {"new-file", "deleted-file"}
        /\ (sec.new <=> Creates(g, mode)) /\ (sec.deleted <=> Deletes(g, mode))
        /\ index = 1 => g[2 + mode].kind = "index"
      BY <2>3, <1>2, <1>3
  <2> QED BY <2>2, <2>3, <2>4 DEF Opening
<1>5. OldLine(g, mode) = OldLine(s, mode) /\ NewLine(g, mode) = NewLine(s, mode)
    BY <1>2, <1>3 DEF OldLine, NewLine
<1> QED BY <1>4, <1>5 DEF g

\* What IsFile asks, with its local definitions spelt out.
LEMMA FileParts ==
    ASSUME NEW s
    PROVE  IsFile(s) <=>
             \E mode, index \in 0..1 :
                /\ Len(s) > 3 + mode + index
                /\ s[1].path \notin Unsafe
                /\ mode = 1 => s[2].kind \in {"new-file", "deleted-file"}
                /\ index = 1 => s[1 + mode + index].kind = "index"
                /\ s[2 + mode + index] = OldLine(s, mode)
                /\ s[3 + mode + index] = NewLine(s, mode)
                /\ s[4 + mode + index].kind = "@@"
                /\ \A h \in Segments(SubSeq(s, 4 + mode + index, Len(s)), "@@") : IsHunk(h)
<1> DEFINE Asked(mode, index) ==
              LET from == 2 + mode + index
                  new == mode = 1 /\ s[2].kind = "new-file"
                  deleted == mode = 1 /\ s[2].kind = "deleted-file"
              IN  /\ Len(s) > from + 1
                  /\ s[1].path \notin Unsafe
                  /\ mode = 1 => new \/ deleted
                  /\ index = 1 => s[from - 1].kind = "index"
                  /\ s[from] = Line("---", IF new THEN DevNull ELSE s[1].path, 0, 0)
                  /\ s[from + 1] = Line("+++", IF deleted THEN DevNull ELSE s[1].path, 0, 0)
                  /\ s[from + 2].kind = "@@"
                  /\ \A h \in Segments(SubSeq(s, from + 2, Len(s)), "@@") : IsHunk(h)
           Parts(mode, index) ==
                /\ Len(s) > 3 + mode + index
                /\ s[1].path \notin Unsafe
                /\ mode = 1 => s[2].kind \in {"new-file", "deleted-file"}
                /\ index = 1 => s[1 + mode + index].kind = "index"
                /\ s[2 + mode + index] = OldLine(s, mode)
                /\ s[3 + mode + index] = NewLine(s, mode)
                /\ s[4 + mode + index].kind = "@@"
                /\ \A h \in Segments(SubSeq(s, 4 + mode + index, Len(s)), "@@") : IsHunk(h)
<1>1. IsFile(s) <=> \E mode, index \in 0..1 : Asked(mode, index)
    BY DEF IsFile
<1>2. ASSUME NEW mode \in 0..1, NEW index \in 0..1 PROVE Asked(mode, index) <=> Parts(mode, index)
  <2>1. /\ (2 + mode + index) + 1 = 3 + mode + index
        /\ (2 + mode + index) - 1 = 1 + mode + index
        /\ (2 + mode + index) + 2 = 4 + mode + index
      OBVIOUS
  <2>2. /\ OldLine(s, mode) =
              Line("---", IF mode = 1 /\ s[2].kind = "new-file" THEN DevNull ELSE s[1].path, 0, 0)
        /\ NewLine(s, mode) =
              Line("+++", IF mode = 1 /\ s[2].kind = "deleted-file" THEN DevNull
                          ELSE s[1].path, 0, 0)
      BY DEF OldLine, NewLine, Creates, Deletes
  <2>3. (mode = 1 => s[2].kind \in {"new-file", "deleted-file"}) <=>
           (mode = 1 => \/ mode = 1 /\ s[2].kind = "new-file"
                        \/ mode = 1 /\ s[2].kind = "deleted-file")
      OBVIOUS
  <2> QED BY <2>1, <2>2, <2>3
<1> HIDE DEF Asked, Parts
<1>3. IsFile(s) <=> \E mode, index \in 0..1 : Parts(mode, index)
    BY <1>1, <1>2
<1> QED BY <1>3 DEF Parts

LEMMA NameKinds ==
    ASSUME NEW s, NEW mode
    PROVE  OldLine(s, mode).kind = "---" /\ NewLine(s, mode).kind = "+++"
BY DEF OldLine, NewLine, Line

\* The lines of a file are not there yet.
LEMMA HeadIsNoFile ==
    ASSUME NEW s \in Seq(Lines), NEW mode \in 0..1, NEW index \in 0..1, NEW sec,
           Opening(s, mode, index, sec), Len(s) <= 3 + mode + index
    PROVE  ~IsFile(s)
<1>0. Len(s) \in Nat
    BY LenProperties
<1>1. SUFFICES ASSUME NEW m \in 0..1, NEW i \in 0..1, Len(s) > 3 + m + i,
                      m = 1 => s[2].kind \in {"new-file", "deleted-file"},
                      i = 1 => s[1 + m + i].kind = "index",
                      s[2 + m + i] = OldLine(s, m)
               PROVE  FALSE
    BY FileParts
<1>2. s[2 + m + i].kind = "---"
    BY <1>1, NameKinds
<1>3. m + i < mode + index
  <2>1. m \in Int /\ i \in Int /\ mode \in Int /\ index \in Int /\ Len(s) \in Int
      BY <1>0
  <2>2. Len(s) > 3 + m + i
      BY <1>1
  <2> QED BY <2>1, <2>2
<1>4. (m = 0 \/ m = 1) /\ (i = 0 \/ i = 1) /\ (mode = 0 \/ mode = 1) /\ (index = 0 \/ index = 1)
    OBVIOUS
<1>5. CASE m = 0 /\ mode = 1
  <2>1. s[2].kind \in {"new-file", "deleted-file"}
      BY <1>5 DEF Opening
  <2>2. CASE i = 1
    <3>1. 1 + m + i = 2
        BY <2>2, <1>5
    <3> QED BY <3>1, <2>1, <2>2, <1>1
  <2>3. CASE i = 0
    <3>1. 2 + m + i = 2
        BY <2>3, <1>5
    <3> QED BY <3>1, <2>1, <1>2
  <2> QED BY <2>2, <2>3, <1>4
<1>6. CASE m = mode
  <2>1. i = 0 /\ index = 1
      BY <1>3, <1>4, <1>6
  <2>2. s[2 + mode].kind = "index"
      BY <2>1 DEF Opening
  <2>3. 2 + m + i = 2 + mode
      BY <2>1, <1>6
  <2> QED BY <2>2, <2>3, <1>2
<1>7. CASE m = 1 /\ mode = 0
    BY <1>3, <1>4, <1>7
<1> QED BY <1>4, <1>5, <1>6, <1>7

LEMMA NamedFile ==
    ASSUME NEW s \in Seq(Lines), NEW mode \in 0..1, NEW index \in 0..1, NEW sec,
           Opening(s, mode, index, sec), Named(s, mode, index)
    PROVE  IsFile(s) <=> AllHunks(SubSeq(s, 4 + mode + index, Len(s)))
<1> DEFINE from == 4 + mode + index
           t == SubSeq(s, from, Len(s))
<1>0. Len(s) \in Nat /\ from \in 4..6 /\ Len(s) >= from - 1
    BY LenProperties DEF Named
<1>1. /\ t \in Seq(Lines) /\ Len(t) = Len(s) - from + 1
      /\ t # <<>> <=> Len(s) > 3 + mode + index
      /\ t # <<>> => t[1] = s[from]
  <2> HIDE DEF from
  <2>1. from \in 1..(Len(s) + 1) /\ Len(s) \in (from - 1)..Len(s)
      BY <1>0
  <2>2. /\ t \in Seq(Lines) /\ Len(t) = Len(s) - from + 1
        /\ \A k \in 1..(Len(s) - from + 1) : t[k] = s[from + k - 1]
      BY <2>1, SubSeqFacts
  <2>3. t = <<>> <=> Len(t) = 0
    <3> HIDE DEF t
    <3> QED BY <2>2, EmptySeq
  <2>4. from = 4 + mode + index
      BY DEF from
  <2> HIDE DEF t
  <2>5. t # <<>> <=> Len(s) > 3 + mode + index
      BY <2>2, <2>3, <2>4, <1>0
  <2>6. ASSUME t # <<>> PROVE t[1] = s[from]
    <3>1. 1 \in 1..(Len(s) - from + 1) /\ from + 1 - 1 = from
        BY <1>0, <2>2, <2>3, <2>6
    <3> QED BY <3>1, <2>2
  <2> QED BY <2>2, <2>5, <2>6
<1>2. ASSUME AllHunks(t) PROVE IsFile(s)
  <2>1. /\ Len(s) > 3 + mode + index /\ s[4 + mode + index].kind = "@@"
        /\ \A h \in Segments(SubSeq(s, 4 + mode + index, Len(s)), "@@") : IsHunk(h)
      BY <1>1, <1>2 DEF AllHunks
  <2>2. index = 1 => 1 + mode + index = 2 + mode
      OBVIOUS
  <2>3. /\ s[1].path \notin Unsafe
        /\ mode = 1 => s[2].kind \in {"new-file", "deleted-file"}
        /\ index = 1 => s[1 + mode + index].kind = "index"
      BY <2>2 DEF Opening
  <2>4. s[2 + mode + index] = OldLine(s, mode) /\ s[3 + mode + index] = NewLine(s, mode)
      BY DEF Named
  <2> QED BY <2>1, <2>3, <2>4, FileParts
<1>3. ASSUME IsFile(s) PROVE AllHunks(t)
  <2>1. PICK m \in 0..1, i \in 0..1 :
            /\ Len(s) > 3 + m + i
            /\ m = 1 => s[2].kind \in {"new-file", "deleted-file"}
            /\ i = 1 => s[1 + m + i].kind = "index"
            /\ s[2 + m + i] = OldLine(s, m)
            /\ s[4 + m + i].kind = "@@"
            /\ \A h \in Segments(SubSeq(s, 4 + m + i, Len(s)), "@@") : IsHunk(h)
      BY <1>3, FileParts
  <2>2. s[2 + m + i].kind = "---" /\ s[2 + mode + index].kind = "---"
      BY <2>1, NameKinds DEF Named
  <2>3. (m = 0 \/ m = 1) /\ (i = 0 \/ i = 1) /\ (mode = 0 \/ mode = 1)
        /\ (index = 0 \/ index = 1)
      OBVIOUS
  <2>4. ASSUME NEW a \in 0..1, NEW b \in 0..1, s[2 + a + b].kind = "---",
               b = 1 => s[2 + a].kind = "index"
        PROVE  /\ s[2 + a].kind \in {"---", "index"}
               /\ s[2 + a].kind = "index" <=> b = 1
    <3>1. CASE b = 0
      <4>1. 2 + a + b = 2 + a
          BY <3>1
      <4> QED BY <4>1, <2>4, <3>1
    <3>2. CASE b = 1
        BY <2>4, <3>2
    <3>3. b = 0 \/ b = 1
        OBVIOUS
    <3> QED BY <3>1, <3>2, <3>3
  <2>5. i = 1 => s[2 + m].kind = "index"
    <3>1. i = 1 => 1 + m + i = 2 + m
        OBVIOUS
    <3> QED BY <2>1, <3>1
  <2>6. index = 1 => s[2 + mode].kind = "index"
      BY DEF Opening
  <2>7. /\ s[2 + m].kind \in {"---", "index"} /\ (s[2 + m].kind = "index" <=> i = 1)
        /\ s[2 + mode].kind \in {"---", "index"} /\ (s[2 + mode].kind = "index" <=> index = 1)
      BY <2>2, <2>4, <2>5, <2>6
  <2>8. m = mode
    <3>1. CASE m = 0 /\ mode = 1
      <4>1. 2 + m = 2
          BY <3>1
      <4>2. s[2].kind \in {"new-file", "deleted-file"}
          BY <3>1 DEF Opening
      <4> QED BY <4>1, <4>2, <2>7
    <3>2. CASE m = 1 /\ mode = 0
      <4>1. 2 + mode = 2
          BY <3>2
      <4>2. s[2].kind \in {"new-file", "deleted-file"}
          BY <3>2, <2>1
      <4> QED BY <4>1, <4>2, <2>7
    <3> QED BY <3>1, <3>2, <2>3
  <2>9. i = index
      BY <2>3, <2>7, <2>8
  <2>10. /\ Len(s) > 3 + mode + index /\ s[4 + mode + index].kind = "@@"
        /\ \A h \in Segments(SubSeq(s, 4 + mode + index, Len(s)), "@@") : IsHunk(h)
      BY <2>1, <2>8, <2>9
  <2> QED BY <2>10, <1>1 DEF AllHunks
<1> QED BY <1>2, <1>3

-----------------------------------------------------------------------------
(* The file that is being read, as far as it is read. *)

Before == {"mode", "index", "old"}
Inside == Before \cup {"new", "hunks", "body"}

Opened(s, e, mode, index, sec) ==
    /\ e \in Before /\ Len(s) = 1 + mode + index /\ Fresh(sec)
    /\ e = "mode" => mode = 0 /\ index = 0
    /\ e = "index" => mode = 1 /\ index = 0
    /\ e = "old" => index = 1

HalfNamed(s, e, mode, index, sec) ==
    /\ e = "new" /\ Len(s) = 2 + mode + index /\ Fresh(sec)
    /\ s[2 + mode + index] = OldLine(s, mode)

Filled(s, e, mode, index, sec) ==
    /\ e \in {"hunks", "body"} /\ Named(s, mode, index)
    /\ OfBody(SubSeq(s, 4 + mode + index, Len(s)), sec)
    /\ e = "hunks" <=> Counted(sec)

OfFile(s, e, sec) ==
    \E mode, index \in 0..1 :
        /\ Opening(s, mode, index, sec)
        /\ \/ Opened(s, e, mode, index, sec)
           \/ HalfNamed(s, e, mode, index, sec)
           \/ Filled(s, e, mode, index, sec)

\* A file is done when no more of it need be read.
LEMMA FileIsDone ==
    ASSUME NEW s \in Seq(Lines), NEW e \in Inside, NEW sec \in Sections, OfFile(s, e, sec)
    PROVE  IsFile(s) <=> e = "hunks" /\ sec.hunks > 0
<1>1. PICK mode \in 0..1, index \in 0..1 :
        /\ Opening(s, mode, index, sec)
        /\ \/ Opened(s, e, mode, index, sec)
           \/ HalfNamed(s, e, mode, index, sec)
           \/ Filled(s, e, mode, index, sec)
    BY DEF OfFile
<1>2. CASE Opened(s, e, mode, index, sec) \/ HalfNamed(s, e, mode, index, sec)
  <2>1. e # "hunks"
      BY <1>2 DEF Opened, HalfNamed, Before
  <2>2. Len(s) = 1 + mode + index \/ Len(s) = 2 + mode + index
      BY <1>2 DEF Opened, HalfNamed
  <2>3. Len(s) <= 3 + mode + index
    <3>1. mode \in Int /\ index \in Int
        OBVIOUS
    <3> QED BY <3>1, <2>2
  <2>4. ~IsFile(s)
      BY <1>1, <2>3, HeadIsNoFile
  <2> QED BY <2>1, <2>4
<1>3. CASE Filled(s, e, mode, index, sec)
  <2> DEFINE t == SubSeq(s, 4 + mode + index, Len(s))
  <2>1. Named(s, mode, index) /\ OfBody(t, sec) /\ (e = "hunks" <=> Counted(sec))
      BY <1>3 DEF Filled
  <2>2. t \in Seq(Lines)
    <3>1. Len(s) >= 3 + mode + index
        BY <2>1 DEF Named
    <3>2. mode \in Int /\ index \in Int /\ 0 <= mode /\ 0 <= index /\ Len(s) \in Nat
        BY LenProperties
    <3>3. 4 + mode + index \in 1..(Len(s) + 1) /\ Len(s) \in ((4 + mode + index) - 1)..Len(s)
        BY <3>1, <3>2
    <3> QED BY <3>3, SubSeqFacts
  <2>3. IsFile(s) <=> AllHunks(t)
      BY <1>1, <2>1, NamedFile
  <2>4. AllHunks(t) <=> sec.hunks > 0 /\ Counted(sec)
    <3> HIDE DEF t
    <3> QED BY <2>1, <2>2, BodyDone
  <2> QED BY <2>1, <2>3, <2>4
<1> QED BY <1>1, <1>2, <1>3

\* Nothing that is read before the first hunk makes a file.
LEMMA NoFileBeforeHunks ==
    ASSUME NEW s \in Seq(Lines), NEW e \in Before \cup {"new"}, NEW sec, OfFile(s, e, sec),
           NEW x \in Lines
    PROVE  ~IsFile(Append(s, x))
<1>1. PICK mode \in 0..1, index \in 0..1 :
        /\ Opening(s, mode, index, sec)
        /\ \/ Opened(s, e, mode, index, sec)
           \/ HalfNamed(s, e, mode, index, sec)
           \/ Filled(s, e, mode, index, sec)
    BY DEF OfFile
<1>2. Len(s) = 1 + mode + index \/ Len(s) = 2 + mode + index
    BY <1>1 DEF Opened, HalfNamed, Filled, Before
<1>3. Append(s, x) \in Seq(Lines) /\ Len(Append(s, x)) = Len(s) + 1
    BY AppendFacts
<1>4. Len(Append(s, x)) <= 3 + mode + index
  <2>1. mode \in Int /\ index \in Int
      OBVIOUS
  <2> QED BY <2>1, <1>2, <1>3
<1>5. Opening(Append(s, x), mode, index, sec)
    BY <1>1, HeadOfAppend
<1> QED BY <1>3, <1>4, <1>5, HeadIsNoFile

ByMode(sec, x) ==
    (sec.new <=> x.kind = "new-file") /\ (sec.deleted <=> x.kind = "deleted-file")

LEMMA ModeLine ==
    ASSUME NEW s \in Seq(Lines), NEW sec \in Sections, OfFile(s, "mode", sec),
           NEW x \in Lines, x.kind \in {"new-file", "deleted-file"},
           NEW next \in Sections, next.path = sec.path, Fresh(next), ByMode(next, x)
    PROVE  OfFile(Append(s, x), "index", next)
<1> DEFINE g == Append(s, x)
<1>1. s[1].path = sec.path /\ sec.path \notin Unsafe /\ Len(s) = 1
  <2>1. PICK mode \in 0..1, index \in 0..1 :
            Opening(s, mode, index, sec) /\ Opened(s, "mode", mode, index, sec)
      BY DEF OfFile, HalfNamed, Filled
  <2>2. mode = 0 /\ index = 0 /\ Len(s) = 1 + mode + index
      BY <2>1 DEF Opened
  <2>3. s[1].path = sec.path /\ sec.path \notin Unsafe
      BY <2>1 DEF Opening
  <2> QED BY <2>2, <2>3
<1>2. Len(g) = 2 /\ g[1] = s[1] /\ g[2] = x
  <2>1. /\ Len(g) = Len(s) + 1 /\ g[Len(s) + 1] = x
        /\ \A i \in 1..Len(s) : g[i] = s[i]
      BY AppendFacts
  <2> HIDE DEF g
  <2> QED BY <1>1, <2>1
<1> HIDE DEF g
<1>3. Creates(g, 1) <=> next.new
    BY <1>2 DEF Creates, ByMode
<1>4. Deletes(g, 1) <=> next.deleted
    BY <1>2 DEF Deletes, ByMode
<1>5. Opening(g, 1, 0, next)
  <2>1. g[1].path = next.path /\ next.path \notin Unsafe
      BY <1>1, <1>2
  <2>2. Len(g) >= 1 + 1 + 0
      BY <1>2
  <2>3. g[2].kind \in {"new-file", "deleted-file"}
      BY <1>2
  <2> QED BY <2>1, <2>2, <2>3, <1>3, <1>4 DEF Opening
<1>6. Opened(g, "index", 1, 0, next)
    BY <1>2 DEF Opened, Before
<1>7. 1 \in 0..1 /\ 0 \in 0..1
    OBVIOUS
<1> QED BY <1>5, <1>6, <1>7 DEF OfFile, g

LEMMA IndexLine ==
    ASSUME NEW s \in Seq(Lines), NEW e \in {"mode", "index"}, NEW sec, OfFile(s, e, sec),
           NEW x \in Lines, x.kind = "index"
    PROVE  OfFile(Append(s, x), "old", sec)
<1> DEFINE g == Append(s, x)
<1>1. PICK mode \in 0..1, index \in 0..1 :
          Opening(s, mode, index, sec) /\ Opened(s, e, mode, index, sec)
    BY DEF OfFile, HalfNamed, Filled
<1>2. index = 0 /\ Len(s) = 1 + mode + index /\ Fresh(sec)
    BY <1>1 DEF Opened
<1>3. Len(s) = 1 + mode /\ mode \in Int
    BY <1>2
<1>4. Opening(g, mode, index, sec)
    BY <1>1, HeadOfAppend
<1>5. Len(g) = 2 + mode /\ g[2 + mode] = x
  <2>1. Len(g) = Len(s) + 1 /\ g[Len(s) + 1] = x
      BY AppendFacts
  <2>2. Len(s) + 1 = 2 + mode
      BY <1>3
  <2> QED BY <2>1, <2>2
<1> HIDE DEF g
<1>6. Opening(g, mode, 1, sec)
  <2>1. Len(g) >= 1 + mode + 1
      BY <1>3, <1>5
  <2>2. g[2 + mode].kind = "index"
      BY <1>5
  <2> QED BY <2>1, <2>2, <1>4 DEF Opening
<1>7. Opened(g, "old", mode, 1, sec)
  <2>1. Len(g) = 1 + mode + 1
      BY <1>3, <1>5
  <2> QED BY <2>1, <1>2 DEF Opened, Before
<1>8. 1 \in 0..1
    OBVIOUS
<1> QED BY <1>6, <1>7, <1>8 DEF OfFile, g

LEMMA OldNameLine ==
    ASSUME PatchAssumption, NEW s \in Seq(Lines), NEW e \in Before, NEW sec, OfFile(s, e, sec),
           NEW x \in Lines, x.kind = "---",
           x.path = IF sec.new THEN DevNull ELSE sec.path
    PROVE  OfFile(Append(s, x), "new", sec)
<1> DEFINE g == Append(s, x)
<1>1. PICK mode \in 0..1, index \in 0..1 :
          Opening(s, mode, index, sec) /\ Opened(s, e, mode, index, sec)
    BY DEF OfFile, HalfNamed, Filled, Before
<1>2. Len(s) = 1 + mode + index /\ Fresh(sec)
    BY <1>1 DEF Opened
<1>3. Opening(g, mode, index, sec) /\ OldLine(g, mode) = OldLine(s, mode)
    BY <1>1, HeadOfAppend
<1>4. Len(g) = 2 + mode + index /\ g[2 + mode + index] = x
  <2>1. Len(g) = Len(s) + 1 /\ g[Len(s) + 1] = x
      BY AppendFacts
  <2>2. Len(s) + 1 = 2 + mode + index
    <3>1. mode \in Int /\ index \in Int
        OBVIOUS
    <3> QED BY <3>1, <1>2
  <2> QED BY <2>1, <2>2
<1>5. x = OldLine(s, mode)
  <2>1. x = Line("---", x.path, 0, 0)
      BY LineFacts DEF Bare
  <2>2. s[1].path = sec.path /\ (sec.new <=> Creates(s, mode))
      BY <1>1 DEF Opening
  <2> QED BY <2>1, <2>2 DEF OldLine
<1>6. HalfNamed(g, "new", mode, index, sec)
  <2> HIDE DEF g
  <2> QED BY <1>2, <1>3, <1>4, <1>5 DEF HalfNamed
<1> HIDE DEF g
<1> QED BY <1>3, <1>6 DEF OfFile, g

LEMMA NewNameLine ==
    ASSUME PatchAssumption, NEW s \in Seq(Lines), NEW sec \in Sections, OfFile(s, "new", sec),
           NEW x \in Lines, x.kind = "+++",
           x.path = IF sec.deleted THEN DevNull ELSE sec.path
    PROVE  OfFile(Append(s, x), "hunks", sec)
<1> DEFINE g == Append(s, x)
<1>1. PICK mode \in 0..1, index \in 0..1 :
          Opening(s, mode, index, sec) /\ HalfNamed(s, "new", mode, index, sec)
    BY DEF OfFile, Opened, Filled, Before
<1>2. /\ Len(s) = 2 + mode + index /\ Fresh(sec)
      /\ s[2 + mode + index] = OldLine(s, mode)
    BY <1>1 DEF HalfNamed
<1>3. /\ Opening(g, mode, index, sec)
      /\ OldLine(g, mode) = OldLine(s, mode) /\ NewLine(g, mode) = NewLine(s, mode)
    BY <1>1, HeadOfAppend
<1>4. /\ Len(g) = 3 + mode + index /\ g[3 + mode + index] = x /\ g \in Seq(Lines)
      /\ g[2 + mode + index] = OldLine(g, mode)
  <2>1. /\ Len(g) = Len(s) + 1 /\ g[Len(s) + 1] = x /\ g \in Seq(Lines) /\ Len(s) \in Nat
        /\ \A i \in 1..Len(s) : g[i] = s[i]
      BY AppendFacts
  <2>2. mode \in Int /\ index \in Int /\ 0 <= mode /\ 0 <= index
      OBVIOUS
  <2>3. Len(s) + 1 = 3 + mode + index /\ 2 + mode + index \in 1..Len(s)
      BY <2>1, <2>2, <1>2
  <2>4. g[2 + mode + index] = OldLine(s, mode)
      BY <2>1, <2>3, <1>2
  <2> QED BY <2>1, <2>3, <2>4, <1>3
<1>5. x = NewLine(s, mode)
  <2>1. x = Line("+++", x.path, 0, 0)
      BY LineFacts DEF Bare
  <2>2. s[1].path = sec.path /\ (sec.deleted <=> Deletes(s, mode))
      BY <1>1 DEF Opening
  <2> QED BY <2>1, <2>2 DEF NewLine
<1> HIDE DEF g
<1>6. Named(g, mode, index)
  <2>1. Len(g) >= 3 + mode + index
    <3>1. mode \in Int /\ index \in Int
        OBVIOUS
    <3> QED BY <3>1, <1>4
  <2> QED BY <2>1, <1>3, <1>4, <1>5 DEF Named
<1>7. SubSeq(g, 4 + mode + index, Len(g)) = <<>>
  <2>1. mode \in Int /\ index \in Int /\ 0 <= mode /\ 0 <= index
      OBVIOUS
  <2>2. /\ 4 + mode + index \in 1..(Len(g) + 1)
        /\ Len(g) \in ((4 + mode + index) - 1)..Len(g)
        /\ Len(g) - (4 + mode + index) + 1 = 0
    <3>1. Len(g) = 3 + mode + index
        BY <1>4
    <3> QED BY <3>1, <2>1
  <2>3. /\ SubSeq(g, 4 + mode + index, Len(g)) \in Seq(Lines)
        /\ Len(SubSeq(g, 4 + mode + index, Len(g))) = 0
      BY <2>2, <1>4, SubSeqFacts
  <2> QED BY <2>3, EmptySeq
<1>8. Filled(g, "hunks", mode, index, sec)
  <2>1. OfBody(SubSeq(g, 4 + mode + index, Len(g)), sec)
      BY <1>2, <1>7 DEF OfBody
  <2>2. Counted(sec)
      BY <1>2 DEF Fresh, Counted
  <2> QED BY <2>1, <2>2, <1>6 DEF Filled
<1> QED BY <1>3, <1>8 DEF OfFile, g

\* A line more under the names of a file is a line more of its hunks.
LEMMA FilledGrows ==
    ASSUME NEW s \in Seq(Lines), NEW x \in Lines, NEW mode \in 0..1, NEW index \in 0..1,
           NEW sec, Opening(s, mode, index, sec), Named(s, mode, index)
    PROVE  LET t == SubSeq(s, 4 + mode + index, Len(s))
               g == Append(s, x)
           IN  /\ t \in Seq(Lines) /\ Named(g, mode, index)
               /\ SubSeq(g, 4 + mode + index, Len(g)) = Append(t, x)
<1> DEFINE t == SubSeq(s, 4 + mode + index, Len(s))
           g == Append(s, x)
<1>0. mode \in Int /\ index \in Int /\ 0 <= mode /\ 0 <= index
    OBVIOUS
<1>1. /\ g \in Seq(Lines) /\ Len(g) = Len(s) + 1 /\ Len(s) \in Nat
      /\ \A i \in 1..Len(s) : g[i] = s[i]
    BY AppendFacts
<1>2. /\ Len(s) >= 3 + mode + index
      /\ s[2 + mode + index] = OldLine(s, mode) /\ s[3 + mode + index] = NewLine(s, mode)
    BY DEF Named
<1>3. 4 + mode + index \in 1..(Len(s) + 1) /\ Len(s) \in ((4 + mode + index) - 1)..Len(s)
    BY <1>0, <1>1, <1>2
<1>4. t \in Seq(Lines)
    BY <1>3, SubSeqFacts
<1>5. SubSeq(g, 4 + mode + index, Len(g)) = Append(t, x)
    BY <1>1, <1>3, SubSeqOfAppend
<1>6. Named(g, mode, index)
  <2>1. OldLine(g, mode) = OldLine(s, mode) /\ NewLine(g, mode) = NewLine(s, mode)
      BY HeadOfAppend
  <2> HIDE DEF g
  <2>2. 2 + mode + index \in 1..Len(s) /\ 3 + mode + index \in 1..Len(s)
        /\ Len(g) >= 3 + mode + index
      BY <1>0, <1>1, <1>2
  <2>3. g[2 + mode + index] = s[2 + mode + index] /\ g[3 + mode + index] = s[3 + mode + index]
      BY <2>2, <1>1
  <2> QED BY <2>1, <2>2, <2>3, <1>2 DEF Named
<1> QED BY <1>4, <1>5, <1>6

\* The same file, with other counts.
SameFile(u, v) == u.path = v.path /\ u.new = v.new /\ u.deleted = v.deleted

\* What the lines of its hunks, with one more, say of the file.
LEMMA FileFromBody ==
    ASSUME NEW s \in Seq(Lines), NEW x \in Lines, NEW e, NEW sec, NEW mode \in 0..1,
           NEW index \in 0..1, Opening(s, mode, index, sec), Named(s, mode, index)
    PROVE  LET t == SubSeq(s, 4 + mode + index, Len(s))
           IN  /\ ~AllHunks(Append(t, x)) => ~IsFile(Append(s, x))
               /\ \A next \in Sections :
                     /\ OfBody(Append(t, x), next) /\ SameFile(next, sec)
                     /\ e \in {"hunks", "body"} /\ (e = "hunks" <=> Counted(next))
                     => OfFile(Append(s, x), e, next)
<1> DEFINE t == SubSeq(s, 4 + mode + index, Len(s))
           g == Append(s, x)
<1>1. /\ t \in Seq(Lines) /\ Named(g, mode, index)
      /\ SubSeq(g, 4 + mode + index, Len(g)) = Append(t, x)
    BY FilledGrows
<1>2. Opening(g, mode, index, sec) /\ g \in Seq(Lines)
    BY HeadOfAppend, AppendFacts
<1> HIDE DEF t, g
<1>3. ~AllHunks(Append(t, x)) => ~IsFile(g)
    BY <1>1, <1>2, NamedFile
<1>4. ASSUME NEW next \in Sections, OfBody(Append(t, x), next), SameFile(next, sec),
             e \in {"hunks", "body"}, e = "hunks" <=> Counted(next)
      PROVE  OfFile(g, e, next)
  <2>1. Opening(g, mode, index, next)
      BY <1>2, <1>4 DEF Opening, SameFile
  <2>2. Filled(g, e, mode, index, next)
      BY <1>1, <1>4 DEF Filled
  <2> QED BY <2>1, <2>2 DEF OfFile
<1> QED BY <1>3, <1>4 DEF t, g

\* What is expected in a hunk, and after it.
LEMMA InHunkFacts ==
    ASSUME NEW u \in Sections
    PROVE  /\ InHunk(u)[2] = u /\ InHunk(u)[1] \in {"hunks", "body", "refused"}
           /\ InHunk(u)[1] = "hunks" <=> Counted(u)
<1>1. u.old \in Nat /\ u.left \in Nat /\ u.added \in Nat /\ u.right \in Nat
    BY DEF Sections
<1> QED BY <1>1 DEF InHunk, Counted

\* A line is read: what After says of it, in the names of the proofs.
ReadsInFile(g, e, u, sec) ==
    /\ u \in Sections
    /\ e = "refused" => ~IsFile(g)
    /\ e # "refused" =>
          /\ e \in Inside /\ OfFile(g, e, u) /\ u.path = sec.path
          /\ ~(sec.new /\ sec.deleted) => ~(u.new /\ u.deleted)

\* A line that counts: the header of a hunk, or a line of its body.
LEMMA CountingLine ==
    ASSUME NEW s \in Seq(Lines), NEW x \in Lines, NEW sec \in Sections, NEW mode \in 0..1,
           NEW index \in 0..1, Opening(s, mode, index, sec), Named(s, mode, index),
           NEW u \in Sections, SameFile(u, sec),
           OfBody(Append(SubSeq(s, 4 + mode + index, Len(s)), x), u)
    PROVE  ReadsInFile(Append(s, x), InHunk(u)[1], u, sec)
<1> DEFINE t == SubSeq(s, 4 + mode + index, Len(s))
<1>1. InHunk(u)[1] \in {"hunks", "body", "refused"} /\ (InHunk(u)[1] = "hunks" <=> Counted(u))
    BY InHunkFacts
<1>2. t \in Seq(Lines)
    BY FilledGrows
<1> HIDE DEF t
<1>3. Append(t, x) \in Seq(Lines) /\ OfBody(Append(t, x), u)
    BY <1>2, AppendFacts DEF t
<1>4. CASE InHunk(u)[1] = "refused"
  <2>1. ~Counted(u)
      BY <1>1, <1>4
  <2>2. ~AllHunks(Append(t, x))
      BY <2>1, <1>3, BodyDone
  <2>3. ~IsFile(Append(s, x))
      BY <2>2, FileFromBody DEF t
  <2> QED BY <2>3, <1>4 DEF ReadsInFile
<1>5. CASE InHunk(u)[1] # "refused"
  <2>1. InHunk(u)[1] \in {"hunks", "body"}
      BY <1>1, <1>5
  <2>2. OfFile(Append(s, x), InHunk(u)[1], u)
      BY <2>1, <1>1, <1>3, FileFromBody DEF t
  <2>3. u.path = sec.path /\ u.new = sec.new /\ u.deleted = sec.deleted
      BY DEF SameFile
  <2> QED BY <2>1, <2>2, <2>3, <1>5 DEF ReadsInFile, Inside
<1> QED BY <1>4, <1>5

-----------------------------------------------------------------------------
(* What is made of a line of the file that is being read. *)

LEMMA ReadsMode ==
    ASSUME PatchAssumption, NEW s \in Seq(Lines), section \in Sections, expects = "mode",
           OfFile(s, expects, section), NEW x \in Lines, x.kind \in {"new-file", "deleted-file"}
    PROVE  ReadsInFile(Append(s, x), After(x)[1], After(x)[2], section)
<1> DEFINE next == [section EXCEPT !.new = x.kind = "new-file",
                                   !.deleted = x.kind = "deleted-file"]
<1>1. After(x) = <<"index", next>>
    BY DEF After, Removes, Adds
<1>2. next \in Sections
  <2>1. (x.kind = "new-file") \in BOOLEAN /\ (x.kind = "deleted-file") \in BOOLEAN
      OBVIOUS
  <2> QED BY <2>1, Zenon DEF Sections
<1>3. /\ next.path = section.path /\ next.hunks = section.hunks /\ next.old = section.old
      /\ next.added = section.added /\ next.left = section.left /\ next.right = section.right
      /\ next.body = section.body
      /\ next.new = (x.kind = "new-file") /\ next.deleted = (x.kind = "deleted-file")
    BY DEF Sections
<1> HIDE DEF next
<1>4. Fresh(section)
    BY DEF OfFile, Opened, HalfNamed, Filled
<1>5. Fresh(next) /\ ByMode(next, x) /\ ~(next.new /\ next.deleted)
    BY <1>3, <1>4 DEF Fresh, ByMode
<1>6. OfFile(Append(s, x), "index", next)
    BY <1>2, <1>3, <1>5, ModeLine
<1>7. ReadsInFile(Append(s, x), "index", next, section)
    BY <1>2, <1>3, <1>5, <1>6 DEF ReadsInFile, Inside, Before
<1> QED BY <1>1, <1>7

LEMMA ReadsIndex ==
    ASSUME NEW s \in Seq(Lines), section \in Sections, expects \in {"mode", "index"},
           OfFile(s, expects, section), NEW x \in Lines, x.kind = "index"
    PROVE  ReadsInFile(Append(s, x), After(x)[1], After(x)[2], section)
<1>1. After(x) = <<"old", section>>
    BY DEF After, Removes, Adds
<1>2. OfFile(Append(s, x), "old", section)
    BY IndexLine
<1>3. ReadsInFile(Append(s, x), "old", section, section)
    BY <1>2 DEF ReadsInFile, Inside, Before
<1> QED BY <1>1, <1>3

LEMMA ReadsOldName ==
    ASSUME PatchAssumption, NEW s \in Seq(Lines), section \in Sections, expects \in Before,
           OfFile(s, expects, section), NEW x \in Lines, x.kind = "---",
           x.path = IF section.new THEN DevNull ELSE section.path
    PROVE  ReadsInFile(Append(s, x), After(x)[1], After(x)[2], section)
<1>1. After(x) = <<"new", section>>
    BY DEF After, Removes, Adds, Before
<1>2. OfFile(Append(s, x), "new", section)
    BY OldNameLine
<1>3. ReadsInFile(Append(s, x), "new", section, section)
    BY <1>2 DEF ReadsInFile, Inside
<1> QED BY <1>1, <1>3

LEMMA ReadsNewName ==
    ASSUME PatchAssumption, NEW s \in Seq(Lines), section \in Sections, expects = "new",
           OfFile(s, expects, section), NEW x \in Lines, x.kind = "+++",
           x.path = IF section.deleted THEN DevNull ELSE section.path
    PROVE  ReadsInFile(Append(s, x), After(x)[1], After(x)[2], section)
<1>1. After(x) = <<"hunks", section>>
    BY DEF After, Removes, Adds
<1>2. OfFile(Append(s, x), "hunks", section)
    BY NewNameLine
<1>3. ReadsInFile(Append(s, x), "hunks", section, section)
    BY <1>2 DEF ReadsInFile, Inside
<1> QED BY <1>1, <1>3

\* The other lines before the hunks are refused.
LEMMA RefusedBeforeHunks ==
    ASSUME NEW s \in Seq(Lines), section \in Sections, expects \in Before \cup {"new"},
           OfFile(s, expects, section), NEW x \in Lines, x.kind # "diff",
           ~(x.kind \in {"new-file", "deleted-file"} /\ expects = "mode"),
           ~(x.kind = "index" /\ expects \in {"mode", "index"}),
           ~(x.kind = "---" /\ expects \in Before
             /\ x.path = IF section.new THEN DevNull ELSE section.path),
           ~(x.kind = "+++" /\ expects = "new"
             /\ x.path = IF section.deleted THEN DevNull ELSE section.path)
    PROVE  ReadsInFile(Append(s, x), After(x)[1], After(x)[2], section)
<1>1. After(x) = <<"refused", section>>
    BY DEF After, Before
<1>2. ~IsFile(Append(s, x))
    BY NoFileBeforeHunks
<1> QED BY <1>1, <1>2 DEF ReadsInFile

\* The file whose hunks are being read: its lines, named once.
LEMMA HunksOfFile ==
    ASSUME NEW s \in Seq(Lines), NEW e \in {"hunks", "body"}, NEW sec, OfFile(s, e, sec)
    PROVE  \E mode, index \in 0..1 :
              /\ Opening(s, mode, index, sec) /\ Named(s, mode, index)
              /\ OfBody(SubSeq(s, 4 + mode + index, Len(s)), sec)
              /\ SubSeq(s, 4 + mode + index, Len(s)) \in Seq(Lines)
              /\ e = "hunks" <=> Counted(sec)
<1>1. PICK mode \in 0..1, index \in 0..1 :
        /\ Opening(s, mode, index, sec)
        /\ \/ Opened(s, e, mode, index, sec)
           \/ HalfNamed(s, e, mode, index, sec)
           \/ Filled(s, e, mode, index, sec)
    BY DEF OfFile
<1>2. Filled(s, e, mode, index, sec)
    BY <1>1 DEF Opened, HalfNamed, Before
<1>3. Named(s, mode, index) /\ OfBody(SubSeq(s, 4 + mode + index, Len(s)), sec)
      /\ (e = "hunks" <=> Counted(sec))
    BY <1>2 DEF Filled
<1>4. SubSeq(s, 4 + mode + index, Len(s)) \in Seq(Lines)
  <2>1. Len(s) >= 3 + mode + index
      BY <1>3 DEF Named
  <2>2. mode \in Int /\ index \in Int /\ 0 <= mode /\ 0 <= index /\ Len(s) \in Nat
      BY LenProperties
  <2>3. 4 + mode + index \in 1..(Len(s) + 1) /\ Len(s) \in ((4 + mode + index) - 1)..Len(s)
      BY <2>1, <2>2
  <2> QED BY <2>3, SubSeqFacts
<1> QED BY <1>1, <1>3, <1>4

LEMMA ReadsHunk ==
    ASSUME PatchAssumption, NEW s \in Seq(Lines), section \in Sections,
           expects \in {"hunks", "body"}, OfFile(s, expects, section),
           NEW x \in Lines, x.kind = "@@"
    PROVE  ReadsInFile(Append(s, x), After(x)[1], After(x)[2], section)
<1>1. PICK mode \in 0..1, index \in 0..1 :
          /\ Opening(s, mode, index, section) /\ Named(s, mode, index)
          /\ OfBody(SubSeq(s, 4 + mode + index, Len(s)), section)
          /\ SubSeq(s, 4 + mode + index, Len(s)) \in Seq(Lines)
          /\ expects = "hunks" <=> Counted(section)
    BY HunksOfFile
<1> DEFINE t == SubSeq(s, 4 + mode + index, Len(s))
           u == [section EXCEPT !.hunks = section.hunks + 1, !.old = 0, !.added = 0,
                                !.body = FALSE, !.left = x.left, !.right = x.right]
<1>2. t \in Seq(Lines) /\ OfBody(t, section)
    BY <1>1
<1>3. CASE expects = "hunks"
  <2>1. After(x) = InHunk(u)
      BY <1>3 DEF After, Removes, Adds
  <2>2. u \in Sections
    <3>1. x.left \in Nat /\ x.right \in Nat
        BY LineFacts
    <3>2. section.hunks \in Nat
        BY DEF Sections
    <3>3. section.hunks + 1 \in Nat /\ 0 \in Nat /\ FALSE \in BOOLEAN
        BY <3>2
    <3> QED BY <3>1, <3>3, Zenon DEF Sections
  <2>3. SameFile(u, section)
      BY DEF SameFile, Sections
  <2>4. OfBody(Append(t, x), u)
    <3>1. Counted(section)
        BY <1>1, <1>3
    <3> HIDE DEF t
    <3> QED BY <3>1, <1>2, HeaderInBody
  <2> HIDE DEF u
  <2>5. ReadsInFile(Append(s, x), InHunk(u)[1], u, section)
      BY <1>1, <2>2, <2>3, <2>4, CountingLine
  <2>6. InHunk(u)[2] = u
      BY <2>2, InHunkFacts
  <2> QED BY <2>1, <2>5, <2>6
<1>4. CASE expects = "body"
  <2>1. After(x) = <<"refused", section>>
      BY <1>4 DEF After, Removes, Adds
  <2>2. ~Counted(section)
      BY <1>1, <1>4
  <2>3. ~AllHunks(Append(t, x))
    <3> HIDE DEF t
    <3> QED BY <2>2, <1>2, HeaderInBody
  <2>4. ~IsFile(Append(s, x))
      BY <1>1, <2>3, FileFromBody
  <2> QED BY <2>1, <2>4 DEF ReadsInFile
<1> QED BY <1>3, <1>4

LEMMA ReadsBody ==
    ASSUME NEW s \in Seq(Lines), section \in Sections,
           expects \in {"hunks", "body"}, OfFile(s, expects, section),
           NEW x \in Lines, Removes(x.kind) \/ Adds(x.kind)
    PROVE  ReadsInFile(Append(s, x), After(x)[1], After(x)[2], section)
<1>1. PICK mode \in 0..1, index \in 0..1 :
          /\ Opening(s, mode, index, section) /\ Named(s, mode, index)
          /\ OfBody(SubSeq(s, 4 + mode + index, Len(s)), section)
          /\ SubSeq(s, 4 + mode + index, Len(s)) \in Seq(Lines)
          /\ expects = "hunks" <=> Counted(section)
    BY HunksOfFile
<1> DEFINE t == SubSeq(s, 4 + mode + index, Len(s))
           u == [section EXCEPT
                    !.old = IF Removes(x.kind) THEN section.old + 1 ELSE section.old,
                    !.added = IF Adds(x.kind) THEN section.added + 1 ELSE section.added,
                    !.body = TRUE]
<1>2. t \in Seq(Lines) /\ OfBody(t, section) /\ x.kind # "@@"
    BY <1>1 DEF Removes, Adds
<1>3. section.old \in Nat /\ section.added \in Nat /\ section.left \in Nat
      /\ section.right \in Nat
    BY DEF Sections
<1>4. u \in Sections
  <2>1. /\ (IF Removes(x.kind) THEN section.old + 1 ELSE section.old) \in Nat
        /\ (IF Adds(x.kind) THEN section.added + 1 ELSE section.added) \in Nat
        /\ TRUE \in BOOLEAN
      BY <1>3
  <2> QED BY <2>1, Zenon DEF Sections
<1>5. /\ SameFile(u, section) /\ u.left = section.left /\ u.right = section.right
      /\ u.old = (IF Removes(x.kind) THEN section.old + 1 ELSE section.old)
      /\ u.added = (IF Adds(x.kind) THEN section.added + 1 ELSE section.added)
    BY DEF SameFile, Sections
<1>6. t # <<>> => OfBody(Append(t, x), u)
  <2> HIDE DEF t
  <2> QED BY <1>2, LineInBody
<1> HIDE DEF u
<1>7. CASE expects = "body"
  <2>1. After(x) = InHunk(u)
      BY <1>2, <1>7 DEF After, Removes, Adds, u
  <2>2. t # <<>>
      BY <1>1, <1>7 DEF OfBody, Fresh, Counted
  <2>3. ReadsInFile(Append(s, x), InHunk(u)[1], u, section)
      BY <1>1, <1>4, <1>5, <1>6, <2>2, CountingLine
  <2>4. InHunk(u)[2] = u
      BY <1>4, InHunkFacts
  <2> QED BY <2>1, <2>3, <2>4
<1>8. CASE expects = "hunks"
  <2>1. After(x) = <<"refused", section>>
      BY <1>8 DEF After, Removes, Adds
  <2>2. ~AllHunks(Append(t, x))
    <3>1. CASE t = <<>>
      <4>1. ~section.body
          BY <3>1, <1>2 DEF OfBody, Fresh
      <4> HIDE DEF t
      <4> QED BY <3>1, <4>1, <1>2, LineInBody
    <3>2. CASE t # <<>>
      <4>1. section.old = section.left /\ section.added = section.right
          BY <1>1, <1>8 DEF Counted
      <4>2. ~Counted(u)
          BY <4>1, <1>3, <1>5 DEF Counted
      <4> HIDE DEF t
      <4>3. Append(t, x) \in Seq(Lines)
          BY <1>2, AppendFacts
      <4> QED BY <3>2, <4>2, <4>3, <1>4, <1>6, BodyDone
    <3> QED BY <3>1, <3>2
  <2>3. ~IsFile(Append(s, x))
      BY <1>1, <2>2, FileFromBody
  <2> QED BY <2>1, <2>3 DEF ReadsInFile
<1> QED BY <1>7, <1>8

LEMMA ReadsOther ==
    ASSUME NEW s \in Seq(Lines), section \in Sections,
           expects \in {"hunks", "body"}, OfFile(s, expects, section),
           NEW x \in Lines, x.kind # "diff", x.kind # "@@", ~Removes(x.kind), ~Adds(x.kind)
    PROVE  ReadsInFile(Append(s, x), After(x)[1], After(x)[2], section)
<1>1. PICK mode \in 0..1, index \in 0..1 :
          /\ Opening(s, mode, index, section) /\ Named(s, mode, index)
          /\ OfBody(SubSeq(s, 4 + mode + index, Len(s)), section)
          /\ SubSeq(s, 4 + mode + index, Len(s)) \in Seq(Lines)
          /\ expects = "hunks" <=> Counted(section)
    BY HunksOfFile
<1> DEFINE t == SubSeq(s, 4 + mode + index, Len(s))
           u == [section EXCEPT !.body = FALSE]
<1>2. t \in Seq(Lines) /\ OfBody(t, section)
    BY <1>1
<1>3. CASE x.kind = "no-newline" /\ section.body
  <2>1. After(x) = <<expects, u>>
      BY <1>3 DEF After, Removes, Adds
  <2>2. u \in Sections
    <3>1. FALSE \in BOOLEAN
        OBVIOUS
    <3> QED BY <3>1, Zenon DEF Sections
  <2>3. /\ SameFile(u, section) /\ u.left = section.left /\ u.right = section.right
        /\ u.old = section.old /\ u.added = section.added
      BY DEF SameFile, Sections
  <2>4. OfBody(Append(t, x), u)
    <3> HIDE DEF t
    <3> QED BY <1>2, <1>3, LineInBody
  <2> HIDE DEF u
  <2>5. expects = "hunks" <=> Counted(u)
      BY <1>1, <2>3 DEF Counted
  <2>6. OfFile(Append(s, x), expects, u)
      BY <1>1, <2>2, <2>3, <2>4, <2>5, FileFromBody
  <2>7. ReadsInFile(Append(s, x), expects, u, section)
      BY <2>2, <2>3, <2>6 DEF ReadsInFile, Inside, SameFile
  <2> QED BY <2>1, <2>7
<1>4. CASE ~(x.kind = "no-newline" /\ section.body)
  <2>1. After(x) = <<"refused", section>>
      BY <1>4 DEF After, Removes, Adds
  <2>2. ~AllHunks(Append(t, x))
    <3> HIDE DEF t
    <3> QED BY <1>2, <1>4, LineInBody
  <2>3. ~IsFile(Append(s, x))
      BY <1>1, <2>2, FileFromBody
  <2> QED BY <2>1, <2>3 DEF ReadsInFile
<1> QED BY <1>3, <1>4

LEMMA ReadsLine ==
    ASSUME PatchAssumption, NEW s \in Seq(Lines), section \in Sections, expects \in Inside,
           OfFile(s, expects, section), NEW x \in Lines, x.kind # "diff"
    PROVE  ReadsInFile(Append(s, x), After(x)[1], After(x)[2], section)
<1>1. CASE expects \in Before \cup {"new"}
  <2>1. CASE x.kind \in {"new-file", "deleted-file"} /\ expects = "mode"
      BY <2>1, ReadsMode
  <2>2. CASE x.kind = "index" /\ expects \in {"mode", "index"}
      BY <2>2, ReadsIndex
  <2>3. CASE x.kind = "---" /\ expects \in Before
             /\ x.path = IF section.new THEN DevNull ELSE section.path
      BY <2>3, ReadsOldName
  <2>4. CASE x.kind = "+++" /\ expects = "new"
             /\ x.path = IF section.deleted THEN DevNull ELSE section.path
      BY <2>4, ReadsNewName
  <2> QED BY <1>1, <2>1, <2>2, <2>3, <2>4, RefusedBeforeHunks
<1>2. CASE expects \in {"hunks", "body"}
    BY <1>2, ReadsHunk, ReadsBody, ReadsOther
<1> QED BY <1>1, <1>2 DEF Inside

-----------------------------------------------------------------------------
(* The patch as far as it is read, and the files that are put out. *)

HeadersOf(lines) == {i \in DOMAIN lines : lines[i].kind = "diff"}
PathsOf(lines) == {lines[i].path : i \in HeadersOf(lines)}

LEMMA HeadersOfAppend ==
    ASSUME NEW s \in Seq(Lines), NEW x \in Lines
    PROVE  /\ Cardinality(HeadersOf(s)) \in Nat
           /\ x.kind = "diff" =>
                /\ Cardinality(HeadersOf(Append(s, x))) = Cardinality(HeadersOf(s)) + 1
                /\ PathsOf(Append(s, x)) = PathsOf(s) \cup {x.path}
           /\ x.kind # "diff" =>
                /\ Cardinality(HeadersOf(Append(s, x))) = Cardinality(HeadersOf(s))
                /\ PathsOf(Append(s, x)) = PathsOf(s)
<1> DEFINE g == Append(s, x)
<1>1. /\ DOMAIN g = 1..(Len(s) + 1) /\ DOMAIN s = 1..Len(s) /\ Len(s) \in Nat
      /\ \A i \in 1..Len(s) : g[i] = s[i]
      /\ g[Len(s) + 1] = x
    BY AppendFacts
<1> HIDE DEF g
<1>2. IsFiniteSet(HeadersOf(s)) /\ Cardinality(HeadersOf(s)) \in Nat
  <2>1. IsFiniteSet(1..Len(s)) /\ HeadersOf(s) \in SUBSET (1..Len(s))
      BY <1>1, FS_Interval DEF HeadersOf
  <2> QED BY <2>1, FS_Subset, FS_CardinalityType
<1>3. \A i \in HeadersOf(s) : i \in 1..Len(s) /\ g[i] = s[i]
    BY <1>1 DEF HeadersOf
<1>4. CASE x.kind = "diff"
  <2>1. HeadersOf(g) = HeadersOf(s) \cup {Len(s) + 1} /\ Len(s) + 1 \notin HeadersOf(s)
      BY <1>1, <1>4 DEF HeadersOf
  <2>2. Cardinality(HeadersOf(g)) = Cardinality(HeadersOf(s)) + 1
      BY <2>1, <1>2, FS_AddElement
  <2>3. PathsOf(g) = PathsOf(s) \cup {x.path}
      BY <2>1, <1>1, <1>3 DEF PathsOf
  <2> QED BY <2>2, <2>3, <1>2, <1>4 DEF g
<1>5. CASE x.kind # "diff"
  <2>1. HeadersOf(g) = HeadersOf(s)
      BY <1>1, <1>5 DEF HeadersOf
  <2>2. PathsOf(g) = PathsOf(s)
      BY <2>1, <1>3 DEF PathsOf
  <2> QED BY <2>1, <2>2, <1>2, <1>5 DEF g
<1> QED BY <1>4, <1>5

LEMMA NothingRead ==
    /\ HeadersOf(<<>>) = {} /\ PathsOf(<<>>) = {} /\ Segments(<<>>, "diff") = {}
    /\ Cardinality({}) = 0
<1>1. HeadersOf(<<>>) = {}
    BY DEF HeadersOf
<1>2. PathsOf(<<>>) = {}
    BY <1>1 DEF PathsOf
<1>3. Segments(<<>>, "diff") = {}
    BY DEF Segments
<1> QED BY <1>1, <1>2, <1>3, FS_EmptySet

\* What IsPatch asks, with its local definition spelt out.
LEMMA PatchParts ==
    ASSUME NEW lines, NEW files
    PROVE  IsPatch(lines, files) <=>
             /\ lines # <<>> => 1 \in HeadersOf(lines)
             /\ \A s \in Segments(lines, "diff") : IsFile(s)
             /\ PathsOf(lines) = ToSet(files)
             /\ Cardinality(HeadersOf(lines)) = Len(files)
BY DEF IsPatch, HeadersOf, PathsOf

\* A file that has only begun is none, and a patch that ends with it is none.
LEMMA HeaderIsNoFile ==
    ASSUME NEW s \in Seq(Lines), NEW x \in Lines, x.kind = "diff"
    PROVE  /\ CutInto(Append(s, x), "diff", Segments(s, "diff"), <<x>>)
           /\ \A files : ~IsPatch(Append(s, x), files)
<1>1. CutInto(Append(s, x), "diff", Segments(s, "diff"), <<x>>)
    BY CutByLineOfKind
<1>2. ~IsFile(<<x>>)
  <2>1. Len(<<x>>) = 1
      OBVIOUS
  <2>2. ASSUME NEW mode \in 0..1, NEW index \in 0..1, 1 > 3 + mode + index PROVE FALSE
      BY <2>2
  <2> QED BY <2>1, <2>2, FileParts
<1>3. <<x>> \in Segments(Append(s, x), "diff")
  <2> DEFINE g == Append(s, x)
  <2>1. g \in Seq(Lines) /\ CutInto(g, "diff", Segments(s, "diff"), <<x>>)
      BY <1>1, AppendFacts
  <2> HIDE DEF g
  <2>2. Segments(g, "diff") = Segments(s, "diff") \cup {<<x>>}
      BY <2>1, CutSegments
  <2> QED BY <2>2 DEF g
<1> QED BY <1>1, <1>2, <1>3, PatchParts

LEMMA FileBegins ==
    ASSUME NEW x \in Lines, x.kind = "diff", x.path \in Paths, x.path \notin Unsafe
    PROVE  LET u == [NoSection EXCEPT !.path = x.path]
           IN  /\ u \in Sections /\ u.path = x.path /\ ~(u.new /\ u.deleted)
               /\ OfFile(<<x>>, "mode", u)
<1> DEFINE u == [NoSection EXCEPT !.path = x.path]
<1>1. /\ u.path = x.path /\ ~u.new /\ ~u.deleted
      /\ u.hunks = 0 /\ u.old = 0 /\ u.added = 0 /\ u.left = 0 /\ u.right = 0 /\ ~u.body
    BY DEF NoSection
<1>2. u \in Sections
  <2>1. NoSection \in Sections
      BY DEF NoSection, Sections
  <2>2. x.path \in Paths \cup {DevNull}
      OBVIOUS
  <2> QED BY <2>1, <2>2, Zenon DEF Sections
<1> HIDE DEF u
<1>3. Len(<<x>>) = 1 /\ <<x>>[1] = x
    OBVIOUS
<1>4. Opening(<<x>>, 0, 0, u)
  <2>1. ~Creates(<<x>>, 0) /\ ~Deletes(<<x>>, 0)
      BY DEF Creates, Deletes
  <2>2. Len(<<x>>) >= 1 + 0 + 0
      BY <1>3
  <2> QED BY <2>1, <2>2, <1>1, <1>3 DEF Opening
<1>5. Opened(<<x>>, "mode", 0, 0, u)
  <2>1. Len(<<x>>) = 1 + 0 + 0
      BY <1>3
  <2> QED BY <2>1, <1>1 DEF Opened, Before, Fresh
<1>6. OfFile(<<x>>, "mode", u)
  <2>1. 0 \in 0..1
      OBVIOUS
  <2> QED BY <2>1, <1>4, <1>5 DEF OfFile
<1> QED BY <1>1, <1>2, <1>6 DEF u

\* Paths of which no two are alike but for case are as many as the list is long.
LEMMA FoldedApart ==
    ASSUME NEW list \in Seq(Paths), IsInjective([i \in DOMAIN list |-> Folded[list[i]]])
    PROVE  Cardinality({Folded[p] : p \in ToSet(list)}) = Len(list)
<1> DEFINE f == [i \in DOMAIN list |-> Folded[list[i]]]
           S == {Folded[p] : p \in ToSet(list)}
<1>1. Len(list) \in Nat /\ DOMAIN list = 1..Len(list)
    BY LenProperties
<1>2. ToSet(list) = {list[i] : i \in 1..Len(list)}
    BY <1>1 DEF ToSet
<1>3. \A i \in 1..Len(list) : f[i] = Folded[list[i]]
    BY <1>1
<1>4. f \in [1..Len(list) -> S]
  <2>1. \A i \in 1..Len(list) : Folded[list[i]] \in S
      BY <1>2
  <2> QED BY <2>1, <1>1
<1>5. \A y \in S : \E i \in 1..Len(list) : f[i] = y
    BY <1>2, <1>3
<1>6. f \in Bijection(1..Len(list), S)
  <2>1. \A a, b \in 1..Len(list) : f[a] = f[b] => a = b
      BY <1>1 DEF IsInjective
  <2> HIDE DEF f, S
  <2> QED BY <1>4, <1>5, <2>1 DEF Bijection, Injection, Surjection, IsInjective
<1>7. ExistsBijection(1..Len(list), S)
    BY <1>6 DEF ExistsBijection
<1>8. IsFiniteSet(1..Len(list)) /\ Cardinality(1..Len(list)) = Len(list)
  <2>1. /\ IsFiniteSet(1..Len(list))
        /\ Cardinality(1..Len(list)) = IF 1 > Len(list) THEN 0 ELSE Len(list) - 1 + 1
    <3>1. 1 \in Int /\ Len(list) \in Int
        BY <1>1
    <3> QED BY <3>1, FS_Interval
  <2> QED BY <2>1, <1>1
<1> HIDE DEF S
<1>9. Cardinality(S) = Len(list)
    BY <1>7, <1>8, FS_Bijection
<1> QED BY <1>9 DEF S

PatchFiles == [path : Paths \cup {DevNull}, new : BOOLEAN, deleted : BOOLEAN]

NamesOf(files) == {f.path : f \in ToSet(files)}

LEMMA FilesOfAppend ==
    ASSUME NEW files \in Seq(PatchFiles), NEW f \in PatchFiles
    PROVE  /\ Append(files, f) \in Seq(PatchFiles) /\ Len(Append(files, f)) = Len(files) + 1
           /\ Len(files) \in Nat /\ ToSet(Append(files, f)) = ToSet(files) \cup {f}
           /\ NamesOf(Append(files, f)) = NamesOf(files) \cup {f.path}
<1> DEFINE g == Append(files, f)
<1>1. /\ g \in Seq(PatchFiles) /\ Len(g) = Len(files) + 1 /\ Len(files) \in Nat
      /\ \A i \in 1..Len(files) : g[i] = files[i]
      /\ g[Len(files) + 1] = f
    BY AppendProperties, LenProperties
<1> HIDE DEF g
<1>2. DOMAIN g = 1..(Len(files) + 1) /\ DOMAIN files = 1..Len(files)
    BY <1>1, LenProperties
<1>3. ToSet(g) = ToSet(files) \cup {f}
  <2>1. \A i \in 1..(Len(files) + 1) : i \in 1..Len(files) \/ i = Len(files) + 1
      BY <1>1
  <2>2. 1..Len(files) \subseteq 1..(Len(files) + 1) /\ Len(files) + 1 \in 1..(Len(files) + 1)
      BY <1>1
  <2> QED BY <1>1, <1>2, <2>1, <2>2 DEF ToSet
<1>4. NamesOf(g) = NamesOf(files) \cup {f.path}
    BY <1>3 DEF NamesOf
<1> QED BY <1>1, <1>3, <1>4 DEF g

-----------------------------------------------------------------------------
(* The inductive invariant of the reader. *)

PatchTypes ==
    /\ declared \in Seq(Paths) /\ read \in Seq(Lines) /\ section \in Sections
    /\ output \in Seq(PatchFiles) /\ expects \in Inside \cup {"header", "accepted", "refused"}

\* A file is being read: those before it are files, and have been put out.
InFile ==
    /\ read # <<>> /\ read[1].kind = "diff" /\ ~(section.new /\ section.deleted)
    /\ Cardinality(HeadersOf(read)) = Len(output) + 1
    /\ PathsOf(read) = NamesOf(output) \cup {section.path}
    /\ \E ended, s : /\ CutInto(read, "diff", ended, s) /\ \A b \in ended : IsFile(b)
                     /\ OfFile(s, expects, section)

PatchInv ==
    /\ PatchTypes
    /\ expects # "refused" => DeclaredWell
    /\ \A f \in ToSet(output) : ~(f.new /\ f.deleted)
    /\ expects = "header" => read = <<>> /\ output = <<>>
    /\ expects \in Inside => InFile
    /\ AcceptsPatches

LEMMA PatchInitInv == PatchAssumption /\ PatchInit => PatchInv
<1> SUFFICES ASSUME PatchAssumption, PatchInit PROVE PatchInv
    OBVIOUS
<1>1. /\ read = <<>> /\ output = <<>> /\ section = NoSection
      /\ expects = IF DeclaredWell THEN "header" ELSE "refused"
    BY DEF PatchInit
<1>2. declared \in Seq(Paths)
  <2>1. PICK n \in 0..MaxDeclared : declared \in [1..n -> Paths]
      BY DEF PatchInit
  <2>2. n \in Nat
      BY PatchAssumption DEF PatchAssumption
  <2> QED BY <2>1, <2>2, SeqDef
<1>3. PatchTypes
  <2>1. section \in Sections
      BY <1>1 DEF NoSection, Sections
  <2>2. read \in Seq(Lines) /\ output \in Seq(PatchFiles)
      BY <1>1, EmptySeq
  <2> QED BY <2>1, <2>2, <1>1, <1>2 DEF PatchTypes
<1>4. ToSet(output) = {}
    BY <1>1 DEF ToSet
<1>5. expects \notin Inside /\ expects # "accepted"
    BY <1>1 DEF Inside, Before
<1> QED BY <1>1, <1>3, <1>4, <1>5 DEF PatchInv, AcceptsPatches

\* The files that are put out when one has ended.
LEMMA ClosedFiles ==
    ASSUME PatchInv, FileDone
    PROVE  /\ Closed \in Seq(PatchFiles) /\ Len(Closed) = Len(output) + 1
           /\ NamesOf(Closed) = NamesOf(output) \cup {section.path}
           /\ \A f \in ToSet(Closed) : ~(f.new /\ f.deleted)
<1>1. Closed = Append(output, Finished)
    BY DEF Closed
<1>2. expects \in Inside
    BY DEF FileDone, Inside
<1>3. output \in Seq(PatchFiles) /\ section \in Sections
    BY DEF PatchInv, PatchTypes
<1>4. Finished \in PatchFiles
    BY <1>3 DEF Finished, Sections, PatchFiles
<1>5. Finished.path = section.path /\ ~(Finished.new /\ Finished.deleted)
    BY <1>2 DEF Finished, PatchInv, InFile
<1>6. \A f \in ToSet(output) : ~(f.new /\ f.deleted)
    BY DEF PatchInv
<1> HIDE DEF Finished
<1>7. /\ Append(output, Finished) \in Seq(PatchFiles)
      /\ Len(Append(output, Finished)) = Len(output) + 1
      /\ ToSet(Append(output, Finished)) = ToSet(output) \cup {Finished}
      /\ NamesOf(Append(output, Finished)) = NamesOf(output) \cup {Finished.path}
    BY <1>3, <1>4, FilesOfAppend
<1> QED BY <1>1, <1>5, <1>6, <1>7

\* The file that is being read is one exactly when it may end here.
LEMMA DoneIsFile ==
    ASSUME PatchInv, expects \in Inside
    PROVE  (\A s \in Segments(read, "diff") : IsFile(s)) <=> FileDone
<1>1. PICK ended, s : /\ CutInto(read, "diff", ended, s) /\ \A b \in ended : IsFile(b)
                      /\ OfFile(s, expects, section)
    BY DEF PatchInv, InFile
<1>2. read \in Seq(Lines) /\ section \in Sections
    BY DEF PatchInv, PatchTypes
<1>3. Segments(read, "diff") = ended \cup {s} /\ s \in Seq(Lines)
    BY <1>1, <1>2, CutSegments
<1>4. IsFile(s) <=> expects = "hunks" /\ section.hunks > 0
    BY <1>1, <1>2, <1>3, FileIsDone
<1> QED BY <1>1, <1>3, <1>4 DEF FileDone

LEMMA EndKeepsPatch == PatchInv /\ EndOfPatch => PatchInv'
<1> SUFFICES ASSUME PatchInv, EndOfPatch PROVE PatchInv'
    OBVIOUS
<1>1. /\ expects' = IF (expects = "header" \/ FileDone) /\ Matches(Closed)
                    THEN "accepted" ELSE "refused"
      /\ output' = Closed /\ declared' = declared /\ read' = read /\ section' = section
      /\ expects # "accepted" /\ expects # "refused"
    BY DEF EndOfPatch
<1>2. /\ declared \in Seq(Paths) /\ read \in Seq(Lines) /\ section \in Sections
      /\ output \in Seq(PatchFiles) /\ expects \in Inside \cup {"header"}
      /\ DeclaredWell
      /\ \A f \in ToSet(output) : ~(f.new /\ f.deleted)
    BY <1>1 DEF PatchInv, PatchTypes
<1>3. Closed \in Seq(PatchFiles) /\ \A f \in ToSet(Closed) : ~(f.new /\ f.deleted)
    BY <1>2, ClosedFiles DEF Closed
<1>4. IsPatch(read, declared) <=> (expects = "header" \/ FileDone) /\ Matches(Closed)
  <2>1. CASE expects = "header"
    <3>1. read = <<>> /\ output = <<>> /\ Closed = <<>>
        BY <2>1 DEF PatchInv, Closed, FileDone
    <3>2. IsPatch(read, declared) <=> {} = ToSet(declared) /\ 0 = Len(declared)
        BY <3>1, NothingRead, PatchParts
    <3>3. Matches(<<>>) <=> {} = ToSet(declared) /\ 0 = Len(declared)
      <4>1. ToSet(<<>>) = {} /\ Len(<<>>) = 0
          BY DEF ToSet
      <4>2. {f.path : f \in ToSet(<<>>)} = {}
          BY <4>1
      <4> QED BY <4>1, <4>2 DEF Matches
    <3> QED BY <2>1, <3>1, <3>2, <3>3
  <2>2. CASE expects \in Inside /\ ~FileDone
    <3>1. ~IsPatch(read, declared)
        BY <2>2, DoneIsFile, PatchParts
    <3>2. expects # "header"
        BY <2>2 DEF Inside, Before
    <3> QED BY <2>2, <3>1, <3>2
  <2>3. CASE expects \in Inside /\ FileDone
    <3>1. \A s \in Segments(read, "diff") : IsFile(s)
        BY <2>3, DoneIsFile
    <3>2. /\ read # <<>> /\ read[1].kind = "diff"
          /\ Cardinality(HeadersOf(read)) = Len(output) + 1
          /\ PathsOf(read) = NamesOf(output) \cup {section.path}
        BY <2>3 DEF PatchInv, InFile
    <3>3. 1 \in HeadersOf(read)
      <4>1. DOMAIN read = 1..Len(read) /\ Len(read) \in Nat /\ Len(read) # 0
          BY <1>2, <3>2, LenProperties, EmptySeq
      <4>2. 1 \in DOMAIN read
          BY <4>1
      <4> QED BY <4>2, <3>2 DEF HeadersOf
    <3>4. Len(Closed) = Len(output) + 1 /\ NamesOf(Closed) = NamesOf(output) \cup {section.path}
        BY <2>3, ClosedFiles
    <3>5. IsPatch(read, declared) <=>
              PathsOf(read) = ToSet(declared) /\ Cardinality(HeadersOf(read)) = Len(declared)
        BY <3>1, <3>3, PatchParts
    <3>6. Matches(Closed) <=> Len(Closed) = Len(declared) /\ NamesOf(Closed) = ToSet(declared)
        BY DEF Matches, NamesOf
    <3> QED BY <2>3, <3>2, <3>4, <3>5, <3>6
  <2> QED BY <1>2, <2>1, <2>2, <2>3
<1>5. Cardinality({Folded[p] : p \in ToSet(declared)}) = Len(declared)
    BY <1>2, FoldedApart DEF DeclaredWell
<1>6. PatchTypes'
    BY <1>1, <1>2, <1>3 DEF PatchTypes
<1>7. expects' \notin Inside /\ expects' # "header" /\ DeclaredWell'
    BY <1>1, <1>2 DEF Inside, Before, DeclaredWell
<1>8. AcceptsPatches'
  <2>1. expects' = "accepted" => IsPatch(read', declared')
      BY <1>1, <1>4
  <2>2. expects' = "refused" => ~IsPatch(read', declared')
      BY <1>1, <1>4
  <2>3. Cardinality({Folded[p] : p \in ToSet(declared')}) = Len(declared')
      BY <1>1, <1>5
  <2>4. \A f \in ToSet(output') : ~(f.new /\ f.deleted)
      BY <1>1, <1>3
  <2> QED BY <2>1, <2>2, <2>3, <2>4 DEF AcceptsPatches
<1> QED BY <1>1, <1>3, <1>6, <1>7, <1>8 DEF PatchInv

\* A refused line leaves a list of lines that is no patch; any other, one in which
\* a file is being read.
LEMMA ReadKeepsPatch ==
    ASSUME PatchAssumption, PatchInv, NEW x \in Lines, Read(x)
    PROVE  PatchInv'
<1>1. /\ read' = Append(read, x) /\ expects' = After(x)[1] /\ section' = After(x)[2]
      /\ output' = (IF x.kind = "diff" THEN Closed ELSE output) /\ declared' = declared
      /\ expects # "accepted" /\ expects # "refused"
    BY DEF Read
<1>2. /\ declared \in Seq(Paths) /\ read \in Seq(Lines) /\ section \in Sections
      /\ output \in Seq(PatchFiles) /\ expects \in Inside \cup {"header"}
      /\ DeclaredWell
      /\ \A f \in ToSet(output) : ~(f.new /\ f.deleted)
    BY <1>1 DEF PatchInv, PatchTypes
<1>3. Append(read, x) \in Seq(Lines) /\ Append(read, x) # <<>>
      /\ (read = <<>> => Append(read, x)[1] = x)
      /\ (read # <<>> => Append(read, x)[1] = read[1])
  <2>1. /\ Append(read, x) \in Seq(Lines) /\ Len(Append(read, x)) = Len(read) + 1
        /\ Append(read, x)[Len(read) + 1] = x /\ Len(read) \in Nat
        /\ \A i \in 1..Len(read) : Append(read, x)[i] = read[i]
      BY <1>2, AppendFacts
  <2>2. read = <<>> <=> Len(read) = 0
      BY <1>2, EmptySeq
  <2> DEFINE g == Append(read, x)
  <2>3. g # <<>>
    <3>1. Len(g) # 0
        BY <2>1
    <3> HIDE DEF g
    <3> QED BY <3>1
  <2> QED BY <2>1, <2>2, <2>3
<1>4. /\ output' \in Seq(PatchFiles)
      /\ \A f \in ToSet(output') : ~(f.new /\ f.deleted)
    BY <1>1, <1>2, ClosedFiles DEF Closed
<1>5. DeclaredWell'
    BY <1>1, <1>2 DEF DeclaredWell
<1>6. ASSUME expects' = "refused", section' \in Sections, ~IsPatch(Append(read, x), declared)
      PROVE  PatchInv'
  <2>1. PatchTypes'
      BY <1>1, <1>2, <1>3, <1>4, <1>6 DEF PatchTypes
  <2>2. expects' \notin Inside /\ expects' # "header" /\ expects' # "accepted"
      BY <1>6 DEF Inside, Before
  <2>3. AcceptsPatches'
      BY <1>1, <1>6, <2>2 DEF AcceptsPatches
  <2> QED BY <1>4, <1>5, <2>1, <2>2, <2>3 DEF PatchInv
<1>7. ASSUME expects' \in Inside, section' \in Sections, InFile' PROVE PatchInv'
  <2>1. PatchTypes'
      BY <1>1, <1>2, <1>3, <1>4, <1>7 DEF PatchTypes
  <2>2. expects' # "refused" /\ expects' # "header" /\ expects' # "accepted"
      BY <1>7 DEF Inside, Before
  <2>3. AcceptsPatches'
      BY <2>2 DEF AcceptsPatches
  <2> QED BY <1>4, <1>5, <1>7, <2>1, <2>2, <2>3 DEF PatchInv
<1>8. CASE x.kind = "diff" /\ x.path \notin Unsafe /\ (expects = "header" \/ FileDone)
  <2> DEFINE u == [NoSection EXCEPT !.path = x.path]
  <2>1. After(x) = <<"mode", u>>
    <3>1. x.kind \notin {"new-file", "deleted-file", "index", "---", "+++", "@@", "no-newline"}
          /\ ~Removes(x.kind) /\ ~Adds(x.kind)
        BY <1>8 DEF Removes, Adds
    <3> QED BY <1>8, <3>1 DEF After
  <2>2. x.path \in Paths
      BY <1>8, LineFacts
  <2>3. u \in Sections /\ u.path = x.path /\ ~(u.new /\ u.deleted) /\ OfFile(<<x>>, "mode", u)
      BY <1>8, <2>2, FileBegins
  <2> HIDE DEF u
  <2>4. expects' = "mode" /\ section' = u /\ output' = Closed
      BY <1>1, <1>8, <2>1
  <2>5. CutInto(Append(read, x), "diff", Segments(read, "diff"), <<x>>)
      BY <1>2, <1>8, HeaderIsNoFile
  <2>6. /\ Cardinality(HeadersOf(Append(read, x))) = Cardinality(HeadersOf(read)) + 1
        /\ PathsOf(Append(read, x)) = PathsOf(read) \cup {x.path}
      BY <1>2, <1>8, HeadersOfAppend
  <2>7. CASE expects = "header"
    <3>1. read = <<>> /\ output = <<>> /\ Closed = <<>>
        BY <2>7 DEF PatchInv, Closed, FileDone
    <3>2. NamesOf(<<>>) = {} /\ Len(<<>>) = 0
        BY DEF NamesOf, ToSet
    <3>3. /\ Append(read, x)[1].kind = "diff"
          /\ Cardinality(HeadersOf(Append(read, x))) = Len(Closed) + 1
          /\ PathsOf(Append(read, x)) = NamesOf(Closed) \cup {u.path}
        BY <3>1, <3>2, <1>3, <1>8, <2>3, <2>6, NothingRead
    <3>4. \A b \in Segments(read, "diff") : IsFile(b)
        BY <3>1, NothingRead
    <3>5. InFile'
        BY <1>1, <1>3, <2>3, <2>4, <2>5, <3>3, <3>4 DEF InFile
    <3> QED BY <3>5, <1>7, <2>3, <2>4 DEF Inside, Before
  <2>8. CASE FileDone
    <3>1. expects \in Inside
        BY <2>8 DEF FileDone, Inside
    <3>2. /\ read # <<>> /\ read[1].kind = "diff"
          /\ Cardinality(HeadersOf(read)) = Len(output) + 1
          /\ PathsOf(read) = NamesOf(output) \cup {section.path}
        BY <3>1 DEF PatchInv, InFile
    <3>3. Len(Closed) = Len(output) + 1 /\ NamesOf(Closed) = NamesOf(output) \cup {section.path}
        BY <2>8, ClosedFiles
    <3>4. /\ Append(read, x)[1].kind = "diff"
          /\ Cardinality(HeadersOf(Append(read, x))) = Len(Closed) + 1
          /\ PathsOf(Append(read, x)) = NamesOf(Closed) \cup {u.path}
        BY <3>2, <3>3, <1>3, <2>3, <2>6
    <3>5. \A b \in Segments(read, "diff") : IsFile(b)
        BY <3>1, <2>8, DoneIsFile
    <3>6. InFile'
        BY <1>1, <1>3, <2>3, <2>4, <2>5, <3>4, <3>5 DEF InFile
    <3> QED BY <3>6, <1>7, <2>3, <2>4 DEF Inside, Before
  <2> QED BY <1>8, <2>7, <2>8
<1>9. CASE x.kind = "diff" /\ ~(x.path \notin Unsafe /\ (expects = "header" \/ FileDone))
  <2>1. After(x) = <<"refused", section>>
    <3>1. x.kind \notin {"new-file", "deleted-file", "index", "---", "+++", "@@", "no-newline"}
          /\ ~Removes(x.kind) /\ ~Adds(x.kind)
        BY <1>9 DEF Removes, Adds
    <3> QED BY <1>9, <3>1 DEF After
  <2>2. ~IsPatch(Append(read, x), declared)
      BY <1>2, <1>9, HeaderIsNoFile
  <2> QED BY <1>1, <1>2, <1>6, <2>1, <2>2
<1>10. CASE x.kind # "diff" /\ expects = "header"
  <2>1. After(x) = <<"refused", section>>
      BY <1>10 DEF After
  <2>2. read = <<>>
      BY <1>10 DEF PatchInv
  <2>3. 1 \notin HeadersOf(Append(read, x))
      BY <2>2, <1>3, <1>10 DEF HeadersOf
  <2>4. ~IsPatch(Append(read, x), declared)
      BY <2>3, <1>3, PatchParts
  <2> QED BY <1>1, <1>2, <1>6, <2>1, <2>4
<1>11. CASE x.kind # "diff" /\ expects \in Inside
  <2>1. PICK ended, s : /\ CutInto(read, "diff", ended, s) /\ \A b \in ended : IsFile(b)
                        /\ OfFile(s, expects, section)
      BY <1>11 DEF PatchInv, InFile
  <2>2. s \in Seq(Lines)
      BY <1>2, <2>1, CutSegments
  <2>3. ReadsInFile(Append(s, x), After(x)[1], After(x)[2], section)
      BY <1>2, <1>11, <2>1, <2>2, ReadsLine
  <2>4. CutInto(Append(read, x), "diff", ended, Append(s, x))
      BY <1>2, <1>11, <2>1, CutByOtherLine
  <2>5. CASE After(x)[1] = "refused"
    <3>1. ~IsFile(Append(s, x))
        BY <2>3, <2>5 DEF ReadsInFile
    <3>2. Append(s, x) \in Segments(Append(read, x), "diff")
      <4> DEFINE g == Append(read, x)
                 last == Append(s, x)
      <4>1. g \in Seq(Lines) /\ CutInto(g, "diff", ended, last)
          BY <1>3, <2>4
      <4> HIDE DEF g, last
      <4>2. Segments(g, "diff") = ended \cup {last}
          BY <4>1, CutSegments
      <4> QED BY <4>2 DEF g, last
    <3>3. ~IsPatch(Append(read, x), declared)
        BY <3>1, <3>2, PatchParts
    <3>4. After(x)[2] \in Sections
        BY <2>3 DEF ReadsInFile
    <3> QED BY <1>1, <1>6, <2>5, <3>3, <3>4
  <2>6. CASE After(x)[1] # "refused"
    <3>1. /\ After(x)[1] \in Inside /\ OfFile(Append(s, x), After(x)[1], After(x)[2])
          /\ After(x)[2] \in Sections /\ After(x)[2].path = section.path
          /\ (~(section.new /\ section.deleted) =>
                ~(After(x)[2].new /\ After(x)[2].deleted))
        BY <2>3, <2>6 DEF ReadsInFile
    <3>2. /\ read # <<>> /\ read[1].kind = "diff" /\ ~(section.new /\ section.deleted)
          /\ Cardinality(HeadersOf(read)) = Len(output) + 1
          /\ PathsOf(read) = NamesOf(output) \cup {section.path}
        BY <1>11 DEF PatchInv, InFile
    <3>3. /\ Cardinality(HeadersOf(Append(read, x))) = Cardinality(HeadersOf(read))
          /\ PathsOf(Append(read, x)) = PathsOf(read)
        BY <1>2, <1>11, HeadersOfAppend
    <3>4. output' = output
        BY <1>1, <1>11
    <3>5. InFile'
        BY <1>1, <1>3, <2>1, <2>4, <3>1, <3>2, <3>3, <3>4 DEF InFile
    <3> QED BY <1>1, <1>7, <3>1, <3>5
  <2> QED BY <2>5, <2>6
<1> QED BY <1>2, <1>8, <1>9, <1>10, <1>11

LEMMA PatchStep == PatchAssumption /\ PatchInv /\ [PatchNext]_patchVars => PatchInv'
<1> SUFFICES ASSUME PatchAssumption, PatchInv, [PatchNext]_patchVars PROVE PatchInv'
    OBVIOUS
<1>1. CASE EndOfPatch
    BY <1>1, EndKeepsPatch
<1>2. CASE \E x \in Lines : Read(x)
    BY <1>2, ReadKeepsPatch
<1>3. CASE UNCHANGED patchVars
    BY <1>3 DEF patchVars, PatchInv, PatchTypes, InFile, DeclaredWell, AcceptsPatches
<1> QED BY <1>1, <1>2, <1>3 DEF PatchNext

\* What parse_patch accepts is a patch of exactly the declared files, whatever the
\* order of its lines and however many there are, and what it refuses is none.
THEOREM AcceptsPatchesCorrect == PatchSpec => []AcceptsPatches
<1>1. PatchInit => PatchInv
    BY PatchAssumption, PatchInitInv
<1>2. PatchInv /\ [PatchNext]_patchVars => PatchInv'
    BY PatchAssumption, PatchStep
<1>3. PatchInv => AcceptsPatches
    BY DEF PatchInv
<1> QED BY <1>1, <1>2, <1>3, PTL DEF PatchSpec
=============================================================================
