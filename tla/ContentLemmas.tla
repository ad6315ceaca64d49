--------------------------- MODULE ContentLemmas ---------------------------
(***************************************************************************)
(* What the pure algorithms of reviewbot compute: the parser of a patch    *)
(* and the batches of DiffBatches, the normalization and the merge of      *)
(* ReviewMerge.  Each is a function defined by recursion over a sequence;  *)
(* FoldExists says that there is one, and the facts about its values are   *)
(* proved by Induction over the prefix it has read.                        *)
(***************************************************************************)
EXTENDS DiffBatches, ReviewMerge, FiniteSetTheorems, WellFoundedInduction, TLAPS

-----------------------------------------------------------------------------
(* Induction, and definitions by recursion.                                *)

\* A set of numbers that has 0, and n + 1 with each n, has every number.
LEMMA Induction ==
    ASSUME NEW T, 0 \in T, \A n \in Nat : n \in T => n + 1 \in T
    PROVE  \A n \in Nat : n \in T
  <1> DEFINE U == {n \in Nat : n \notin T}
  <1> SUFFICES ASSUME U # {}
               PROVE  FALSE
    OBVIOUS
  <1>1. PICK x \in U : \A y \in U : ~(<<y, x>> \in OpToRel(<, Nat))
    <2>1. U \subseteq Nat
      OBVIOUS
    <2> HIDE DEF U
    <2> QED
      BY <2>1, WFMin, NatLessThanWellFounded
  <1>2. x - 1 \in U /\ x - 1 < x
    OBVIOUS
  <1> QED
    BY <1>1, <1>2 DEF OpToRel

\* T has 0 and, with k - 1, also k, up to n.
Inductive(T, n) == 0 \in T /\ \A k \in 1 .. n : k - 1 \in T => k \in T

\* Then it has the numbers up to n.
LEMMA PrefixInduction ==
    ASSUME NEW n \in Nat, NEW T, Inductive(T, n)
    PROVE  \A k \in 0 .. n : k \in T
  <1> DEFINE U == {k \in Nat : k <= n => k \in T}
  <1>1. 0 \in U
    BY DEF Inductive
  <1>2. ASSUME NEW k \in Nat, k \in U
        PROVE  k + 1 \in U
    <2>1. k + 1 <= n => k + 1 \in 1 .. n /\ (k + 1) - 1 = k /\ k \in T
      BY <1>2
    <2>2. k + 1 <= n => k + 1 \in T
      BY <2>1 DEF Inductive
    <2> QED
      BY <2>2
  <1> HIDE DEF U
  <1>3. \A k \in Nat : k \in U
    BY <1>1, <1>2, Induction
  <1> QED
    BY <1>3 DEF U

\* step[i] maps V into V, for each of the first n.
Maps(step, n, V) == \A i \in 1 .. n, v \in V : step[i][v] \in V

\* p holds the values of V that come of base by the first n steps.
Folds(p, step, n, base, V) ==
    /\ p \in [0 .. n -> V]
    /\ p[0] = base
    /\ \A i \in 1 .. n : p[i] = step[i][p[i - 1]]

\* There is such a function.
LEMMA FoldExists ==
    ASSUME NEW V, NEW base \in V, NEW n \in Nat, NEW step, Maps(step, n, V)
    PROVE  \E p : Folds(p, step, n, base, V)
  <1> DEFINE Upto(p, k) == Folds(p, step, k, base, V)
             T == {k \in Nat : k <= n => \E p : Upto(p, k)}
  <1> USE DEF Maps, Folds
  <1>1. 0 \in T
    <2>1. Upto([i \in 0 .. 0 |-> base], 0)
      OBVIOUS
    <2> HIDE DEF Upto, Folds
    <2> QED
      BY <2>1
  <1>2. ASSUME NEW k \in Nat, k \in T
        PROVE  k + 1 \in T
    <2> SUFFICES ASSUME k + 1 <= n
                 PROVE  \E p : Upto(p, k + 1)
      OBVIOUS
    <2>1. PICK p : Upto(p, k)
      <3> HIDE DEF Upto, Folds
      <3> QED
        BY <1>2
    <2> DEFINE q == [i \in 0 .. k + 1 |-> IF i = k + 1 THEN step[k + 1][p[k]] ELSE p[i]]
    <2>2. p[k] \in V /\ step[k + 1][p[k]] \in V
      BY <2>1
    <2>3. q \in [0 .. k + 1 -> V]
      BY <2>1, <2>2
    <2>4. q[0] = base /\ q[k + 1] = step[k + 1][p[k]] /\ \A i \in 0 .. k : q[i] = p[i]
      BY <2>1
    <2> HIDE DEF q
    <2>5. ASSUME NEW i \in 1 .. k + 1
          PROVE  q[i] = step[i][q[i - 1]]
      <3>1. CASE i = k + 1
        BY <2>4, <3>1
      <3>2. CASE i # k + 1
        <4>1. i \in 1 .. k /\ i - 1 \in 0 .. k
          BY <3>2
        <4>2. q[i] = p[i] /\ q[i - 1] = p[i - 1] /\ p[i] = step[i][p[i - 1]]
          BY <2>1, <2>4, <4>1
        <4> QED
          BY <4>2
      <3> QED
        BY <3>1, <3>2
    <2> QED
      BY <2>3, <2>4, <2>5
  <1> HIDE DEF T
  <1>3. n \in T
    BY <1>1, <1>2, Induction
  <1> QED
    BY <1>3 DEF T

-----------------------------------------------------------------------------
(* The parser.                                                             *)

Parsers == [line : Nat, changed : SUBSET Nat]

LEMMA ParseLineType ==
    ASSUME NEW s \in Parsers, NEW l \in PatchLines
    PROVE  ParseLine(s, l) \in Parsers
  BY DEF ParseLine, Parsers, PatchLines

\* Parsed starts before the first hunk and reads one line after the other.
LEMMA ParsedFacts ==
    ASSUME NEW patch \in Seq(PatchLines)
    PROVE  /\ Parsed(patch) \in [0 .. Len(patch) -> Parsers]
           /\ Parsed(patch)[0] = [line |-> 0, changed |-> {}]
           /\ \A i \in 1 .. Len(patch) :
                Parsed(patch)[i] = ParseLine(Parsed(patch)[i - 1], patch[i])
  <1> DEFINE n == Len(patch)
             base == [line |-> 0, changed |-> {}]
             step == [i \in 1 .. n |-> [s \in Parsers |-> ParseLine(s, patch[i])]]
  <1>1. /\ n \in Nat /\ base \in Parsers
        /\ \A i \in 1 .. n, s \in Parsers :
             step[i][s] = ParseLine(s, patch[i]) /\ step[i][s] \in Parsers
    BY ParseLineType DEF Parsers
  <1> HIDE DEF n, base, step
  <1>2. PICK p : Folds(p, step, n, base, Parsers)
    <2>1. Maps(step, n, Parsers)
      BY <1>1 DEF Maps
    <2> QED
      BY <1>1, <2>1, FoldExists
  <1>3. ASSUME NEW i \in 1 .. n
        PROVE  p[i] = ParseLine(p[i - 1], patch[i])
    BY <1>1, <1>2 DEF Folds
  <1>4. p = [i \in 0 .. n |-> IF i = 0 THEN [line |-> 0, changed |-> {}]
                              ELSE ParseLine(p[i - 1], patch[i])]
    BY <1>1, <1>2, <1>3 DEF Folds, base
  <1> DEFINE q == Parsed(patch)
  <1>5. q = [i \in 0 .. n |-> IF i = 0 THEN [line |-> 0, changed |-> {}]
                              ELSE ParseLine(q[i - 1], patch[i])]
    BY <1>4 DEF Parsed, n
  <1> HIDE DEF q
  <1>6. q[0] = base
    BY <1>1, <1>5 DEF base
  <1>7. ASSUME NEW i \in 1 .. n
        PROVE  q[i] = ParseLine(q[i - 1], patch[i])
    <2>1. i \in 0 .. n /\ i # 0
      BY <1>1
    <2> QED
      BY <1>5, <2>1
  <1> DEFINE T == {k \in 0 .. n : q[k] \in Parsers}
  <1>8. 0 \in T
    BY <1>1, <1>6
  <1>9. ASSUME NEW k \in 1 .. n, k - 1 \in T
        PROVE  k \in T
    <2>1. patch[k] \in PatchLines /\ k \in 0 .. n
      BY <1>1 DEF n
    <2> QED
      BY <1>7, <1>9, <2>1, ParseLineType
  <1> HIDE DEF T
  <1>10. \A k \in 0 .. n : k \in T
    BY <1>1, <1>8, <1>9, PrefixInduction DEF Inductive
  <1>11. q \in [0 .. n -> Parsers]
    BY <1>5, <1>10 DEF T
  <1> QED
    BY <1>6, <1>7, <1>11 DEF n, base, q

\* The hunk of a line is its own line, or that of the line before.
LEMMA HunkFacts ==
    ASSUME NEW patch \in Seq(PatchLines)
    PROVE  /\ HunkOf(patch, 0) = 0
           /\ \A i \in 1 .. Len(patch) :
                HunkOf(patch, i) = IF OpensHunk(patch[i]) THEN i ELSE HunkOf(patch, i - 1)
           /\ \A i \in 0 .. Len(patch) : HunkOf(patch, i) \in 0 .. i
  <1> DEFINE above(i) == {j \in 1 .. i : OpensHunk(patch[j])}
             n == Len(patch)
             h(i) == HunkOf(patch, i)
             T == {k \in 0 .. n : h(k) \in 0 .. k}
  <1>1. h(0) = 0
    BY DEF HunkOf
  <1>2. ASSUME NEW i \in 1 .. n
        PROVE  h(i) = IF OpensHunk(patch[i]) THEN i ELSE h(i - 1)
    <2>1. CASE OpensHunk(patch[i])
      <3>1. i \in above(i) /\ \A j \in above(i) : j \in Nat /\ j <= i
        BY <2>1
      <3>2. h(i) = CHOOSE j \in above(i) : \A k \in above(i) : j >= k
        BY <3>1 DEF HunkOf, Max
      <3> HIDE DEF above
      <3>3. \A j \in above(i) : (\A k \in above(i) : j >= k) => j = i
        BY <3>1
      <3> QED
        BY <2>1, <3>1, <3>2, <3>3
    <2>2. CASE ~OpensHunk(patch[i])
      <3>1. above(i) = above(i - 1)
        BY <2>2
      <3> QED
        BY <2>2, <3>1 DEF HunkOf
    <2> QED
      BY <2>1, <2>2
  <1> HIDE DEF h
  <1>3. \A k \in 0 .. n : k \in T
    <2>1. n \in Nat /\ 0 \in T
      BY <1>1
    <2>2. ASSUME NEW k \in 1 .. n, k - 1 \in T
          PROVE  k \in T
      BY <1>2, <2>2
    <2>3. Inductive(T, n)
      BY <2>1, <2>2 DEF Inductive
    <2> HIDE DEF T, n
    <2> QED
      BY <2>1, <2>3, PrefixInduction
  <1> QED
    BY <1>1, <1>2, <1>3 DEF h

\* A line of the new file that the parser counts.
Counted(patch, h, i) ==
    {j \in h .. i : InNewFile(patch[j])}

LEMMA CountFacts ==
    ASSUME NEW patch \in Seq(PatchLines), NEW i \in 1 .. Len(patch), NEW h \in 1 .. Len(patch)
    PROVE  /\ IsFiniteSet(Counted(patch, h, i)) /\ Cardinality(Counted(patch, h, i)) \in Nat
           /\ OpensHunk(patch[i]) => Cardinality(Counted(patch, i, i)) = 0
           /\ h < i => Cardinality(Counted(patch, h, i))
                          = Cardinality(Counted(patch, h, i - 1))
                              + (IF InNewFile(patch[i]) THEN 1 ELSE 0)
  <1> DEFINE C(k) == Counted(patch, h, k)
  <1>1. \A k \in Nat : IsFiniteSet(C(k))
    <2> SUFFICES ASSUME NEW k \in Nat
                 PROVE  IsFiniteSet(C(k))
      OBVIOUS
    <2>1. IsFiniteSet(h .. k) /\ C(k) \subseteq h .. k
      BY FS_Interval DEF Counted
    <2> QED
      BY <2>1, FS_Subset
  <1>2. \A k \in Nat : Cardinality(C(k)) \in Nat
    BY <1>1, FS_CardinalityType
  <1>3. OpensHunk(patch[i]) => Counted(patch, i, i) = {}
    BY DEF Counted, OpensHunk, InNewFile
  <1>4. ASSUME h < i
        PROVE  Cardinality(C(i)) = Cardinality(C(i - 1))
                   + (IF InNewFile(patch[i]) THEN 1 ELSE 0)
    <2>1. i - 1 \in Nat /\ i \notin C(i - 1)
      BY DEF Counted
    <2>2. C(i) = IF InNewFile(patch[i]) THEN C(i - 1) \union {i} ELSE C(i - 1)
      BY <1>4 DEF Counted
    <2> HIDE DEF C
    <2>3. Cardinality(C(i - 1) \union {i}) = Cardinality(C(i - 1)) + 1
      BY <1>1, <2>1, FS_AddElement
    <2>4. CASE InNewFile(patch[i])
      BY <2>2, <2>3, <2>4
    <2>5. CASE ~InNewFile(patch[i])
      BY <1>2, <2>1, <2>2, <2>5
    <2> QED
      BY <2>4, <2>5
  <1>5. IsFiniteSet(C(i)) /\ Cardinality(C(i)) \in Nat
    BY <1>1, <1>2
  <1>6. OpensHunk(patch[i]) => Cardinality(Counted(patch, i, i)) = 0
    BY <1>3, FS_EmptySet
  <1> QED
    BY <1>4, <1>5, <1>6
\* While the parser is in a hunk, it stands at the number of the next line of
\* the new file, unless it has misread the patch.
LEMMA ParserIsFaithful ==
    ASSUME NEW patch \in Seq(PatchLines), ~Misread(patch)
    PROVE  ParseChangedLines(patch) \subseteq ReallyAdded(patch)
  <1> DEFINE n == Len(patch)
             q == Parsed(patch)
             h(k) == HunkOf(patch, k)
             At(k) == q[k].line > 0 =>
                        /\ h(k) # 0
                        /\ q[k].line = patch[h(k)].start + Cardinality(Counted(patch, h(k), k))
             T == {k \in 0 .. n : At(k) /\ q[k].changed \subseteq ReallyAdded(patch)}
  <1>1. /\ n \in Nat
        /\ q \in [0 .. n -> Parsers] /\ q[0] = [line |-> 0, changed |-> {}]
        /\ \A i \in 1 .. n : q[i] = ParseLine(q[i - 1], patch[i])
    BY ParsedFacts
  <1>2. h(0) = 0 /\ \A i \in 0 .. n : h(i) \in 0 .. i
    BY HunkFacts
  <1>3. \A i \in 1 .. n : h(i) = IF OpensHunk(patch[i]) THEN i ELSE h(i - 1)
    BY HunkFacts
  <1>4. \A i \in 1 .. n :
          /\ patch[i] \in PatchLines /\ patch[i].kind # "plusplus"
          /\ OpensHunk(patch[i]) <=> patch[i].kind = "hunk"
          /\ InNewFile(patch[i]) <=> patch[i].kind \in {"add", "context"}
    BY DEF Misread, OpensHunk, InNewFile
  <1>5. 0 \in T
    BY <1>1
  <1>6. ASSUME NEW k \in 1 .. n, k - 1 \in T
        PROVE  k \in T
    <2> DEFINE s == q[k - 1]
               l == patch[k]
               g == h(k - 1)
    <2>1. /\ s \in Parsers /\ At(k - 1) /\ s.changed \subseteq ReallyAdded(patch)
          /\ l \in PatchLines /\ l.kind # "plusplus" /\ q[k] = ParseLine(s, l)
          /\ OpensHunk(l) <=> l.kind = "hunk"
          /\ InNewFile(l) <=> l.kind \in {"add", "context"}
      BY <1>1, <1>4, <1>6
    <2>2. g \in 0 .. k - 1 /\ k - 1 \in 0 .. n /\ k \in 0 .. n
      BY <1>1, <1>2
    <2>3. CASE l.kind = "hunk"
      <3>1. q[k] = [line |-> l.start, changed |-> s.changed]
        BY <2>1, <2>3 DEF ParseLine, Parsers
      <3>2. h(k) = k /\ Cardinality(Counted(patch, k, k)) = 0 /\ l.start \in Nat
        BY <1>3, <2>1, <2>3, CountFacts DEF PatchLines
      <3> QED
        BY <2>1, <2>2, <3>1, <3>2
    <2>4. CASE l.kind # "hunk" /\ s.line = 0
      <3>1. q[k] = s
        BY <2>1, <2>4 DEF ParseLine
      <3> QED
        BY <2>1, <2>2, <2>4, <3>1
    <2>5. CASE l.kind # "hunk" /\ s.line > 0
      <3>1. h(k) = g /\ g # 0 /\ g \in 1 .. n /\ g < k
            /\ s.line = patch[g].start + Cardinality(Counted(patch, g, k - 1))
        BY <1>1, <1>3, <2>1, <2>2, <2>5
      <3>2. /\ Cardinality(Counted(patch, g, k)) \in Nat
            /\ patch[g].start \in Nat
        BY <1>4, <3>1, CountFacts DEF PatchLines
      <3>3. Cardinality(Counted(patch, g, k)) = Cardinality(Counted(patch, g, k - 1))
                + (IF InNewFile(l) THEN 1 ELSE 0)
        BY <3>1, CountFacts
      <3>4. Cardinality(Counted(patch, g, k - 1)) \in Nat
        <4>1. IsFiniteSet(g .. k - 1) /\ Counted(patch, g, k - 1) \subseteq g .. k - 1
          BY <3>1, FS_Interval DEF Counted
        <4> QED
          BY <4>1, FS_Subset, FS_CardinalityType
      <3>5. CASE l.kind = "add"
        <4>1. q[k] = [line |-> s.line + 1, changed |-> s.changed \union {s.line}]
          BY <2>1, <2>5, <3>5 DEF ParseLine
        <4>2. s.line = NewLineNumber(patch, k)
          BY <3>1 DEF NewLineNumber, Counted
        <4>3. s.line \in ReallyAdded(patch)
          <5>1. k \in DOMAIN patch /\ InNewFile(l) /\ l.kind # "context" /\ HunkOf(patch, k) # 0
            BY <2>1, <3>1, <3>5
          <5> QED
            BY <4>2, <5>1 DEF ReallyAdded
        <4>4. q[k].line = patch[g].start + Cardinality(Counted(patch, g, k))
          <5>1. Cardinality(Counted(patch, g, k)) = Cardinality(Counted(patch, g, k - 1)) + 1
            BY <2>1, <3>3, <3>5
          <5>2. q[k].line = s.line + 1
            BY <4>1
          <5> QED
            BY <3>1, <3>2, <3>4, <5>1, <5>2
        <4> HIDE DEF q, h
        <4>5. At(k) /\ q[k].changed \subseteq ReallyAdded(patch)
          BY <2>1, <3>1, <4>1, <4>3, <4>4
        <4> QED
          BY <2>2, <4>5
      <3>6. CASE l.kind = "context"
        <4>1. q[k] = [line |-> s.line + 1, changed |-> s.changed]
          BY <2>1, <2>5, <3>6 DEF ParseLine, Parsers
        <4>2. q[k].line = patch[g].start + Cardinality(Counted(patch, g, k))
          <5>1. Cardinality(Counted(patch, g, k)) = Cardinality(Counted(patch, g, k - 1)) + 1
            BY <2>1, <3>3, <3>6
          <5>2. q[k].line = s.line + 1
            BY <4>1
          <5> QED
            BY <3>1, <3>2, <3>4, <5>1, <5>2
        <4> HIDE DEF q, h
        <4> QED
          BY <2>1, <2>2, <3>1, <4>1, <4>2
      <3>7. CASE l.kind \notin {"add", "context"}
        <4>1. q[k] = s
          BY <2>1, <2>5, <3>7 DEF ParseLine
        <4>2. Cardinality(Counted(patch, g, k)) = Cardinality(Counted(patch, g, k - 1))
          BY <2>1, <3>3, <3>4, <3>7
        <4> HIDE DEF q, h
        <4> QED
          BY <2>1, <2>2, <3>1, <4>1, <4>2
      <3> QED
        BY <3>5, <3>6, <3>7
    <2>6. s.line \in Nat
      BY <2>1 DEF Parsers
    <2> QED
      BY <2>3, <2>4, <2>5, <2>6
  <1>7. Inductive(T, n)
    BY <1>5, <1>6 DEF Inductive
  <1> HIDE DEF T
  <1>8. n \in T
    BY <1>1, <1>7, PrefixInduction
  <1> QED
    BY <1>8 DEF T, ParseChangedLines
-----------------------------------------------------------------------------
(* The batches.                                                            *)

OneBatch == [files : Seq(Nat), bytes : Nat]

Plans == [batches : Seq(OneBatch), open : OneBatch, reviewed : Seq(Nat), omitted : Seq(Nat)]

NoPlan == [batches |-> <<>>, open |-> NoBatch, reviewed |-> <<>>, omitted |-> <<>>]

LEMMA FlushType == \A plan \in Plans : Flush(plan) \in Plans
  BY DEF Flush, Plans, OneBatch, NoBatch

LEMMA PackType ==
    ASSUME NEW plan \in Plans, NEW f \in ChangedFiles
    PROVE  Pack(plan, f) \in Plans
  <1>1. f.path \in Nat /\ f.size \in Nat
    BY DEF ChangedFiles
  <1>2. Omit(plan, f) \in Plans
    BY <1>1 DEF Omit, Plans
  <1>3. ASSUME NEW p \in Plans, NEW b \in Nat
        PROVE  Join(p, f, b) \in Plans
    BY <1>1 DEF Join, Plans, OneBatch
  <1>4. plan.open.bytes \in Nat
    BY DEF Plans, OneBatch
  <1>5. \A sep \in {0, 1} : plan.open.bytes + sep + f.size \in Nat
    BY <1>1, <1>4
  <1> QED
    BY <1>1, <1>2, <1>3, <1>5, FlushType DEF Pack

\* Packed starts with no batch and packs one file after the other.
LEMMA PackedFacts ==
    ASSUME NEW files \in Seq(ChangedFiles)
    PROVE  /\ Packed(files) \in [0 .. Len(files) -> Plans]
           /\ Packed(files)[0] = NoPlan
           /\ \A i \in 1 .. Len(files) :
                Packed(files)[i] = Pack(Packed(files)[i - 1], files[i])
  <1> DEFINE n == Len(files)
             step == [i \in 1 .. n |-> [s \in Plans |-> Pack(s, files[i])]]
  <1>1. /\ n \in Nat /\ NoPlan \in Plans
        /\ \A i \in 1 .. n, s \in Plans : step[i][s] = Pack(s, files[i]) /\ step[i][s] \in Plans
    <2>1. n \in Nat /\ \A i \in 1 .. n : files[i] \in ChangedFiles
      OBVIOUS
    <2>2. NoPlan \in Plans
      BY DEF Plans, NoPlan, NoBatch, OneBatch
    <2>3. ASSUME NEW i \in 1 .. n, NEW s \in Plans
          PROVE  step[i][s] = Pack(s, files[i]) /\ step[i][s] \in Plans
      BY <2>1, PackType
    <2> HIDE DEF n, step
    <2> QED
      BY <2>1, <2>2, <2>3
  <1> HIDE DEF n, step
  <1>2. PICK p : Folds(p, step, n, NoPlan, Plans)
    <2>1. Maps(step, n, Plans)
      BY <1>1 DEF Maps
    <2> QED
      BY <1>1, <2>1, FoldExists
  <1>3. ASSUME NEW i \in 1 .. n
        PROVE  p[i] = Pack(p[i - 1], files[i])
    BY <1>1, <1>2 DEF Folds
  <1>4. p = [i \in 0 .. n |->
                IF i = 0 THEN [batches |-> <<>>, open |-> NoBatch, reviewed |-> <<>>, omitted |-> <<>>]
                ELSE Pack(p[i - 1], files[i])]
    BY <1>1, <1>2, <1>3 DEF Folds, NoPlan
  <1> DEFINE q == Packed(files)
  <1>5. q = [i \in 0 .. n |->
                IF i = 0 THEN [batches |-> <<>>, open |-> NoBatch, reviewed |-> <<>>, omitted |-> <<>>]
                ELSE Pack(q[i - 1], files[i])]
    BY <1>4 DEF Packed, n
  <1> HIDE DEF q
  <1>6. q[0] = NoPlan
    BY <1>1, <1>5 DEF NoPlan
  <1>7. ASSUME NEW i \in 1 .. n
        PROVE  q[i] = Pack(q[i - 1], files[i])
    <2>1. i \in 0 .. n /\ i # 0
      BY <1>1
    <2> QED
      BY <1>5, <2>1
  <1> DEFINE T == {k \in 0 .. n : q[k] \in Plans}
  <1>8. 0 \in T
    BY <1>1, <1>6
  <1>9. ASSUME NEW k \in 1 .. n, k - 1 \in T
        PROVE  k \in T
    <2>1. files[k] \in ChangedFiles /\ k \in 0 .. n
      BY <1>1 DEF n
    <2> QED
      BY <1>7, <1>9, <2>1, PackType
  <1> HIDE DEF T
  <1>10. \A k \in 0 .. n : k \in T
    BY <1>1, <1>8, <1>9, PrefixInduction DEF Inductive
  <1>11. q \in [0 .. n -> Plans]
    BY <1>5, <1>10 DEF T
  <1> QED
    BY <1>6, <1>7, <1>11 DEF n, q

LEMMA PositionFacts ==
    ASSUME NEW files \in Seq(ChangedFiles), DistinctPaths(files), NEW m \in DOMAIN files
    PROVE  Position(files, files[m].path) = m
  BY DEF Position, DistinctPaths

\* Paths that stand in the list.
Listed(files, paths) == paths \in Seq(Nat) /\ \A a \in 1 .. Len(paths) : \E i \in DOMAIN files : files[i].path = paths[a]

\* Sizes starts with 0 and adds the sections one after the other.
LEMMA SizesFacts ==
    ASSUME NEW files \in Seq(ChangedFiles), DistinctPaths(files), NEW ps, Listed(files, ps)
    PROVE  /\ Sizes(files, ps)[0] = 0
           /\ \A i \in 1 .. Len(ps) : Sizes(files, ps)[i] = Sizes(files, ps)[i - 1] + Growth(files, ps, i)
           /\ \A i \in 1 .. Len(ps) : Growth(files, ps, i) \in Nat
           /\ \A i \in 0 .. Len(ps) : Sizes(files, ps)[i] \in Nat
  <1> DEFINE n == Len(ps)
             g(i) == Growth(files, ps, i)
             step == [i \in 1 .. n |-> [v \in Nat |-> v + g(i)]]
             q == Sizes(files, ps)
             T == {i \in 0 .. n : q[i] \in Nat}
  <1>1. n \in Nat /\ 0 \in Nat
    BY DEF Listed
  <1>2. ASSUME NEW i \in 1 .. n
        PROVE  g(i) \in Nat
    <2>1. PICK j \in DOMAIN files : files[j].path = ps[i]
      BY DEF Listed
    <2>2. files[j] \in ChangedFiles /\ Position(files, ps[i]) = j
      BY <2>1, PositionFacts
    <2> QED
      BY <2>2 DEF ChangedFiles, Growth
  <1> HIDE DEF g
  <1>3. ASSUME NEW i \in 1 .. n, NEW v \in Nat
        PROVE  step[i][v] = v + g(i) /\ step[i][v] \in Nat
    BY <1>2
  <1> HIDE DEF n, step, q, T
  <1>4. PICK p : Folds(p, step, n, 0, Nat)
    <2>1. Maps(step, n, Nat)
      BY <1>3 DEF Maps
    <2> QED
      BY <1>1, <2>1, FoldExists
  <1>5. ASSUME NEW i \in 1 .. n
        PROVE  p[i] = p[i - 1] + g(i)
    <2>1. i - 1 \in 0 .. n /\ p[i - 1] \in Nat
      BY <1>1, <1>4 DEF Folds
    <2> QED
      BY <1>3, <1>4, <2>1 DEF Folds
  <1>6. p = [i \in 0 .. n |-> IF i = 0 THEN 0 ELSE p[i - 1] + g(i)]
    BY <1>1, <1>4, <1>5 DEF Folds
  <1>7. q = [i \in 0 .. n |-> IF i = 0 THEN 0 ELSE q[i - 1] + g(i)]
    BY <1>6 DEF Sizes, n, g, q
  <1>8. q[0] = 0
    BY <1>1, <1>7
  <1>9. ASSUME NEW i \in 1 .. n
        PROVE  q[i] = q[i - 1] + g(i)
    <2>1. i \in 0 .. n /\ i # 0
      BY <1>1
    <2> QED
      BY <1>7, <2>1
  <1>10. Inductive(T, n)
    <2>1. 0 \in T
      BY <1>1, <1>8 DEF T
    <2>2. ASSUME NEW i \in 1 .. n, i - 1 \in T
          PROVE  i \in T
      <3>1. q[i - 1] \in Nat /\ g(i) \in Nat /\ i \in 0 .. n
        BY <1>1, <1>2, <2>2 DEF T
      <3>2. q[i] \in Nat
        BY <1>9, <3>1
      <3> QED
        BY <3>1, <3>2 DEF T
    <2> QED
      BY <2>1, <2>2 DEF Inductive
  <1>11. \A i \in 0 .. n : q[i] \in Nat
    BY <1>1, <1>10, PrefixInduction DEF T
  <1> QED
    BY <1>2, <1>8, <1>9, <1>11 DEF n, q, g

\* The bytes of a batch that a section is added to.
LEMMA SizeFacts ==
    ASSUME NEW files \in Seq(ChangedFiles), DistinctPaths(files),
           NEW paths, Listed(files, paths), NEW m \in DOMAIN files
    PROVE  /\ SizeOf(files, paths) \in Nat
           /\ Listed(files, Append(paths, files[m].path))
           /\ SizeOf(files, Append(paths, files[m].path))
                = SizeOf(files, paths) + (IF paths = <<>> THEN 0 ELSE 1) + files[m].size
  <1> DEFINE p == files[m].path
             long == Append(paths, p)
             n == Len(paths)
             old == Sizes(files, paths)
             new == Sizes(files, long)
             g(i) == Growth(files, paths, i)
             h(i) == Growth(files, long, i)
             T == {i \in 0 .. n : new[i] = old[i]}
  <1>1. p \in Nat /\ files[m].size \in Nat /\ Position(files, p) = m
    <2>1. files[m] \in ChangedFiles
      OBVIOUS
    <2> QED
      BY <2>1, PositionFacts DEF ChangedFiles
  <1> HIDE DEF p
  <1>2. /\ n \in Nat /\ Len(long) = n + 1 /\ long[n + 1] = p /\ long \in Seq(Nat)
        /\ \A i \in 1 .. n : long[i] = paths[i]
    BY <1>1 DEF Listed
  <1>3. Listed(files, long)
    <2> SUFFICES ASSUME NEW a \in 1 .. n + 1
                 PROVE  \E i \in DOMAIN files : files[i].path = long[a]
      BY <1>2 DEF Listed
    <2>1. CASE a = n + 1
      BY <1>2, <2>1 DEF p
    <2>2. CASE a # n + 1
      BY <1>2, <2>2 DEF Listed
    <2> QED
      BY <2>1, <2>2
  <1> HIDE DEF n, long
  <1>4. /\ old[0] = 0
        /\ \A i \in 1 .. n : old[i] = old[i - 1] + g(i)
        /\ \A i \in 0 .. n : old[i] \in Nat
    BY SizesFacts DEF n
  <1>5. /\ new[0] = 0
        /\ \A i \in 1 .. n + 1 : new[i] = new[i - 1] + h(i)
    BY <1>2, <1>3, SizesFacts
  <1>6. \A i \in 1 .. n : g(i) = h(i)
    BY <1>2 DEF Growth
  <1> HIDE DEF g, old, new, T
  <1>7. Inductive(T, n)
    <2>1. 0 \in T
      BY <1>2, <1>4, <1>5 DEF T
    <2>2. ASSUME NEW i \in 1 .. n, i - 1 \in T
          PROVE  i \in T
      <3>1. i \in 1 .. n + 1 /\ i \in 0 .. n /\ new[i - 1] = old[i - 1]
        BY <1>2, <2>2 DEF T
      <3>2. new[i] = old[i]
        <4>1. new[i] = new[i - 1] + h(i) /\ old[i] = old[i - 1] + g(i) /\ g(i) = h(i)
          BY <1>4, <1>5, <1>6, <3>1
        <4> QED
          BY <3>1, <4>1
      <3> QED
        BY <3>1, <3>2 DEF T
    <2> QED
      BY <2>1, <2>2 DEF Inductive
  <1>8. new[n] = old[n]
    BY <1>2, <1>7, PrefixInduction DEF T
  <1>9. new[n + 1] = old[n] + h(n + 1)
    <2>1. n + 1 \in 1 .. n + 1 /\ (n + 1) - 1 = n
      BY <1>2
    <2> QED
      BY <1>5, <1>8, <2>1
  <1>10. h(n + 1) = (IF paths = <<>> THEN 0 ELSE 1) + files[m].size
    <2>1. n + 1 = 1 <=> paths = <<>>
      BY DEF Listed, n
    <2> QED
      BY <1>1, <1>2, <2>1 DEF Growth
  <1>11. /\ SizeOf(files, paths) = old[n]
         /\ SizeOf(files, Append(paths, files[m].path)) = new[n + 1]
    BY <1>2 DEF SizeOf, n, old, new, long, p
  <1>12. old[n] + h(n + 1) = old[n] + (IF paths = <<>> THEN 0 ELSE 1) + files[m].size
    <2>1. old[n] \in Nat
      BY <1>2, <1>4
    <2>2. CASE paths = <<>>
      BY <1>1, <1>10, <2>1, <2>2
    <2>3. CASE paths # <<>>
      BY <1>1, <1>10, <2>1, <2>3
    <2> QED
      BY <2>2, <2>3
  <1> QED
    BY <1>2, <1>3, <1>4, <1>9, <1>11, <1>12 DEF p, long

\* What there is of batches before the first file, and the open one is never
\* forgotten.
Opened(plan) ==
    /\ plan.open.files = <<>> => plan.open.bytes = 0 /\ plan.batches = <<>>

\* The batches so far, the open one included.
AllBatches(plan) == Flush(plan).batches

OpensWith(f) == [files |-> <<f.path>>, bytes |-> f.size]

GrowsBy(b, f) == [files |-> Append(b.files, f.path), bytes |-> b.bytes + 1 + f.size]

\* A file that cannot be shown is omitted.
LEMMA PackOmits ==
    ASSUME NEW plan \in Plans, NEW f \in ChangedFiles, ~Packable(f), Opened(plan)
    PROVE  /\ Opened(Pack(plan, f))
           /\ AllBatches(Pack(plan, f)) = AllBatches(plan)
           /\ Pack(plan, f).reviewed = plan.reviewed
           /\ Pack(plan, f).omitted = Append(plan.omitted, f.path)
  <1>1. Pack(plan, f) = Omit(plan, f)
    BY DEF Pack
  <1>2. /\ Omit(plan, f).open = plan.open /\ Omit(plan, f).batches = plan.batches
        /\ Omit(plan, f).reviewed = plan.reviewed
        /\ Omit(plan, f).omitted = Append(plan.omitted, f.path)
    BY DEF Omit
  <1>3. AllBatches(Omit(plan, f)) = AllBatches(plan)
    BY <1>2 DEF AllBatches, Flush
  <1> QED
    BY <1>1, <1>2, <1>3 DEF Opened

\* A file that can be shown opens a batch, which nothing or a full one is before,
\* or joins the last.
LEMMA PackShows ==
    ASSUME NEW plan \in Plans, NEW f \in ChangedFiles, Packable(f), Opened(plan)
    PROVE  /\ Opened(Pack(plan, f))
           /\ Pack(plan, f).reviewed = Append(plan.reviewed, f.path)
           /\ Pack(plan, f).omitted = plan.omitted
           /\ \/ /\ AllBatches(plan) = <<>>
                 /\ AllBatches(Pack(plan, f)) = <<OpensWith(f)>>
              \/ \E C \in Seq(OneBatch), b \in OneBatch :
                    /\ AllBatches(plan) = Append(C, b)
                    /\ b.bytes + 1 + f.size > MaxBytes
                    /\ AllBatches(Pack(plan, f)) = Append(Append(C, b), OpensWith(f))
              \/ \E C \in Seq(OneBatch), b \in OneBatch :
                    /\ AllBatches(plan) = Append(C, b)
                    /\ b.bytes + 1 + f.size <= MaxBytes
                    /\ AllBatches(Pack(plan, f)) = Append(C, GrowsBy(b, f))
  <1> DEFINE o == plan.open
             new == Pack(plan, f)
  <1>1. /\ f.path \in Nat /\ f.size \in Nat /\ o \in OneBatch /\ plan.batches \in Seq(OneBatch)
        /\ o.files \in Seq(Nat) /\ o.bytes \in Nat
    BY DEF ChangedFiles, Plans, OneBatch
  <1>2. CASE o.files = <<>>
    <2>1. new = Join(plan, f, f.size)
      <3>1. o.bytes = 0
        BY <1>2 DEF Opened
      <3>2. 0 + 0 + f.size = f.size
        BY <1>1
      <3> QED
        BY <1>2, <3>1, <3>2 DEF Pack
    <2>2. /\ new.batches = <<>> /\ new.open = OpensWith(f)
          /\ new.reviewed = Append(plan.reviewed, f.path) /\ new.omitted = plan.omitted
      BY <1>2, <2>1 DEF Join, OpensWith, Opened
    <2>3. new.open.files # <<>> /\ Append(new.batches, new.open) = <<OpensWith(f)>>
      BY <2>2 DEF OpensWith
    <2>4. AllBatches(plan) = <<>> /\ AllBatches(new) = <<OpensWith(f)>>
      BY <1>2, <2>3 DEF AllBatches, Flush, Opened
    <2> QED
      BY <2>2, <2>3, <2>4 DEF Opened
  <1>3. CASE o.files # <<>> /\ o.bytes + 1 + f.size > MaxBytes
    <2>1. Flush(plan) = [batches |-> Append(plan.batches, o), open |-> NoBatch,
                         reviewed |-> plan.reviewed, omitted |-> plan.omitted]
      BY <1>3 DEF Flush
    <2>2. new = Join(Flush(plan), f, f.size)
      BY <1>3 DEF Pack
    <2>3. /\ new.batches = Append(plan.batches, o)
          /\ new.open = [files |-> Append(<<>>, f.path), bytes |-> f.size]
          /\ new.reviewed = Append(plan.reviewed, f.path) /\ new.omitted = plan.omitted
      BY <2>1, <2>2 DEF Join, NoBatch
    <2>4. new.open = OpensWith(f) /\ new.open.files # <<>>
      BY <2>3 DEF OpensWith
    <2>5. AllBatches(plan) = Append(plan.batches, o)
      BY <2>1 DEF AllBatches
    <2>6. AllBatches(new) = Append(Append(plan.batches, o), OpensWith(f))
      BY <2>3, <2>4 DEF AllBatches, Flush
    <2> QED
      BY <1>1, <1>3, <2>3, <2>4, <2>5, <2>6 DEF Opened
  <1>4. CASE o.files # <<>> /\ ~(o.bytes + 1 + f.size > MaxBytes)
    <2>1. new = Join(plan, f, o.bytes + 1 + f.size)
      BY <1>4 DEF Pack
    <2>2. /\ new.batches = plan.batches /\ new.open = GrowsBy(o, f)
          /\ new.reviewed = Append(plan.reviewed, f.path) /\ new.omitted = plan.omitted
      BY <2>1 DEF Join, GrowsBy
    <2>3. new.open.files # <<>>
      <3>1. Append(o.files, f.path) # <<>>
        BY <1>1
      <3> QED
        BY <2>2, <3>1 DEF GrowsBy
    <2>4. AllBatches(plan) = Append(plan.batches, o) /\ AllBatches(new) = Append(plan.batches, GrowsBy(o, f))
      BY <1>4, <2>2, <2>3 DEF AllBatches, Flush
    <2>5. o.bytes + 1 + f.size <= MaxBytes
      BY <1>1, <1>4, BytesAssumption
    <2> QED
      BY <1>1, <2>2, <2>3, <2>4, <2>5 DEF Opened
  <1> QED
    BY <1>2, <1>3, <1>4

-----------------------------------------------------------------------------
(* What the batches hold of the first k files.                             *)

\* The paths of the first k files that can, or cannot, be shown.
Shown(files, k) == {files[m].path : m \in {i \in 1 .. k : Packable(files[i])}}
NotShown(files, k) == {files[m].path : m \in {i \in 1 .. k : ~Packable(files[i])}}

\* A batch is not empty and as long as it says, within the limit.
Sound(files, k, b) ==
    /\ b \in OneBatch
    /\ b.files # <<>>
    /\ Listed(files, b.files)
    /\ \A a \in 1 .. Len(b.files) : b.files[a] \in Shown(files, k)
    /\ b.bytes = SizeOf(files, b.files)
    /\ b.bytes <= MaxBytes

\* Every file that can be shown is in one.
Covering(files, k, B) ==
    \A p \in Shown(files, k) : \E i \in 1 .. Len(B) : \E a \in 1 .. Len(B[i].files) : B[i].files[a] = p

\* The files stand in the order of the list.
Ordered(files, B) ==
    \A i, j \in 1 .. Len(B) : \A a \in 1 .. Len(B[i].files), b \in 1 .. Len(B[j].files) :
        i < j \/ (i = j /\ a < b) => Position(files, B[i].files[a]) < Position(files, B[j].files[b])

\* The first file of a batch did not fit in the one before.
Tight(files, B) ==
    \A i \in 1 .. Len(B) - 1 : SizeOf(files, Append(B[i].files, Head(B[i + 1].files))) > MaxBytes

Faithful(files, k, B) ==
    /\ B \in Seq(OneBatch)
    /\ \A i \in 1 .. Len(B) : Sound(files, k, B[i])
    /\ Covering(files, k, B)
    /\ Ordered(files, B)
    /\ Tight(files, B)

\* The file after the first k.
LEMMA ShownFacts ==
    ASSUME NEW files \in Seq(ChangedFiles), DistinctPaths(files), NEW k \in 1 .. Len(files)
    PROVE  /\ Packable(files[k]) =>
                /\ Shown(files, k) = Shown(files, k - 1) \union {files[k].path}
                /\ NotShown(files, k) = NotShown(files, k - 1)
           /\ ~Packable(files[k]) =>
                /\ Shown(files, k) = Shown(files, k - 1)
                /\ NotShown(files, k) = NotShown(files, k - 1) \union {files[k].path}
           /\ \A p \in Shown(files, k) : Position(files, p) \in 1 .. k
           /\ Position(files, files[k].path) = k
  <1>1. 1 .. k = (1 .. k - 1) \union {k}
    OBVIOUS
  <1>2. \A p \in Shown(files, k) : Position(files, p) \in 1 .. k
    BY PositionFacts DEF Shown
  <1>3. Position(files, files[k].path) = k
    BY PositionFacts
  <1>4. Packable(files[k]) =>
                /\ Shown(files, k) = Shown(files, k - 1) \union {files[k].path}
                /\ NotShown(files, k) = NotShown(files, k - 1)
    BY <1>1 DEF Shown, NotShown
  <1>5. ~Packable(files[k]) =>
                /\ Shown(files, k) = Shown(files, k - 1)
                /\ NotShown(files, k) = NotShown(files, k - 1) \union {files[k].path}
    BY <1>1 DEF Shown, NotShown
  <1> QED
    BY <1>2, <1>3, <1>4, <1>5

\* The files of x stand after those of C.
Follows(files, C, x) ==
    \A i \in 1 .. Len(C) : \A a \in 1 .. Len(C[i].files), b \in 1 .. Len(x.files) :
        Position(files, C[i].files[a]) < Position(files, x.files[b])

Inner(files, x) ==
    \A a, b \in 1 .. Len(x.files) : a < b => Position(files, x.files[a]) < Position(files, x.files[b])

\* The order of batches, and their tightness, when one more is there.
LEMMA OrderedAppend ==
    ASSUME NEW files, NEW C \in Seq(OneBatch), NEW x \in OneBatch
    PROVE  Ordered(files, Append(C, x)) <=> Ordered(files, C) /\ Follows(files, C, x) /\ Inner(files, x)
  <1> DEFINE n == Len(C)
             A == Append(C, x)
             pos(p) == Position(files, p)
  <1>1. n \in Nat /\ Len(A) = n + 1 /\ A[n + 1] = x /\ \A i \in 1 .. n : A[i] = C[i]
    OBVIOUS
  <1> HIDE DEF n, A, pos
  <1>2. ASSUME Ordered(files, A)
        PROVE  Ordered(files, C) /\ Follows(files, C, x) /\ Inner(files, x)
    <2>1. Ordered(files, C)
      BY <1>1, <1>2 DEF Ordered, n
    <2>2. Follows(files, C, x)
      <3> SUFFICES ASSUME NEW i \in 1 .. n, NEW a \in 1 .. Len(C[i].files), NEW b \in 1 .. Len(x.files)
                   PROVE  Position(files, C[i].files[a]) < Position(files, x.files[b])
        BY DEF Follows, n
      <3>1. i \in 1 .. n + 1 /\ n + 1 \in 1 .. n + 1 /\ i < n + 1 /\ A[i] = C[i]
        BY <1>1
      <3> QED
        BY <1>1, <1>2, <3>1 DEF Ordered
    <2>3. Inner(files, x)
      <3>1. n + 1 \in 1 .. n + 1
        BY <1>1
      <3> QED
        BY <1>1, <1>2, <3>1 DEF Ordered, Inner
    <2> QED
      BY <2>1, <2>2, <2>3
  <1>3. ASSUME Ordered(files, C), Follows(files, C, x), Inner(files, x)
        PROVE  Ordered(files, A)
    <2> SUFFICES ASSUME NEW i \in 1 .. n + 1, NEW j \in 1 .. n + 1,
                        NEW a \in 1 .. Len(A[i].files), NEW b \in 1 .. Len(A[j].files),
                        i < j \/ (i = j /\ a < b)
                 PROVE  Position(files, A[i].files[a]) < Position(files, A[j].files[b])
      BY <1>1 DEF Ordered
    <2>1. CASE j \in 1 .. n
      <3>1. i \in 1 .. n /\ A[i] = C[i] /\ A[j] = C[j]
        BY <1>1, <2>1
      <3> QED
        BY <1>3, <2>1, <3>1 DEF Ordered, n
    <2>2. CASE j = n + 1 /\ i \in 1 .. n
      <3>1. A[i] = C[i] /\ A[j] = x
        BY <1>1, <2>2
      <3> QED
        BY <1>3, <2>2, <3>1 DEF Follows, n
    <2>3. CASE j = n + 1 /\ i = n + 1
      <3>1. A[i] = x /\ A[j] = x /\ a < b
        BY <1>1, <2>3
      <3> QED
        BY <1>3, <3>1 DEF Inner
    <2> QED
      BY <1>1, <2>1, <2>2, <2>3
  <1> QED
    BY <1>2, <1>3 DEF A

LEMMA TightAppend ==
    ASSUME NEW files, NEW C \in Seq(OneBatch), NEW x \in OneBatch
    PROVE  Tight(files, Append(C, x)) <=>
                /\ Tight(files, C)
                /\ C # <<>> => SizeOf(files, Append(C[Len(C)].files, Head(x.files))) > MaxBytes
  <1> DEFINE n == Len(C)
             A == Append(C, x)
             over(i) == SizeOf(files, Append(A[i].files, Head(A[i + 1].files))) > MaxBytes
  <1>1. n \in Nat /\ Len(A) = n + 1 /\ A[n + 1] = x /\ \A i \in 1 .. n : A[i] = C[i]
    OBVIOUS
  <1>2. C # <<>> <=> n > 0
    OBVIOUS
  <1> HIDE DEF n, A
  <1>3. Tight(files, A) <=> \A i \in 1 .. n : over(i)
    BY <1>1 DEF Tight
  <1>4. Tight(files, C) <=> \A i \in 1 .. n - 1 : over(i)
    <2>1. \A i \in 1 .. n - 1 : i \in 1 .. n /\ i + 1 \in 1 .. n
      BY <1>1
    <2> QED
      BY <1>1, <2>1 DEF Tight, n
  <1>5. n > 0 => (over(n) <=> SizeOf(files, Append(C[n].files, Head(x.files))) > MaxBytes)
    BY <1>1
  <1> HIDE DEF over
  <1>6. (\A i \in 1 .. n : over(i)) <=> (\A i \in 1 .. n - 1 : over(i)) /\ (n > 0 => over(n))
    BY <1>1
  <1> QED
    BY <1>2, <1>3, <1>4, <1>5, <1>6 DEF A, n

\* A batch of the first k - 1 files is one of the first k.
LEMMA SoundLater ==
    ASSUME NEW files \in Seq(ChangedFiles), DistinctPaths(files), NEW k \in 1 .. Len(files),
           NEW b, Sound(files, k - 1, b)
    PROVE  Sound(files, k, b)
  BY ShownFacts DEF Sound

LEMMA FaithfulOmits ==
    ASSUME NEW files \in Seq(ChangedFiles), DistinctPaths(files), NEW k \in 1 .. Len(files),
           ~Packable(files[k]), NEW B, Faithful(files, k - 1, B)
    PROVE  Faithful(files, k, B)
  BY ShownFacts, SoundLater DEF Faithful, Covering

\* A batch that file k opens.
LEMMA OpenedIsSound ==
    ASSUME NEW files \in Seq(ChangedFiles), DistinctPaths(files), NEW k \in 1 .. Len(files),
           Packable(files[k])
    PROVE  Sound(files, k, OpensWith(files[k])) /\ Inner(files, OpensWith(files[k]))
  <1> DEFINE f == files[k]
             x == OpensWith(f)
  <1>1. f \in ChangedFiles /\ f.path \in Nat /\ f.size \in Nat /\ k \in DOMAIN files
    <2>1. f \in ChangedFiles /\ k \in DOMAIN files
      OBVIOUS
    <2> HIDE DEF f
    <2> QED
      BY <2>1 DEF ChangedFiles
  <1>2. x.files = <<f.path>> /\ x.bytes = f.size /\ x \in OneBatch
    BY <1>1 DEF OpensWith, OneBatch
  <1>3. Listed(files, <<>>) /\ Append(<<>>, f.path) = <<f.path>>
    BY DEF Listed
  <1>4. Listed(files, <<f.path>>) /\ SizeOf(files, <<f.path>>) = SizeOf(files, <<>>) + 0 + f.size
    BY <1>1, <1>3, SizeFacts
  <1>5. SizeOf(files, <<>>) = 0
    BY <1>3, SizesFacts DEF SizeOf
  <1>6. f.path \in Shown(files, k) /\ f.size <= MaxBytes
    BY ShownFacts DEF Packable
  <1> HIDE DEF f
  <1>7. SizeOf(files, <<f.path>>) = f.size
    BY <1>1, <1>4, <1>5
  <1>8. Sound(files, k, x)
    BY <1>2, <1>4, <1>6, <1>7 DEF Sound
  <1>9. Inner(files, x)
    BY <1>2 DEF Inner
  <1> QED
    BY <1>8, <1>9 DEF f

\* Any file of a batch of the first k - 1 stands before file k.
LEMMA StandsBefore ==
    ASSUME NEW files \in Seq(ChangedFiles), DistinctPaths(files), NEW k \in 1 .. Len(files),
           NEW b, Sound(files, k - 1, b), NEW a \in 1 .. Len(b.files)
    PROVE  Position(files, b.files[a]) < Position(files, files[k].path)
  <1>1. PICK m \in 1 .. k - 1 : files[m].path = b.files[a]
    BY DEF Sound, Shown
  <1>2. Position(files, b.files[a]) = m /\ Position(files, files[k].path) = k
    BY <1>1, PositionFacts
  <1> QED
    BY <1>1, <1>2

LEMMA FaithfulOpens ==
    ASSUME NEW files \in Seq(ChangedFiles), DistinctPaths(files), NEW k \in 1 .. Len(files),
           Packable(files[k]), NEW B, Faithful(files, k - 1, B),
           B # <<>> => B[Len(B)].bytes + 1 + files[k].size > MaxBytes
    PROVE  Faithful(files, k, Append(B, OpensWith(files[k])))
  <1> DEFINE f == files[k]
             x == OpensWith(f)
             A == Append(B, x)
             n == Len(B)
  <1>1. /\ B \in Seq(OneBatch) /\ Sound(files, k, x) /\ Inner(files, x)
        /\ x.files = <<f.path>> /\ x \in OneBatch
    BY OpenedIsSound DEF Faithful, Sound, OpensWith
  <1>2. \A i \in 1 .. n : Sound(files, k - 1, B[i]) /\ Sound(files, k, B[i])
    BY SoundLater DEF Faithful
  <1> HIDE DEF x
  <1>3. n \in Nat /\ A \in Seq(OneBatch) /\ Len(A) = n + 1 /\ A[n + 1] = x /\ \A i \in 1 .. n : A[i] = B[i]
    BY <1>1
  <1>4. \A i \in 1 .. Len(A) : Sound(files, k, A[i])
    BY <1>1, <1>2, <1>3
  <1>5. Covering(files, k, A)
    <2> SUFFICES ASSUME NEW p \in Shown(files, k)
                 PROVE  \E i \in 1 .. n + 1 : \E a \in 1 .. Len(A[i].files) : A[i].files[a] = p
      BY <1>3 DEF Covering
    <2>1. CASE p = f.path
      <3>1. n + 1 \in 1 .. n + 1 /\ 1 \in 1 .. Len(A[n + 1].files) /\ A[n + 1].files[1] = p
        <4> HIDE DEF A, f, n
        <4>1. A[n + 1].files = <<p>>
          BY <1>1, <1>3, <2>1
        <4> QED
          BY <1>3, <4>1
      <3> QED
        BY <3>1
    <2>2. CASE p \in Shown(files, k - 1)
      <3>1. PICK i \in 1 .. n : \E a \in 1 .. Len(B[i].files) : B[i].files[a] = p
        BY <2>2 DEF Faithful, Covering
      <3>2. i \in 1 .. n + 1 /\ A[i] = B[i]
        BY <1>3
      <3> QED
        BY <3>1, <3>2
    <2> QED
      BY <2>1, <2>2, ShownFacts
  <1>6. Ordered(files, A)
    <2>1. Follows(files, B, x)
      BY <1>1, <1>2, StandsBefore DEF Follows
    <2> QED
      BY <1>1, <2>1, OrderedAppend DEF Faithful
  <1>7. Tight(files, A)
    <2>1. ASSUME B # <<>>
          PROVE  SizeOf(files, Append(B[n].files, Head(x.files))) > MaxBytes
      <3>1. n \in 1 .. n /\ Head(x.files) = f.path
        BY <1>1, <2>1
      <3>2. /\ Sound(files, k - 1, B[n]) /\ Listed(files, B[n].files) /\ B[n].files # <<>>
            /\ SizeOf(files, B[n].files) = B[n].bytes
        BY <1>2, <3>1 DEF Sound
      <3>3. SizeOf(files, Append(B[n].files, f.path)) = B[n].bytes + 1 + f.size
        <4>1. k \in DOMAIN files
          OBVIOUS
        <4> HIDE DEF n
        <4> QED
          BY <3>2, <4>1, SizeFacts
      <3> QED
        BY <2>1, <3>1, <3>3
    <2> QED
      BY <1>1, <2>1, TightAppend DEF Faithful
  <1> QED
    BY <1>3, <1>4, <1>5, <1>6, <1>7 DEF Faithful, x

\* A batch that file k joins.
LEMMA GrownIsSound ==
    ASSUME NEW files \in Seq(ChangedFiles), DistinctPaths(files), NEW k \in 1 .. Len(files),
           Packable(files[k]), NEW b, Sound(files, k - 1, b), Inner(files, b),
           b.bytes + 1 + files[k].size <= MaxBytes
    PROVE  /\ Sound(files, k, GrowsBy(b, files[k])) /\ Inner(files, GrowsBy(b, files[k]))
           /\ Head(GrowsBy(b, files[k]).files) = Head(b.files)
  <1> DEFINE f == files[k]
             x == GrowsBy(b, f)
             n == Len(b.files)
  <1>1. f.path \in Nat /\ f.size \in Nat /\ k \in DOMAIN files
    <2>1. f \in ChangedFiles /\ k \in DOMAIN files
      OBVIOUS
    <2> HIDE DEF f
    <2> QED
      BY <2>1 DEF ChangedFiles
  <1>2. /\ b.files \in Seq(Nat) /\ b.files # <<>> /\ b.bytes \in Nat
        /\ Listed(files, b.files) /\ b.bytes = SizeOf(files, b.files)
        /\ \A a \in 1 .. n : b.files[a] \in Shown(files, k)
    BY SoundLater DEF Sound, OneBatch
  <1>3. \A a \in 1 .. n : Position(files, b.files[a]) < Position(files, f.path)
    BY StandsBefore
  <1>4. f.path \in Shown(files, k)
    BY ShownFacts
  <1>5. /\ Listed(files, Append(b.files, f.path))
        /\ SizeOf(files, Append(b.files, f.path)) = SizeOf(files, b.files) + 1 + f.size
    BY <1>1, <1>2, SizeFacts
  <1> HIDE DEF f, n
  <1>6. /\ n \in Nat /\ n > 0
        /\ x.files = Append(b.files, f.path) /\ x.files \in Seq(Nat) /\ Len(x.files) = n + 1
        /\ x.files[n + 1] = f.path /\ (\A a \in 1 .. n : x.files[a] = b.files[a])
        /\ x.bytes = b.bytes + 1 + f.size
    BY <1>1, <1>2 DEF GrowsBy, n
  <1>7. x \in OneBatch
    BY <1>1, <1>2, <1>6 DEF GrowsBy, OneBatch
  <1> HIDE DEF x
  <1>8. Sound(files, k, x)
    <2>1. x.files # <<>> /\ x.bytes <= MaxBytes
      BY <1>6 DEF f
    <2>2. \A a \in 1 .. Len(x.files) : x.files[a] \in Shown(files, k)
      BY <1>2, <1>4, <1>6
    <2> QED
      BY <1>2, <1>5, <1>6, <1>7, <2>1, <2>2 DEF Sound
  <1>9. Inner(files, x)
    <2> SUFFICES ASSUME NEW a \in 1 .. n + 1, NEW c \in 1 .. n + 1, a < c
                 PROVE  Position(files, x.files[a]) < Position(files, x.files[c])
      BY <1>6 DEF Inner
    <2>1. CASE c = n + 1
      BY <1>3, <1>6, <2>1
    <2>2. CASE c # n + 1
      <3>1. a \in 1 .. n /\ c \in 1 .. n
        BY <1>6, <2>2
      <3> QED
        BY <1>6, <3>1 DEF Inner, n
    <2> QED
      BY <2>1, <2>2
  <1>10. Head(x.files) = Head(b.files)
    <2>1. 1 \in 1 .. n /\ x.files # <<>>
      BY <1>6
    <2> QED
      BY <1>2, <1>6, <2>1
  <1> QED
    BY <1>8, <1>9, <1>10 DEF x, f

LEMMA FaithfulGrows ==
    ASSUME NEW files \in Seq(ChangedFiles), DistinctPaths(files), NEW k \in 1 .. Len(files),
           Packable(files[k]), NEW C \in Seq(OneBatch), NEW b \in OneBatch,
           Faithful(files, k - 1, Append(C, b)), b.bytes + 1 + files[k].size <= MaxBytes
    PROVE  Faithful(files, k, Append(C, GrowsBy(b, files[k])))
  <1> DEFINE f == files[k]
             x == GrowsBy(b, f)
             B == Append(C, b)
             A == Append(C, x)
             n == Len(C)
  <1>1. /\ n \in Nat /\ Len(B) = n + 1 /\ B[n + 1] = b /\ \A i \in 1 .. n : B[i] = C[i]
        /\ n + 1 \in 1 .. n + 1 /\ \A i \in 1 .. n : i \in 1 .. n + 1
    OBVIOUS
  <1> HIDE DEF B, n
  <1>2. \A i \in 1 .. n + 1 : Sound(files, k - 1, B[i])
    BY <1>1 DEF Faithful, B
  <1>3. Ordered(files, C) /\ Follows(files, C, b) /\ Inner(files, b)
    BY OrderedAppend DEF Faithful
  <1>4. Sound(files, k - 1, b) /\ \A i \in 1 .. n : Sound(files, k - 1, C[i]) /\ Sound(files, k, C[i])
    BY <1>1, <1>2, SoundLater
  <1>5. Sound(files, k, x) /\ Inner(files, x) /\ Head(x.files) = Head(b.files) /\ x \in OneBatch
    BY <1>3, <1>4, GrownIsSound DEF Sound
  <1>6. /\ b.files \in Seq(Nat) /\ f.path \in Nat
        /\ x.files = Append(b.files, f.path)
    <2>1. f \in ChangedFiles
      OBVIOUS
    <2>2. x.files = Append(b.files, f.path)
      BY DEF GrowsBy
    <2> HIDE DEF f
    <2> QED
      BY <2>1, <2>2 DEF ChangedFiles, OneBatch
  <1> HIDE DEF x, f
  <1>7. /\ A \in Seq(OneBatch) /\ Len(A) = n + 1 /\ A[n + 1] = x /\ \A i \in 1 .. n : A[i] = C[i]
    BY <1>5 DEF n
  <1>8. /\ Len(b.files) \in Nat /\ Len(x.files) = Len(b.files) + 1 /\ x.files[Len(b.files) + 1] = f.path
        /\ \A a \in 1 .. Len(b.files) : x.files[a] = b.files[a]
    BY <1>6
  <1> HIDE DEF A
  <1>9. \A i \in 1 .. Len(A) : Sound(files, k, A[i])
    BY <1>1, <1>4, <1>5, <1>7
  <1>10. Covering(files, k, A)
    <2> SUFFICES ASSUME NEW p \in Shown(files, k)
                 PROVE  \E i \in 1 .. n + 1 : \E a \in 1 .. Len(A[i].files) : A[i].files[a] = p
      BY <1>7 DEF Covering
    <2>1. CASE p = f.path
      <3>1. Len(b.files) + 1 \in 1 .. Len(A[n + 1].files) /\ A[n + 1].files[Len(b.files) + 1] = p
        BY <1>7, <1>8, <2>1
      <3> QED
        BY <1>1, <3>1
    <2>2. CASE p \in Shown(files, k - 1)
      <3>1. PICK i \in 1 .. n + 1 : \E a \in 1 .. Len(B[i].files) : B[i].files[a] = p
        BY <1>1, <2>2 DEF Faithful, Covering, B
      <3>2. PICK a \in 1 .. Len(B[i].files) : B[i].files[a] = p
        BY <3>1
      <3>3. CASE i = n + 1
        <4>1. a \in 1 .. Len(x.files) /\ A[i].files[a] = p /\ A[i] = x
          BY <1>1, <1>7, <1>8, <3>2, <3>3
        <4> QED
          BY <4>1
      <3>4. CASE i # n + 1
        <4>1. i \in 1 .. n
          BY <1>1, <3>4
        <4>2. A[i] = B[i]
          BY <1>1, <1>7, <4>1
        <4> QED
          BY <3>2, <4>2
      <3> QED
        BY <3>3, <3>4
    <2> QED
      BY <2>1, <2>2, ShownFacts DEF f
  <1>11. Ordered(files, A)
    <2>1. Follows(files, C, x)
      <3> SUFFICES ASSUME NEW i \in 1 .. n, NEW c \in 1 .. Len(C[i].files), NEW a \in 1 .. Len(b.files) + 1
                   PROVE  Position(files, C[i].files[c]) < Position(files, x.files[a])
        BY <1>8 DEF Follows, n
      <3>1. CASE a = Len(b.files) + 1
        BY <1>4, <1>8, <3>1, StandsBefore DEF f
      <3>2. CASE a # Len(b.files) + 1
        <4>1. a \in 1 .. Len(b.files) /\ x.files[a] = b.files[a]
          BY <1>8, <3>2
        <4> QED
          BY <1>3, <4>1 DEF Follows, n
      <3> QED
        BY <3>1, <3>2
    <2> QED
      BY <1>3, <1>5, <2>1, OrderedAppend DEF A
  <1>12. Tight(files, A)
    BY <1>5, TightAppend DEF A, Faithful
  <1> QED
    BY <1>7, <1>9, <1>10, <1>11, <1>12 DEF Faithful, A, x, f

LEMMA ToSetAppend ==
    ASSUME NEW S, NEW s \in Seq(S), NEW e \in S
    PROVE  ToSet(Append(s, e)) = ToSet(s) \union {e}
  <1> DEFINE n == Len(s)
             t == Append(s, e)
  <1>1. /\ n \in Nat /\ DOMAIN s = 1 .. n /\ DOMAIN t = 1 .. n + 1 /\ t[n + 1] = e
        /\ \A i \in 1 .. n : t[i] = s[i]
    OBVIOUS
  <1> HIDE DEF t, n
  <1>2. ToSet(t) \subseteq ToSet(s) \union {e}
    <2> SUFFICES ASSUME NEW i \in 1 .. n + 1
                 PROVE  t[i] \in ToSet(s) \union {e}
      BY <1>1 DEF ToSet
    <2>1. i = n + 1 \/ i \in 1 .. n
      BY <1>1
    <2> QED
      BY <1>1, <2>1 DEF ToSet
  <1>3. ToSet(s) \union {e} \subseteq ToSet(t)
    <2>1. n + 1 \in 1 .. n + 1 /\ \A i \in 1 .. n : i \in 1 .. n + 1
      BY <1>1
    <2> QED
      BY <1>1, <2>1 DEF ToSet
  <1> QED
    BY <1>2, <1>3 DEF t

\* What the plan of the first k files is.
PlanOf(files, k, plan) ==
    /\ Opened(plan)
    /\ Faithful(files, k, AllBatches(plan))
    /\ ToSet(plan.reviewed) = Shown(files, k)
    /\ ToSet(plan.omitted) = NotShown(files, k)

LEMMA PlanOfStep ==
    ASSUME NEW files \in Seq(ChangedFiles), DistinctPaths(files), NEW k \in 1 .. Len(files),
           NEW plan \in Plans, PlanOf(files, k - 1, plan)
    PROVE  PlanOf(files, k, Pack(plan, files[k]))
  <1> DEFINE f == files[k]
             new == Pack(plan, f)
             B == AllBatches(plan)
  <1>1. f \in ChangedFiles
    OBVIOUS
  <1>2. f.path \in Nat /\ f.size \in Nat /\ plan.reviewed \in Seq(Nat) /\ plan.omitted \in Seq(Nat)
    <2> HIDE DEF f
    <2> QED
      BY <1>1 DEF ChangedFiles, Plans
  <1>3. /\ ToSet(Append(plan.reviewed, f.path)) = ToSet(plan.reviewed) \union {f.path}
        /\ ToSet(Append(plan.omitted, f.path)) = ToSet(plan.omitted) \union {f.path}
    <2>1. \A s \in Seq(Nat), e \in Nat : ToSet(Append(s, e)) = ToSet(s) \union {e}
      BY ToSetAppend
    <2> HIDE DEF f
    <2> QED
      BY <1>2, <2>1
  <1>4. CASE ~Packable(f)
    <2>1. /\ Opened(new) /\ AllBatches(new) = B /\ new.reviewed = plan.reviewed
          /\ new.omitted = Append(plan.omitted, f.path)
      BY <1>1, <1>4, PackOmits DEF PlanOf
    <2>2. Faithful(files, k, B)
      BY <1>4, FaithfulOmits DEF PlanOf
    <2> QED
      BY <1>3, <1>4, <2>1, <2>2, ShownFacts DEF PlanOf
  <1>5. CASE Packable(f)
    <2>1. /\ Opened(new) /\ new.omitted = plan.omitted
          /\ new.reviewed = Append(plan.reviewed, f.path)
      BY <1>1, <1>5, PackShows DEF PlanOf
    <2>2. Faithful(files, k - 1, B)
      BY DEF PlanOf
    <2>3. Faithful(files, k, AllBatches(new))
      <3>1. CASE B = <<>> /\ AllBatches(new) = <<OpensWith(f)>>
        <4>1. Faithful(files, k, Append(B, OpensWith(f)))
          BY <1>5, <2>2, <3>1, FaithfulOpens
        <4>2. Append(<<>>, OpensWith(f)) = <<OpensWith(f)>>
          OBVIOUS
        <4> HIDE DEF B, new
        <4> QED
          BY <3>1, <4>1, <4>2
      <3>2. ASSUME NEW C \in Seq(OneBatch), NEW b \in OneBatch,
                   B = Append(C, b), b.bytes + 1 + f.size > MaxBytes,
                   AllBatches(new) = Append(Append(C, b), OpensWith(f))
            PROVE  Faithful(files, k, AllBatches(new))
        <4>1. B[Len(B)] = b
          BY <3>2
        <4>2. Faithful(files, k, Append(B, OpensWith(f)))
          BY <1>5, <2>2, <3>2, <4>1, FaithfulOpens
        <4> HIDE DEF B, new
        <4> QED
          BY <3>2, <4>2
      <3>3. ASSUME NEW C \in Seq(OneBatch), NEW b \in OneBatch,
                   B = Append(C, b), b.bytes + 1 + f.size <= MaxBytes,
                   AllBatches(new) = Append(C, GrowsBy(b, f))
            PROVE  Faithful(files, k, AllBatches(new))
        <4>1. Faithful(files, k - 1, Append(C, b))
          BY <2>2, <3>3
        <4>2. Faithful(files, k, Append(C, GrowsBy(b, f)))
          BY <1>5, <3>3, <4>1, FaithfulGrows
        <4> HIDE DEF B, new
        <4> QED
          BY <3>3, <4>2
      <3> QED
        BY <1>1, <1>5, <3>1, <3>2, <3>3, PackShows DEF PlanOf
    <2> QED
      BY <1>3, <1>5, <2>1, <2>3, ShownFacts DEF PlanOf
  <1> QED
    BY <1>4, <1>5

\* The plan of a list of files.
LEMMA PlanFacts ==
    ASSUME NEW files \in Seq(ChangedFiles), DistinctPaths(files)
    PROVE  LET plan == BuildDiffBatches(files)
           IN  /\ plan \in Plans
               /\ Faithful(files, Len(files), plan.batches)
               /\ ToSet(plan.reviewed) = Shown(files, Len(files))
               /\ ToSet(plan.omitted) = NotShown(files, Len(files))
  <1> DEFINE n == Len(files)
             q == Packed(files)
             T == {k \in 0 .. n : PlanOf(files, k, q[k])}
  <1>1. /\ n \in Nat /\ q \in [0 .. n -> Plans] /\ q[0] = NoPlan
        /\ \A i \in 1 .. n : q[i] = Pack(q[i - 1], files[i])
    BY PackedFacts
  <1>2. PlanOf(files, 0, NoPlan)
    <2>1. Shown(files, 0) = {} /\ NotShown(files, 0) = {}
      BY DEF Shown, NotShown
    <2>2. Opened(NoPlan) /\ AllBatches(NoPlan) = <<>> /\ NoPlan.reviewed = <<>> /\ NoPlan.omitted = <<>>
      BY DEF Opened, AllBatches, NoPlan, NoBatch, Flush
    <2>3. ToSet(<<>>) = {}
      BY DEF ToSet
    <2>4. Faithful(files, 0, <<>>)
      BY <2>1 DEF Faithful, Covering, Ordered, Tight
    <2> QED
      BY <2>1, <2>2, <2>3, <2>4 DEF PlanOf
  <1> HIDE DEF n, q
  <1>3. Inductive(T, n)
    <2>1. 0 \in T
      BY <1>1, <1>2
    <2>2. ASSUME NEW k \in 1 .. n, k - 1 \in T
          PROVE  k \in T
      <3>1. k - 1 \in 0 .. n /\ k \in 0 .. n /\ q[k - 1] \in Plans /\ PlanOf(files, k - 1, q[k - 1])
        BY <1>1, <2>2
      <3>2. PlanOf(files, k, Pack(q[k - 1], files[k]))
        BY <3>1, PlanOfStep DEF n
      <3> QED
        BY <1>1, <3>1, <3>2
    <2> HIDE DEF T
    <2> QED
      BY <2>1, <2>2 DEF Inductive
  <1>4. PlanOf(files, n, q[n])
    <2>1. n \in 0 .. n
      BY <1>1
    <2> HIDE DEF T
    <2>2. n \in T
      BY <1>1, <1>3, <2>1, PrefixInduction
    <2> QED
      BY <2>2 DEF T
  <1>5. BuildDiffBatches(files) = Flush(q[n]) /\ q[n] \in Plans
    BY <1>1 DEF BuildDiffBatches, q, n
  <1>6. Flush(q[n]).reviewed = q[n].reviewed /\ Flush(q[n]).omitted = q[n].omitted
    BY DEF Flush
  <1> QED
    BY <1>4, <1>5, <1>6, FlushType DEF PlanOf, AllBatches, n

-----------------------------------------------------------------------------
(* Orders.                                                                 *)

\* R is a strict total order on S.
OrdersStrictly(R, S) ==
    /\ \A a \in S : <<a, a>> \notin R
    /\ \A a, b, c \in S : <<a, b>> \in R /\ <<b, c>> \in R => <<a, c>> \in R
    /\ \A a, b \in S : a = b \/ <<a, b>> \in R \/ <<b, a>> \in R

\* InOrder lists each element once, in the order.
LEMMA InOrderFacts ==
    ASSUME NEW S, IsFiniteSet(S), NEW R, OrdersStrictly(R, S)
    PROVE  /\ Cardinality(S) \in Nat
           /\ InOrder(S, R) \in [1 .. Cardinality(S) -> S]
           /\ \A s \in S : \E k \in 1 .. Cardinality(S) : InOrder(S, R)[k] = s
           /\ \A a, b \in 1 .. Cardinality(S) : a < b => <<InOrder(S, R)[a], InOrder(S, R)[b]>> \in R
  <1> DEFINE n == Cardinality(S)
             below(i) == {j \in S : <<j, i>> \in R}
             place(i) == Cardinality(below(i))
             I == 0 .. n - 1
             o == InOrder(S, R)
             f == [i \in S |-> place(i)]
  <1>1. \A i \in S : below(i) \in SUBSET S /\ i \notin below(i) /\ IsFiniteSet(below(i))
    BY FS_Subset DEF OrdersStrictly
  <1>2. n \in Nat /\ \A i \in S : place(i) \in Nat
    BY <1>1, FS_CardinalityType
  <1>3. ASSUME NEW i \in S, NEW j \in S, <<i, j>> \in R
        PROVE  place(i) < place(j)
    <2>1. below(i) \in SUBSET below(j) /\ i \in below(j) /\ i \notin below(i)
      BY <1>1, <1>3 DEF OrdersStrictly
    <2>2. place(i) <= place(j) /\ (place(i) = place(j) => below(i) = below(j))
      BY <1>1, <2>1, FS_Subset
    <2> QED
      BY <1>2, <2>1, <2>2
  <1>4. ASSUME NEW i \in S
        PROVE  place(i) \in I
    <2>1. place(i) <= n /\ (place(i) = n => below(i) = S)
      BY <1>1, FS_Subset
    <2>2. place(i) # n
      BY <1>1, <2>1
    <2> HIDE DEF n, place
    <2> QED
      BY <1>2, <2>1, <2>2
  <1>5. \A i, j \in S : place(i) = place(j) => i = j
    <2> SUFFICES ASSUME NEW i \in S, NEW j \in S, place(i) = place(j)
                 PROVE  i = j
      OBVIOUS
    <2>1. ~(place(i) < place(j)) /\ ~(place(j) < place(i))
      BY <1>2
    <2> HIDE DEF place
    <2> QED
      BY <1>3, <2>1 DEF OrdersStrictly
  <1>6. \A k \in I : \E i \in S : place(i) = k
    <2>1. IsFiniteSet(I) /\ Cardinality(I) = n
      BY <1>2, FS_Interval
    <2>2. f \in [S -> I] /\ \A i \in S : f[i] = place(i)
      BY <1>4
    <2> HIDE DEF I, f, place
    <2>3. f \in Injection(S, I)
      BY <1>5, <2>2 DEF Injection, IsInjective
    <2>4. f \in Surjection(S, I)
      BY <2>1, <2>3, FS_Injection
    <2>5. \A k \in I : \E i \in S : f[i] = k
      BY <2>4 DEF Surjection
    <2> QED
      BY <2>2, <2>5
  <1>7. ASSUME NEW k \in 1 .. n
        PROVE  o[k] \in S /\ place(o[k]) = k - 1
    <2>1. k - 1 \in I
      BY <1>2
    <2>2. \E i \in S : place(i) = k - 1
      BY <1>6, <2>1
    <2>3. o[k] = CHOOSE i \in S : place(i) = k - 1
      BY DEF InOrder
    <2> HIDE DEF place, o
    <2> QED
      BY <2>2, <2>3
  <1>8. o \in [1 .. n -> S]
    <2> DEFINE c(k) == CHOOSE i \in S : place(i) = k - 1
    <2>1. o = [k \in 1 .. n |-> c(k)]
      BY DEF InOrder
    <2> HIDE DEF o, n, place, c
    <2> QED
      BY <1>7, <2>1
  <1> HIDE DEF o, n, place, below
  <1>9. \A s \in S : \E k \in 1 .. n : o[k] = s
    <2> SUFFICES ASSUME NEW s \in S
                 PROVE  \E k \in 1 .. n : o[k] = s
      OBVIOUS
    <2>1. place(s) + 1 \in 1 .. n /\ (place(s) + 1) - 1 = place(s)
      BY <1>2, <1>4
    <2>2. o[place(s) + 1] \in S /\ place(o[place(s) + 1]) = place(s)
      BY <1>7, <2>1
    <2> QED
      BY <1>5, <2>1, <2>2
  <1>10. ASSUME NEW a \in 1 .. n, NEW b \in 1 .. n, a < b
         PROVE  <<o[a], o[b]>> \in R
    <2>1. /\ o[a] \in S /\ o[b] \in S /\ place(o[a]) < place(o[b])
      BY <1>2, <1>7, <1>10
    <2>2. o[a] # o[b] /\ ~(place(o[b]) < place(o[a]))
      BY <1>2, <2>1
    <2> QED
      BY <1>3, <2>1, <2>2 DEF OrdersStrictly
  <1> QED
    BY <1>2, <1>8, <1>9, <1>10 DEF o, n

-----------------------------------------------------------------------------
(* normalize_result.                                                       *)

Locatable(f, context) == f.path \notin context.omitted /\ <<f.path, f.line>> \in context.anchors

\* What can be located is kept, and a review with findings is not clean.
LEMMA NormalizeFacts ==
    ASSUME NEW r \in Results, NEW context
    PROVE  /\ NormalizeResult(r, context) \in Results
           /\ \A f \in ToSet(NormalizeResult(r, context).findings) :
                f \in ToSet(r.findings) /\ Locatable(f, context)
           /\ NormalizeResult(r, context).verdict = "clean"
                => ToSet(NormalizeResult(r, context).findings) = {}
  <1> DEFINE valid == {i \in DOMAIN r.findings :
                          LET f == r.findings[i]
                          IN  f.path \notin context.omitted /\ <<f.path, f.line>> \in context.anchors}
             order == InOrder(valid, Less(valid))
             n == Cardinality(valid)
             kept == [k \in DOMAIN order |-> r.findings[order[k]]]
             N == NormalizeResult(r, context)
  <1>1. /\ r.verdict \in {"clean", "needs_attention"} /\ r.rank \in 0 .. 3
        /\ r.findings \in Seq(Findings)
    BY DEF Results
  <1>2. /\ valid \subseteq 1 .. Len(r.findings) /\ IsFiniteSet(valid)
        /\ \A i \in valid : r.findings[i] \in Findings /\ Locatable(r.findings[i], context)
    <2>1. DOMAIN r.findings = 1 .. Len(r.findings) /\ Len(r.findings) \in Nat
      BY <1>1
    <2>2. IsFiniteSet(1 .. Len(r.findings))
      BY <2>1, FS_Interval
    <2>3. valid \in SUBSET (1 .. Len(r.findings))
      BY <2>1
    <2>4. \A i \in valid : Locatable(r.findings[i], context)
      BY DEF Locatable
    <2> HIDE DEF valid
    <2>5. IsFiniteSet(valid)
      BY <2>2, <2>3, FS_Subset
    <2>6. \A i \in valid : r.findings[i] \in Findings
      BY <1>1, <2>1, <2>3
    <2> QED
      BY <2>3, <2>4, <2>5, <2>6
  <1>3. OrdersStrictly(Less(valid), valid)
    <2>1. \A i \in valid : i \in Nat
      BY <1>1, <1>2
    <2> HIDE DEF valid
    <2> QED
      BY <2>1 DEF OrdersStrictly, Less
  <1>4. N = [verdict |-> IF valid # {} THEN "needs_attention" ELSE r.verdict,
             rank |-> r.rank, findings |-> kept]
    BY DEF NormalizeResult
  <1> HIDE DEF valid, N
  <1>5. n \in Nat /\ order \in [1 .. n -> valid]
    BY <1>2, <1>3, InOrderFacts
  <1> HIDE DEF order, n
  <1>6. kept \in [1 .. n -> Findings] /\ kept \in Seq(Findings)
    BY <1>2, <1>5
  <1>7. N \in Results
    BY <1>1, <1>4, <1>6 DEF Results
  <1>8. \A f \in ToSet(N.findings) : f \in ToSet(r.findings) /\ Locatable(f, context)
    <2> SUFFICES ASSUME NEW k \in 1 .. n
                 PROVE  kept[k] \in ToSet(r.findings) /\ Locatable(kept[k], context)
      BY <1>4, <1>5, <1>6 DEF ToSet
    <2>1. order[k] \in valid /\ kept[k] = r.findings[order[k]]
      BY <1>5
    <2>2. order[k] \in DOMAIN r.findings
      BY <1>1, <1>2, <2>1
    <2> QED
      BY <1>2, <2>1, <2>2 DEF ToSet
  <1>9. N.verdict = "clean" => ToSet(N.findings) = {}
    <2> SUFFICES ASSUME valid = {}
                 PROVE  ToSet(N.findings) = {}
      BY <1>4
    <2>1. n = 0
      BY FS_EmptySet DEF n
    <2>2. DOMAIN N.findings = {}
      BY <1>4, <1>5, <2>1
    <2> QED
      BY <2>2 DEF ToSet
  <1> QED
    BY <1>7, <1>8, <1>9 DEF N

-----------------------------------------------------------------------------
(* findings_by_key.                                                        *)

\* kept has one finding for each place and title of said, and the worst.
KeepsWorst(kept, said) ==
    /\ kept \in Seq(Findings)
    /\ \A i, j \in 1 .. Len(kept) : MergeKey(kept[i]) = MergeKey(kept[j]) => i = j
    /\ \A i \in 1 .. Len(kept) : kept[i] \in said
    /\ \A f \in said : \E i \in 1 .. Len(kept) :
          MergeKey(kept[i]) = MergeKey(f) /\ kept[i].priority <= f.priority

LEMMA AddByKeyKeeps ==
    ASSUME NEW said \in SUBSET Findings, NEW kept, KeepsWorst(kept, said), NEW f \in Findings
    PROVE  KeepsWorst(AddByKey(kept, f), said \union {f})
  <1> DEFINE n == Len(kept)
             same == {i \in DOMAIN kept : MergeKey(kept[i]) = MergeKey(f)}
             new == AddByKey(kept, f)
             new2 == [i \in DOMAIN kept |-> IF i \in same /\ f.priority < kept[i].priority THEN f ELSE kept[i]]
  <1>1. kept \in Seq(Findings) /\ n \in Nat /\ DOMAIN kept = 1 .. n
    BY DEF KeepsWorst
  <1>2. \A g \in Findings : g.priority \in Nat
    BY DEF Findings
  <1>3. \A i \in 1 .. n : kept[i] \in Findings
    BY <1>1
  <1>4. CASE same = {}
    <2>1. new = Append(kept, f)
      BY <1>4 DEF AddByKey
    <2>2. /\ new \in Seq(Findings) /\ Len(new) = n + 1 /\ new[n + 1] = f
          /\ \A i \in 1 .. n : new[i] = kept[i]
      BY <1>1, <2>1
    <2>3. \A i \in 1 .. n : MergeKey(kept[i]) # MergeKey(f)
      BY <1>1, <1>4
    <2> HIDE DEF new, n
    <2>4. \A i \in 1 .. n + 1 : i = n + 1 \/ i \in 1 .. n
      BY <1>1
    <2>5. \A i, j \in 1 .. n + 1 : MergeKey(new[i]) = MergeKey(new[j]) => i = j
      BY <2>2, <2>3, <2>4 DEF KeepsWorst, n
    <2>6. \A i \in 1 .. n + 1 : new[i] \in said \union {f}
      BY <2>2, <2>4 DEF KeepsWorst, n
    <2>7. \A g \in said \union {f} : \E i \in 1 .. n + 1 :
              MergeKey(new[i]) = MergeKey(g) /\ new[i].priority <= g.priority
      <3> SUFFICES ASSUME NEW g \in said \union {f}
                   PROVE  \E i \in 1 .. n + 1 : MergeKey(new[i]) = MergeKey(g) /\ new[i].priority <= g.priority
        OBVIOUS
      <3>1. CASE g = f
        <4>1. n + 1 \in 1 .. n + 1 /\ f.priority <= f.priority
          BY <1>1, <1>2
        <4> QED
          BY <2>2, <3>1, <4>1
      <3>2. CASE g \in said
        <4>1. PICK i \in 1 .. n : MergeKey(kept[i]) = MergeKey(g) /\ kept[i].priority <= g.priority
          BY <3>2 DEF KeepsWorst, n
        <4>2. i \in 1 .. n + 1
          BY <1>1
        <4> QED
          BY <2>2, <4>1, <4>2
      <3> QED
        BY <3>1, <3>2
    <2> QED
      BY <2>2, <2>5, <2>6, <2>7 DEF KeepsWorst, new
  <1>5. CASE same # {}
    <2>1. new = new2
      BY <1>5 DEF AddByKey
    <2>2. \A i \in 1 .. n : new[i] = IF i \in same /\ f.priority < kept[i].priority THEN f ELSE kept[i]
      BY <1>1, <2>1
    <2>3. new \in Seq(Findings) /\ Len(new) = n
      BY <1>1, <1>3, <2>1
    <2>4. \A i \in 1 .. n : MergeKey(new[i]) = MergeKey(kept[i])
      <3> SUFFICES ASSUME NEW i \in 1 .. n
                   PROVE  MergeKey(new[i]) = MergeKey(kept[i])
        OBVIOUS
      <3>1. CASE i \in same /\ f.priority < kept[i].priority
        <4>1. new[i] = f /\ MergeKey(kept[i]) = MergeKey(f)
          BY <2>2, <3>1
        <4> QED
          BY <4>1
      <3>2. CASE ~(i \in same /\ f.priority < kept[i].priority)
        <4>1. new[i] = kept[i]
          BY <2>2, <3>2
        <4> QED
          BY <4>1
      <3> QED
        BY <3>1, <3>2
    <2>5. \A i \in 1 .. n : i \in same <=> MergeKey(kept[i]) = MergeKey(f)
      BY <1>1
    <2>6. PICK m \in 1 .. n : m \in same
      BY <1>1, <1>5
    <2> HIDE DEF new, n, same
    <2>7. \A i \in 1 .. n : new[i].priority <= kept[i].priority /\ (i \in same => new[i].priority <= f.priority)
      <3> SUFFICES ASSUME NEW i \in 1 .. n
                   PROVE  new[i].priority <= kept[i].priority /\ (i \in same => new[i].priority <= f.priority)
        OBVIOUS
      <3>1. kept[i].priority \in Nat /\ f.priority \in Nat
        BY <1>2, <1>3
      <3>2. CASE i \in same /\ f.priority < kept[i].priority
        <4>1. new[i] = f
          BY <2>2, <3>2
        <4> QED
          BY <3>1, <3>2, <4>1
      <3>3. CASE ~(i \in same /\ f.priority < kept[i].priority)
        <4>1. new[i] = kept[i]
          BY <2>2, <3>3
        <4> QED
          BY <3>1, <3>3, <4>1
      <3> QED
        BY <3>2, <3>3
    <2>8. \A i, j \in 1 .. n : MergeKey(new[i]) = MergeKey(new[j]) => i = j
      BY <2>4 DEF KeepsWorst, n
    <2>9. \A i \in 1 .. n : new[i] \in said \union {f}
      <3> SUFFICES ASSUME NEW i \in 1 .. n
                   PROVE  new[i] \in said \union {f}
        OBVIOUS
      <3>1. new[i] = f \/ new[i] = kept[i]
        BY <2>2
      <3> QED
        BY <3>1 DEF KeepsWorst, n
    <2>10. \A g \in said \union {f} : \E i \in 1 .. n :
              MergeKey(new[i]) = MergeKey(g) /\ new[i].priority <= g.priority
      <3> SUFFICES ASSUME NEW g \in said \union {f}
                   PROVE  \E i \in 1 .. n : MergeKey(new[i]) = MergeKey(g) /\ new[i].priority <= g.priority
        OBVIOUS
      <3>1. CASE g = f
        BY <2>4, <2>5, <2>6, <2>7, <3>1
      <3>2. CASE g \in said
        <4>1. PICK i \in 1 .. n : MergeKey(kept[i]) = MergeKey(g) /\ kept[i].priority <= g.priority
          BY <3>2 DEF KeepsWorst, n
        <4>2. kept[i].priority \in Nat /\ new[i].priority \in Nat /\ g.priority \in Nat
          <5>1. new[i] \in Findings
            BY <2>9
          <5> QED
            BY <1>2, <1>3, <3>2, <5>1
        <4>3. MergeKey(new[i]) = MergeKey(g) /\ new[i].priority <= kept[i].priority
          BY <2>4, <2>7, <4>1
        <4> QED
          BY <4>1, <4>2, <4>3
      <3> QED
        BY <3>1, <3>2
    <2> QED
      BY <2>3, <2>8, <2>9, <2>10 DEF KeepsWorst, new
  <1> QED
    BY <1>4, <1>5

LEMMA AddByKeyType ==
    ASSUME NEW kept \in Seq(Findings), NEW f \in Findings
    PROVE  AddByKey(kept, f) \in Seq(Findings)
  <1> DEFINE same == {i \in DOMAIN kept : MergeKey(kept[i]) = MergeKey(f)}
             new2 == [i \in DOMAIN kept |-> IF i \in same /\ f.priority < kept[i].priority THEN f ELSE kept[i]]
  <1>1. AddByKey(kept, f) = Append(kept, f) \/ AddByKey(kept, f) = new2
    BY DEF AddByKey
  <1>2. DOMAIN kept = 1 .. Len(kept) /\ Len(kept) \in Nat /\ \A i \in 1 .. Len(kept) : kept[i] \in Findings
    OBVIOUS
  <1> HIDE DEF same
  <1>3. new2 \in Seq(Findings)
    BY <1>2
  <1>4. Append(kept, f) \in Seq(Findings)
    OBVIOUS
  <1> QED
    BY <1>1, <1>3, <1>4

\* AddedByKey adds one finding after the other.
LEMMA AddedByKeyFacts ==
    ASSUME NEW kept \in Seq(Findings), NEW findings \in Seq(Findings)
    PROVE  /\ AddedByKey(kept, findings) \in [0 .. Len(findings) -> Seq(Findings)]
           /\ AddedByKey(kept, findings)[0] = kept
           /\ \A i \in 1 .. Len(findings) :
                AddedByKey(kept, findings)[i] = AddByKey(AddedByKey(kept, findings)[i - 1], findings[i])
  <1> DEFINE n == Len(findings)
             V == Seq(Findings)
             step == [i \in 1 .. n |-> [v \in V |-> AddByKey(v, findings[i])]]
             q == AddedByKey(kept, findings)
             T == {k \in 0 .. n : q[k] \in V}
  <1>1. n \in Nat /\ kept \in V /\ \A i \in 1 .. n : findings[i] \in Findings
    OBVIOUS
  <1>2. \A v \in V, f \in Findings : AddByKey(v, f) \in V
    BY AddByKeyType
  <1> HIDE DEF n, V, q
  <1>3. \A i \in 1 .. n, v \in V : step[i][v] = AddByKey(v, findings[i]) /\ step[i][v] \in V
    BY <1>1, <1>2
  <1> HIDE DEF step
  <1>4. PICK p : Folds(p, step, n, kept, V)
    <2>1. Maps(step, n, V)
      BY <1>3 DEF Maps
    <2> QED
      BY <1>1, <2>1, FoldExists
  <1>5. ASSUME NEW i \in 1 .. n
        PROVE  p[i] = AddByKey(p[i - 1], findings[i])
    BY <1>1, <1>3, <1>4 DEF Folds
  <1>6. p = [i \in 0 .. n |-> IF i = 0 THEN kept ELSE AddByKey(p[i - 1], findings[i])]
    BY <1>1, <1>4, <1>5 DEF Folds
  <1>7. q = [i \in 0 .. n |-> IF i = 0 THEN kept ELSE AddByKey(q[i - 1], findings[i])]
    BY <1>6 DEF AddedByKey, n, q
  <1>8. q[0] = kept
    BY <1>1, <1>7
  <1>9. ASSUME NEW i \in 1 .. n
        PROVE  q[i] = AddByKey(q[i - 1], findings[i])
    <2>1. i \in 0 .. n /\ i # 0
      BY <1>1
    <2> QED
      BY <1>7, <2>1
  <1>10. Inductive(T, n)
    <2>1. 0 \in T
      BY <1>1, <1>8
    <2>2. ASSUME NEW k \in 1 .. n, k - 1 \in T
          PROVE  k \in T
      <3>1. k \in 0 .. n /\ findings[k] \in Findings
        BY <1>1
      <3> QED
        BY <1>2, <1>9, <2>2, <3>1
    <2> HIDE DEF T
    <2> QED
      BY <2>1, <2>2 DEF Inductive
  <1> HIDE DEF T
  <1>11. \A k \in 0 .. n : q[k] \in V
    BY <1>1, <1>10, PrefixInduction DEF T
  <1>12. q \in [0 .. n -> V]
    BY <1>7, <1>11
  <1> QED
    BY <1>8, <1>9, <1>12 DEF n, V, q

LEMMA AddedByKeyKeeps ==
    ASSUME NEW said \in SUBSET Findings, NEW kept, KeepsWorst(kept, said), NEW findings \in Seq(Findings)
    PROVE  KeepsWorst(AddedByKey(kept, findings)[Len(findings)], said \union ToSet(findings))
  <1> DEFINE n == Len(findings)
             q == AddedByKey(kept, findings)
             upto(k) == {findings[m] : m \in 1 .. k}
             T == {k \in 0 .. n : KeepsWorst(q[k], said \union upto(k))}
  <1>1. /\ n \in Nat /\ q[0] = kept /\ \A i \in 1 .. n : q[i] = AddByKey(q[i - 1], findings[i])
        /\ \A i \in 1 .. n : findings[i] \in Findings
    BY AddedByKeyFacts DEF KeepsWorst
  <1>2. ToSet(findings) = upto(n)
    BY DEF ToSet
  <1> HIDE DEF n, q
  <1>3. Inductive(T, n)
    <2>1. 0 \in T
      <3>1. said \union upto(0) = said
        OBVIOUS
      <3> HIDE DEF upto
      <3>2. KeepsWorst(q[0], said \union upto(0))
        BY ONLY <1>1, <3>1, KeepsWorst(kept, said)
      <3> QED
        BY <1>1, <3>2
    <2>2. ASSUME NEW k \in 1 .. n, k - 1 \in T
          PROVE  k \in T
      <3>1. said \union upto(k) = (said \union upto(k - 1)) \union {findings[k]}
        <4>1. 1 .. k = (1 .. k - 1) \union {k}
          BY <1>1
        <4> QED
          BY <4>1
      <3>2. said \union upto(k - 1) \in SUBSET Findings /\ findings[k] \in Findings /\ k \in 0 .. n
        BY <1>1
      <3> HIDE DEF upto
      <3>3. KeepsWorst(q[k - 1], said \union upto(k - 1))
        BY <2>2
      <3>4. KeepsWorst(AddByKey(q[k - 1], findings[k]), (said \union upto(k - 1)) \union {findings[k]})
        BY <3>2, <3>3, AddByKeyKeeps
      <3> QED
        BY <1>1, <3>1, <3>2, <3>4
    <2> HIDE DEF T
    <2> QED
      BY <2>1, <2>2 DEF Inductive
  <1> HIDE DEF T
  <1>4. n \in T
    BY <1>1, <1>3, PrefixInduction
  <1> QED
    BY <1>2, <1>4 DEF T, q, n

\* MergedByKey adds the findings of one result after the other.
LEMMA MergedByKeyFacts ==
    ASSUME NEW results \in Seq(Results)
    PROVE  /\ MergedByKey(results)[0] = <<>>
           /\ \A i \in 1 .. Len(results) :
                MergedByKey(results)[i]
                  = AddedByKey(MergedByKey(results)[i - 1], results[i].findings)[Len(results[i].findings)]
  <1> DEFINE n == Len(results)
             V == Seq(Findings)
             all(v, i) == AddedByKey(v, results[i].findings)[Len(results[i].findings)]
             step == [i \in 1 .. n |-> [v \in V |-> all(v, i)]]
             q == MergedByKey(results)
  <1>1. n \in Nat /\ <<>> \in V
    OBVIOUS
  <1>2. ASSUME NEW v \in V, NEW i \in 1 .. n
        PROVE  all(v, i) \in V
    <2> DEFINE s == results[i].findings
    <2>1. results[i] \in Results
      OBVIOUS
    <2>2. s \in Seq(Findings) /\ Len(s) \in 0 .. Len(s)
      BY <2>1 DEF Results
    <2> HIDE DEF s
    <2>3. AddedByKey(v, s) \in [0 .. Len(s) -> V]
      BY <2>2, AddedByKeyFacts
    <2> QED
      BY <2>2, <2>3 DEF s
  <1> HIDE DEF n, V, q, all
  <1>3. \A i \in 1 .. n, v \in V : step[i][v] = all(v, i) /\ step[i][v] \in V
    BY <1>1, <1>2
  <1> HIDE DEF step
  <1>4. PICK p : Folds(p, step, n, <<>>, V)
    <2>1. Maps(step, n, V)
      BY <1>3 DEF Maps
    <2> QED
      BY <1>1, <2>1, FoldExists
  <1>5. ASSUME NEW i \in 1 .. n
        PROVE  p[i] = all(p[i - 1], i)
    BY <1>1, <1>3, <1>4 DEF Folds
  <1>6. p = [i \in 0 .. n |-> IF i = 0 THEN <<>> ELSE all(p[i - 1], i)]
    BY <1>1, <1>4, <1>5 DEF Folds
  <1>7. q = [i \in 0 .. n |-> IF i = 0 THEN <<>> ELSE all(q[i - 1], i)]
    BY <1>6 DEF MergedByKey, n, q, all
  <1>8. q[0] = <<>>
    BY <1>1, <1>7
  <1>9. ASSUME NEW i \in 1 .. n
        PROVE  q[i] = all(q[i - 1], i)
    <2>1. i \in 0 .. n /\ i # 0
      BY <1>1
    <2> QED
      BY <1>7, <2>1
  <1> QED
    BY <1>8, <1>9 DEF n, q, all

\* What the first k results say.
SaidBy(results, k) == UNION {ToSet(results[m].findings) : m \in 1 .. k}

LEMMA FindingsByKeyKeeps ==
    ASSUME NEW results \in Seq(Results)
    PROVE  KeepsWorst(FindingsByKey(results), SaidBy(results, Len(results)))
  <1> DEFINE n == Len(results)
             q == MergedByKey(results)
             T == {k \in 0 .. n : KeepsWorst(q[k], SaidBy(results, k))}
  <1>1. /\ n \in Nat /\ q[0] = <<>>
        /\ \A i \in 1 .. n : q[i] = AddedByKey(q[i - 1], results[i].findings)[Len(results[i].findings)]
    BY MergedByKeyFacts
  <1>2. \A i \in 1 .. n : results[i].findings \in Seq(Findings)
    <2>1. \A i \in 1 .. n : results[i] \in Results
      OBVIOUS
    <2> QED
      BY <2>1 DEF Results
  <1>3. \A k \in 0 .. n : SaidBy(results, k) \in SUBSET Findings
    <2> SUFFICES ASSUME NEW k \in 0 .. n, NEW m \in 1 .. k
                 PROVE  ToSet(results[m].findings) \subseteq Findings
      BY DEF SaidBy
    <2>1. results[m].findings \in Seq(Findings)
      BY <1>1, <1>2
    <2> QED
      BY <2>1 DEF ToSet
  <1> HIDE DEF n, q
  <1>4. Inductive(T, n)
    <2>1. 0 \in T
      <3>1. SaidBy(results, 0) = {}
        BY DEF SaidBy
      <3>2. KeepsWorst(<<>>, {})
        BY DEF KeepsWorst
      <3>3. KeepsWorst(q[0], SaidBy(results, 0))
        BY <1>1, <3>1, <3>2
      <3> QED
        BY <1>1, <3>3
    <2>2. ASSUME NEW k \in 1 .. n, k - 1 \in T
          PROVE  k \in T
      <3>1. SaidBy(results, k) = SaidBy(results, k - 1) \union ToSet(results[k].findings)
        <4>1. 1 .. k = (1 .. k - 1) \union {k}
          BY <1>1
        <4> QED
          BY <4>1 DEF SaidBy
      <3>2. k - 1 \in 0 .. n /\ k \in 0 .. n /\ KeepsWorst(q[k - 1], SaidBy(results, k - 1))
        BY <1>1, <2>2
      <3>3. KeepsWorst(q[k], SaidBy(results, k - 1) \union ToSet(results[k].findings))
        BY <1>1, <1>2, <1>3, <3>2, AddedByKeyKeeps
      <3> QED
        BY <3>1, <3>2, <3>3
    <2> HIDE DEF T
    <2> QED
      BY <2>1, <2>2 DEF Inductive
  <1> HIDE DEF T
  <1>5. n \in T
    BY <1>1, <1>4, PrefixInduction
  <1> QED
    BY <1>5 DEF T, q, n, FindingsByKey

-----------------------------------------------------------------------------
(* merge_review_results.                                                   *)

LEMMA BeforeFacts ==
    /\ \A a \in Findings : ~Before(Worst(a), Worst(a))
    /\ \A a, b, c \in Findings :
          Before(Worst(a), Worst(b)) /\ Before(Worst(b), Worst(c)) => Before(Worst(a), Worst(c))
    /\ \A a, b \in Findings :
          Worst(a) = Worst(b) \/ Before(Worst(a), Worst(b)) \/ Before(Worst(b), Worst(a))
    /\ \A a, b \in Findings :
          Before(Worst(a), Worst(b)) \/ Worst(a) = Worst(b) => a.priority <= b.priority
  <1>1. \A a \in Findings : /\ a.priority \in Nat /\ a.path \in Nat /\ a.line \in Nat
                            /\ Worst(a)[1] = a.priority /\ Worst(a)[2] = a.path /\ Worst(a)[3] = a.line
    BY DEF Findings, Worst
  <1>2. \A a, b \in Findings : Worst(a) = Worst(b)
            <=> a.priority = b.priority /\ a.path = b.path /\ a.line = b.line
    BY DEF Worst
  <1> QED
    BY <1>1, <1>2 DEF Before

\* The sort keeps what there is and puts the worst first.
LEMMA SortFacts ==
    ASSUME NEW s \in Seq(Findings)
    PROVE  /\ SortFindings(s) \in Seq(Findings)
           /\ Len(SortFindings(s)) = Len(s)
           /\ ToSet(SortFindings(s)) = ToSet(s)
           /\ \A i, j \in 1 .. Len(s) :
                i < j => SortFindings(s)[i].priority <= SortFindings(s)[j].priority
  <1> DEFINE n == Len(s)
             D == DOMAIN s
             R == Sorts(s)
             o == InOrder(D, R)
             t == SortFindings(s)
  <1>1. n \in Nat /\ D = 1 .. n /\ \A i \in D : s[i] \in Findings
    OBVIOUS
  <1>2. IsFiniteSet(D) /\ Cardinality(D) = n
    BY <1>1, FS_Interval
  <1>3. \A i, j \in D : <<i, j>> \in R <=>
            \/ Before(Worst(s[i]), Worst(s[j]))
            \/ Worst(s[i]) = Worst(s[j]) /\ i < j
    BY DEF Sorts
  <1> HIDE DEF R, D, n
  <1>4. OrdersStrictly(R, D)
    <2>1. \A i \in D : i \in Nat
      BY <1>1
    <2>2. \A a \in D : <<a, a>> \notin R
      BY <1>1, <1>3, <2>1, BeforeFacts
    <2>3. ASSUME NEW a \in D, NEW b \in D, NEW c \in D, <<a, b>> \in R, <<b, c>> \in R
          PROVE  <<a, c>> \in R
      <3>1. \/ Before(Worst(s[a]), Worst(s[b]))
            \/ Worst(s[a]) = Worst(s[b]) /\ a < b
        BY <1>3, <2>3
      <3>2. \/ Before(Worst(s[b]), Worst(s[c]))
            \/ Worst(s[b]) = Worst(s[c]) /\ b < c
        BY <1>3, <2>3
      <3>3. a < b /\ b < c => a < c
        BY <2>1
      <3>4. \/ Before(Worst(s[a]), Worst(s[c]))
            \/ Worst(s[a]) = Worst(s[c]) /\ a < c
        BY <1>1, <3>1, <3>2, <3>3, BeforeFacts
      <3> QED
        BY <1>3, <3>4
    <2>4. ASSUME NEW a \in D, NEW b \in D
          PROVE  a = b \/ <<a, b>> \in R \/ <<b, a>> \in R
      <3>1. a = b \/ a < b \/ b < a
        BY <2>1
      <3> QED
        BY <1>1, <1>3, <3>1, BeforeFacts
    <2> QED
      BY <2>2, <2>3, <2>4 DEF OrdersStrictly
  <1>5. /\ o \in [1 .. n -> D]
        /\ \A i \in D : \E k \in 1 .. n : o[k] = i
        /\ \A a, b \in 1 .. n : a < b => <<o[a], o[b]>> \in R
    BY <1>2, <1>4, InOrderFacts
  <1>6. t = [k \in DOMAIN o |-> s[o[k]]]
    BY DEF SortFindings, R, D
  <1> HIDE DEF o, t
  <1>7. t \in [1 .. n -> Findings] /\ \A k \in 1 .. n : t[k] = s[o[k]] /\ o[k] \in D
    BY <1>1, <1>5, <1>6
  <1>8. t \in Seq(Findings) /\ Len(t) = n /\ DOMAIN t = 1 .. n
    BY <1>1, <1>7
  <1>9. ToSet(t) = ToSet(s)
    <2>1. ToSet(t) = {t[k] : k \in 1 .. n} /\ ToSet(s) = {s[i] : i \in D}
      BY <1>8 DEF ToSet, D
    <2>2. \A k \in 1 .. n : t[k] \in {s[i] : i \in D}
      BY <1>7
    <2>3. \A i \in D : s[i] \in {t[k] : k \in 1 .. n}
      <3> SUFFICES ASSUME NEW i \in D
                   PROVE  s[i] \in {t[k] : k \in 1 .. n}
        OBVIOUS
      <3>1. PICK k \in 1 .. n : o[k] = i
        BY <1>5
      <3> QED
        BY <1>7, <3>1
    <2> QED
      BY <2>1, <2>2, <2>3
  <1>10. ASSUME NEW i \in 1 .. n, NEW j \in 1 .. n, i < j
         PROVE  t[i].priority <= t[j].priority
    <2>1. <<o[i], o[j]>> \in R /\ o[i] \in D /\ o[j] \in D
      BY <1>5, <1>10
    <2>2. Before(Worst(t[i]), Worst(t[j])) \/ Worst(t[i]) = Worst(t[j])
      BY <1>3, <1>7, <2>1
    <2> QED
      BY <1>7, <2>2, BeforeFacts
  <1> QED
    BY <1>8, <1>9, <1>10 DEF t, n

\* The cut keeps the first.
LEMMA TruncateFacts ==
    ASSUME NEW s \in Seq(Findings)
    PROVE  /\ Truncate(s) \in Seq(Findings)
           /\ Len(Truncate(s)) = IF Len(s) < FindingLimit THEN Len(s) ELSE FindingLimit
           /\ \A i \in 1 .. Len(Truncate(s)) : i \in 1 .. Len(s) /\ Truncate(s)[i] = s[i]
  <1> DEFINE m == IF Len(s) < FindingLimit THEN Len(s) ELSE FindingLimit
  <1>1. m \in Nat /\ m <= Len(s) /\ Truncate(s) = SubSeq(s, 1, m) /\ Len(s) \in Nat
    BY LimitAssumption DEF Truncate
  <1> HIDE DEF m
  <1>2. SubSeq(s, 1, m) \in Seq(Findings) /\ Len(SubSeq(s, 1, m)) = m
    BY <1>1
  <1>3. \A i \in 1 .. m : i \in 1 .. Len(s) /\ SubSeq(s, 1, m)[i] = s[i]
    BY <1>1
  <1> QED
    BY <1>1, <1>2, <1>3 DEF m

LEMMA WorstRankFacts ==
    ASSUME NEW results \in Seq(Results), results # <<>>
    PROVE  /\ WorstRank(results) \in 0 .. 3
           /\ \A i \in DOMAIN results : WorstRank(results) <= results[i].rank
  <1> DEFINE ranks == {results[i].rank : i \in DOMAIN results}
  <1>1. \A i \in DOMAIN results : results[i].rank \in 0 .. 3
    <2>1. \A i \in DOMAIN results : results[i] \in Results
      OBVIOUS
    <2> QED
      BY <2>1 DEF Results
  <1>2. ranks \subseteq 0 .. 3 /\ ranks # {}
    <2>1. 1 \in DOMAIN results
      OBVIOUS
    <2> QED
      BY <1>1, <2>1
  <1>3. WorstRank(results) = CHOOSE r \in ranks : \A q \in ranks : r <= q
    BY DEF WorstRank
  <1>4. \A i \in DOMAIN results : results[i].rank \in ranks
    OBVIOUS
  <1> HIDE DEF ranks
  <1>5. \E r \in ranks : \A q \in ranks : r <= q
    <2>1. CASE 0 \in ranks
      BY <1>2, <2>1
    <2>2. CASE 0 \notin ranks /\ 1 \in ranks
      BY <1>2, <2>2
    <2>3. CASE 0 \notin ranks /\ 1 \notin ranks /\ 2 \in ranks
      BY <1>2, <2>3
    <2>4. CASE 0 \notin ranks /\ 1 \notin ranks /\ 2 \notin ranks
      <3>1. \A q \in ranks : q = 3
        BY <1>2, <2>4
      <3>2. PICK q \in ranks : q = 3
        BY <1>2, <3>1
      <3>3. \A p \in ranks : q <= p
        BY <3>1, <3>2
      <3> QED
        BY <3>3
    <2> QED
      BY <2>1, <2>2, <2>3, <2>4
  <1> QED
    BY <1>2, <1>3, <1>4, <1>5

\* The merged result.
LEMMA MergeFacts ==
    ASSUME NEW results \in Seq(Results),
           \A i \in DOMAIN results : results[i].verdict = "clean" => ToSet(results[i].findings) = {}
    PROVE  LET merged == MergeReviewResults(results)
               kept == ToSet(merged.findings)
               said == UNION {ToSet(results[i].findings) : i \in DOMAIN results}
           IN  /\ merged \in Results
               /\ merged.verdict = "clean" => kept = {}
               /\ kept \subseteq said
               /\ \A i \in DOMAIN results : merged.rank <= results[i].rank
               /\ \A f, g \in kept : MergeKey(f) = MergeKey(g) => f = g
               /\ \A f \in said :
                    \/ \E g \in kept : MergeKey(g) = MergeKey(f) /\ g.priority <= f.priority
                    \/ /\ Len(merged.findings) = FindingLimit
                       /\ \A g \in kept : g.priority <= f.priority
  <1> DEFINE merged == MergeReviewResults(results)
             kept == ToSet(merged.findings)
             said == UNION {ToSet(results[i].findings) : i \in DOMAIN results}
             byKey == FindingsByKey(results)
             sorted == SortFindings(byKey)
             cut == Truncate(sorted)
  <1>1. CASE results = <<>>
    <2>1. /\ merged.verdict = "clean" /\ merged.rank = 3 /\ merged.findings = <<>>
          /\ merged = [verdict |-> "clean", rank |-> 3, findings |-> <<>>]
      BY <1>1 DEF MergeReviewResults, CleanResult
    <2>2. DOMAIN results = {} /\ said = {}
      BY <1>1
    <2>3. merged \in Results
      BY <2>1 DEF Results
    <2>4. kept = {}
      BY <2>1 DEF ToSet
    <2> QED
      BY <2>2, <2>3, <2>4
  <1>2. CASE results # <<>>
    <2>1. KeepsWorst(byKey, said)
      <3>1. SaidBy(results, Len(results)) = said
        BY DEF SaidBy
      <3> QED
        BY <3>1, FindingsByKeyKeeps
    <2>2. merged = [verdict |-> WorstVerdict(results), rank |-> WorstRank(results), findings |-> cut]
      BY <1>2 DEF MergeReviewResults
    <2>3. byKey \in Seq(Findings)
      BY <2>1 DEF KeepsWorst
    <2> DEFINE n == Len(byKey)
               m == Len(cut)
    <2>4. /\ sorted \in Seq(Findings) /\ Len(sorted) = n /\ ToSet(sorted) = ToSet(byKey)
          /\ \A i, j \in 1 .. n : i < j => sorted[i].priority <= sorted[j].priority
      BY <2>3, SortFacts
    <2>5. /\ cut \in Seq(Findings) /\ m = (IF n < FindingLimit THEN n ELSE FindingLimit)
          /\ \A i \in 1 .. m : i \in 1 .. n /\ cut[i] = sorted[i]
      BY <2>4, TruncateFacts
    <2>6. WorstVerdict(results) \in {"clean", "needs_attention"}
      BY DEF WorstVerdict
    <2> HIDE DEF byKey, sorted, cut, said, merged
    <2>7. merged \in Results
      BY <1>2, <2>2, <2>5, <2>6, WorstRankFacts DEF Results
    <2>8. \A i \in DOMAIN results : merged.rank <= results[i].rank
      BY <1>2, <2>2, WorstRankFacts
    <2>9. merged.findings = cut
      BY <2>2
    <2>10. /\ n \in Nat /\ m \in Nat
           /\ DOMAIN cut = 1 .. m /\ DOMAIN sorted = 1 .. n /\ DOMAIN byKey = 1 .. n
      BY <2>3, <2>4, <2>5
    <2>11. kept = {cut[i] : i \in 1 .. m}
      BY <2>9, <2>10 DEF ToSet
    <2>12. kept \subseteq ToSet(byKey)
      <3>1. \A i \in 1 .. m : cut[i] \in ToSet(sorted)
        BY <2>5, <2>10 DEF ToSet
      <3> QED
        BY <2>4, <2>11, <3>1
    <2>13. ToSet(byKey) \subseteq said
      BY <2>1, <2>10 DEF KeepsWorst, ToSet
    <2>14. \A f, g \in ToSet(byKey) : MergeKey(f) = MergeKey(g) => f = g
      BY <2>1, <2>10 DEF KeepsWorst, ToSet
    <2>15. ASSUME merged.verdict = "clean"
           PROVE  kept = {}
      <3>1. \A i \in DOMAIN results : results[i].verdict # "needs_attention"
        BY <2>2, <2>15 DEF WorstVerdict
      <3>2. \A i \in DOMAIN results : results[i].verdict \in {"clean", "needs_attention"}
        <4>1. \A i \in DOMAIN results : results[i] \in Results
          OBVIOUS
        <4> QED
          BY <4>1 DEF Results
      <3>3. said = {}
        BY <3>1, <3>2 DEF said
      <3> QED
        BY <2>12, <2>13, <3>3
    <2>16. ASSUME NEW f \in said
           PROVE  \/ \E g \in kept : MergeKey(g) = MergeKey(f) /\ g.priority <= f.priority
                  \/ /\ Len(merged.findings) = FindingLimit
                     /\ \A g \in kept : g.priority <= f.priority
      <3>1. PICK i \in 1 .. n : MergeKey(byKey[i]) = MergeKey(f) /\ byKey[i].priority <= f.priority
        BY <2>1 DEF KeepsWorst
      <3>2. byKey[i] \in ToSet(sorted)
        BY <2>4, <2>10 DEF ToSet
      <3>3. PICK j \in 1 .. n : sorted[j] = byKey[i]
        BY <2>10, <3>2 DEF ToSet
      <3>4. CASE j \in 1 .. m
        <4>1. cut[j] \in kept /\ cut[j] = byKey[i]
          BY <2>5, <2>11, <3>3, <3>4
        <4> QED
          BY <3>1, <4>1
      <3>5. CASE j \notin 1 .. m
        <4>1. m = FindingLimit /\ m < j
          <5>1. FindingLimit \in Nat
            BY LimitAssumption
          <5>2. m = n \/ m = FindingLimit
            BY <2>5
          <5> HIDE DEF m, n
          <5>3. m < j
            BY <2>10, <3>5
          <5> QED
            BY <2>10, <5>2, <5>3
        <4>2. f \in Findings /\ byKey[i] \in Findings
          <5>1. byKey[i] \in Findings
            BY <2>3
          <5>2. \A k \in DOMAIN results : ToSet(results[k].findings) \subseteq Findings
            <6>1. \A k \in DOMAIN results : results[k] \in Results
              OBVIOUS
            <6>2. \A k \in DOMAIN results : results[k].findings \in Seq(Findings)
              BY <6>1 DEF Results
            <6> QED
              BY <6>2 DEF ToSet
          <5> QED
            BY <5>1, <5>2 DEF said
        <4>3. ASSUME NEW k \in 1 .. m
              PROVE  cut[k].priority <= f.priority
          <5>1. k \in 1 .. n /\ k < j /\ cut[k] = sorted[k]
            BY <2>5, <2>10, <4>1
          <5>2. cut[k].priority <= byKey[i].priority
            BY <2>4, <3>3, <5>1
          <5>3. cut[k].priority \in Nat /\ byKey[i].priority \in Nat /\ f.priority \in Nat
            <6>1. cut[k] \in Findings
              BY <2>5
            <6>2. \A g \in Findings : g.priority \in Nat
              BY DEF Findings
            <6> QED
              BY <4>2, <6>1, <6>2
          <5> QED
            BY <3>1, <5>2, <5>3
        <4> QED
          BY <2>9, <2>11, <4>1, <4>3
      <3> QED
        BY <3>4, <3>5
    <2> HIDE DEF kept
    <2>17. kept \subseteq said /\ \A f, g \in kept : MergeKey(f) = MergeKey(g) => f = g
      BY <2>12, <2>13, <2>14
    <2> QED
      BY <2>7, <2>8, <2>15, <2>16, <2>17 DEF kept, said, merged
  <1> QED
    BY <1>1, <1>2

-----------------------------------------------------------------------------
(* What a context lets through.                                            *)

\* A finding in a file that the review covers, on a line that is taken for one
\* that was added.
Reviewable(f, files) ==
    /\ f.path \in ToSet(BuildDiffBatches(files).reviewed)
    /\ \E g \in ToSet(files) : g.path = f.path /\ f.line \in ParseChangedLines(g.patch)

LEMMA AnchoredFacts ==
    ASSUME NEW files, NEW paths, NEW f, <<f.path, f.line>> \in Anchors(files, paths)
    PROVE  f.path \in paths /\ \E g \in ToSet(files) : g.path = f.path /\ f.line \in ParseChangedLines(g.patch)
  <1>1. PICK g \in FilesAt(files, paths) : <<f.path, f.line>> \in {g.path} \X ParseChangedLines(g.patch)
    BY DEF Anchors
  <1>2. g \in ToSet(files) /\ g.path \in paths
    BY DEF FilesAt
  <1>3. f.path = g.path /\ f.line \in ParseChangedLines(g.patch)
    BY <1>1
  <1> QED
    BY <1>2, <1>3

LEMMA BatchContextFacts ==
    ASSUME NEW files \in Seq(ChangedFiles), DistinctPaths(files),
           NEW i \in DOMAIN BuildDiffBatches(files).batches, NEW f,
           Locatable(f, BatchContext(files, BuildDiffBatches(files), i))
    PROVE  Reviewable(f, files)
  <1> DEFINE plan == BuildDiffBatches(files)
             paths == plan.batches[i].files
             n == Len(files)
  <1>1. /\ plan \in Plans /\ Faithful(files, n, plan.batches)
        /\ ToSet(plan.reviewed) = Shown(files, n)
    BY PlanFacts
  <1>2. <<f.path, f.line>> \in Anchors(files, ToSet(paths))
    BY DEF Locatable, BatchContext
  <1>3. f.path \in ToSet(paths) /\ \E g \in ToSet(files) : g.path = f.path /\ f.line \in ParseChangedLines(g.patch)
    BY <1>2, AnchoredFacts
  <1> HIDE DEF plan, n
  <1>4. i \in 1 .. Len(plan.batches)
    BY <1>1 DEF Faithful, plan
  <1>5. Sound(files, n, plan.batches[i])
    BY <1>1, <1>4 DEF Faithful
  <1>6. paths \in Seq(Nat) /\ \A a \in 1 .. Len(paths) : paths[a] \in Shown(files, n)
    BY <1>5 DEF Sound, OneBatch
  <1> HIDE DEF paths
  <1>7. f.path \in Shown(files, n)
    BY <1>3, <1>6 DEF ToSet
  <1> QED
    BY <1>1, <1>3, <1>7 DEF Reviewable, plan

LEMMA DiffContextFacts ==
    ASSUME NEW files \in Seq(ChangedFiles), DistinctPaths(files), NEW f,
           Locatable(f, BuildDiffContext(files, BuildDiffBatches(files)))
    PROVE  Reviewable(f, files)
  <1> DEFINE plan == BuildDiffBatches(files)
             n == Len(files)
             shown == IF plan.batches = <<>> THEN {} ELSE ToSet(plan.batches[1].files)
             c == BuildDiffContext(files, plan)
  <1>1. /\ ToSet(plan.reviewed) = Shown(files, n) /\ ToSet(plan.omitted) = NotShown(files, n)
        /\ Faithful(files, n, plan.batches)
    BY PlanFacts
  <1>2. /\ c.anchors = Anchors(files, PathsOf(ToSet(files)))
        /\ c.omitted = ToSet(plan.omitted) \union (ToSet(plan.reviewed) \ shown)
    BY DEF BuildDiffContext
  <1> HIDE DEF plan, shown, c
  <1>3. f.path \notin c.omitted /\ <<f.path, f.line>> \in c.anchors
    BY DEF Locatable, c, plan
  <1>4. f.path \in PathsOf(ToSet(files)) /\ \E g \in ToSet(files) : g.path = f.path /\ f.line \in ParseChangedLines(g.patch)
    <2>1. <<f.path, f.line>> \in Anchors(files, PathsOf(ToSet(files)))
      BY <1>2, <1>3
    <2> QED
      BY <2>1, AnchoredFacts
  <1>5. PICK m \in 1 .. n : files[m].path = f.path
    BY <1>4 DEF PathsOf, ToSet
  <1>6. f.path \in Shown(files, n) \union NotShown(files, n)
    BY <1>5 DEF Shown, NotShown
  <1>7. f.path \in ToSet(plan.reviewed)
    BY <1>1, <1>2, <1>3, <1>6
  <1> QED
    BY <1>4, <1>7 DEF Reviewable, plan
=============================================================================
