---------------------------- MODULE WebhookProofs -----------------------------
(***************************************************************************)
(* Proofs about what robomp does with the events of GitHub beside its      *)
(* queue, each part for any values of its constants: the intake counts     *)
(* every submission once and keeps to the caps; the watermark of the issue *)
(* index passes nothing unread; a closure that was cancelled stays         *)
(* cancelled, and a claimed row is in the hands of the tick or of one that *)
(* died.                                                                   *)
(***************************************************************************)
EXTENDS Intake, IssueIndex, Autoclose, FiniteSetTheorems, TLAPS

-----------------------------------------------------------------------------
(* Intake.                                                                 *)

\* Whom a decision counts for.
LEMMA DecidedFor ==
    /\ \A task, key, by, assoc, order : Decision(task, key, by, assoc, order).by = by
    /\ \A task, key, e : Comment(task, key, e).by = e.by
  BY DEF Decision, Comment

\* Whether a delivery counts for somebody, and for whom, does not depend on the
\* pull requests that are recorded.
LEMMA RoutedFor == \A e, p, q : Route(e, p).by = Route(e, q).by
  <1> SUFFICES ASSUME NEW e, NEW p, NEW q
               PROVE  Route(e, p).by = Route(e, q).by
    OBVIOUS
  <1>1. RouteIssueComment(e, p).by = RouteIssueComment(e, q).by
    BY DecidedFor DEF RouteIssueComment
  <1>2. RouteReviewComment(e, p).by = RouteReviewComment(e, q).by
    BY DecidedFor DEF RouteReviewComment
  <1>3. RoutePull(e, p).by = RoutePull(e, q).by
    BY DecidedFor DEF RoutePull
  <1> QED
    BY <1>1, <1>2, <1>3 DEF Route

-----------------------------------------------------------------------------
Submissions ==
    [delivery : Webhooks, by : {Route(EventOf[d], <<>>).by : d \in Webhooks}, at : Nat,
     cap : {Default, Contributor, Unlimited}]

IntakeInv ==
    /\ IntakeTypeOK
    /\ submissions \in Seq(Submissions)
    /\ WithinCap

\* A part of a sequence's places has a size, and one place more adds one at most.
LEMMA OnePlaceMore ==
    ASSUME NEW k \in Nat, NEW S \in SUBSET (1 .. k), NEW x
    PROVE  /\ Cardinality(S) \in Nat
           /\ Cardinality(S \union {x}) \in Nat
           /\ Cardinality(S \union {x}) <= Cardinality(S) + 1
  <1>1. IsFiniteSet(1 .. k)
    BY FS_Interval
  <1>2. IsFiniteSet(S) /\ IsFiniteSet(S \union {x})
    BY <1>1, FS_Subset, FS_AddElement
  <1>3. Cardinality(S) \in Nat /\ Cardinality(S \union {x}) \in Nat
    BY <1>2, FS_CardinalityType
  <1> QED
    BY <1>2, <1>3, FS_AddElement

\* A delivery that is let in is the last of no more than its author may have.
LEMMA AdmittedWithinCap ==
    ASSUME IntakeInv, NEW d \in Webhooks, NEW assoc, ~Counted(d),
           LET by == Route(EventOf[d], botPulls).by
           IN  /\ Admits(d, by, assoc)
               /\ RecordSubmission(d, by, assoc),
           UNCHANGED time
    PROVE  /\ submissions' \in Seq(Submissions)
           /\ Counted(d)' /\ \A c : Counted(c) => Counted(c)'
           /\ \A i \in DOMAIN submissions' :
                submissions'[i].at <= time /\ submissions'[i].delivery \in Webhooks
           /\ \A i \in DOMAIN submissions' :
                LET s == submissions'[i]
                    before == {j \in 1 .. i : submissions'[j].by = s.by
                                               /\ submissions'[j].at + Window >= s.at}
                IN  s.cap # Unlimited => Cardinality(before) <= s.cap
           /\ \A i, j \in DOMAIN submissions' :
                submissions'[i].delivery = submissions'[j].delivery => i = j
  <1> USE DEF IntakeInv
  <1> DEFINE by == Route(EventOf[d], botPulls).by
             cap == RateLimitCap(by, assoc)
             s == [delivery |-> d, by |-> by, at |-> time, cap |-> cap]
             n == Len(submissions)
             Before(sub, i) == {j \in 1 .. i : sub[j].by = sub[i].by
                                                /\ sub[j].at + Window >= sub[i].at}
  <1>1. s \in Submissions
    <2>1. by = Route(EventOf[d], <<>>).by
      BY RoutedFor
    <2>2. cap \in {Default, Contributor, Unlimited}
      BY DEF RateLimitCap
    <2>3. time \in Nat
      BY IntakeAssumption DEF IntakeTypeOK
    <2> HIDE DEF by, cap
    <2> QED
      BY <2>1, <2>2, <2>3 DEF Submissions
  <1>2. cap # Unlimited => cap \in Nat /\ Cardinality(Recent(by, time)) < cap
    BY RoutingAssumption DEF Admits, RateLimitCap
  <1>3. submissions' = Append(submissions, s)
    BY DEF RecordSubmission
  <1>4. by = s.by /\ cap = s.cap /\ s.at = time /\ s.delivery = d
    OBVIOUS
  <1> HIDE DEF by, cap, s
  <1>5. /\ submissions' \in Seq(Submissions) /\ n \in Nat
        /\ DOMAIN submissions = 1 .. n /\ DOMAIN submissions' = 1 .. n + 1
        /\ \A i \in 1 .. n : submissions'[i] = submissions[i] /\ submissions[i] \in Submissions
        /\ submissions'[n + 1] = s
    BY <1>1, <1>3
  <1> HIDE DEF n
  <1>6. Counted(d)' /\ \A c : Counted(c) => Counted(c)'
    <2>1. n + 1 \in DOMAIN submissions' /\ \A i \in 1 .. n : i \in DOMAIN submissions'
      BY <1>5
    <2> QED
      BY <1>4, <1>5, <2>1 DEF Counted
  <1>7. ASSUME NEW i \in DOMAIN submissions'
        PROVE  /\ submissions'[i].at <= time /\ submissions'[i].delivery \in Webhooks
               /\ submissions'[i].cap # Unlimited =>
                     Cardinality(Before(submissions', i)) <= submissions'[i].cap
    <2>1. CASE i \in 1 .. n
      <3>1. \A j \in 1 .. i : j \in 1 .. n
        BY <1>5, <2>1
      <3>2. Before(submissions', i) = Before(submissions, i)
        BY <1>5, <2>1, <3>1
      <3>3. submissions[i].cap # Unlimited =>
                Cardinality(Before(submissions, i)) <= submissions[i].cap
        BY <1>5, <2>1 DEF WithinCap
      <3> QED
        BY <1>5, <2>1, <3>2, <3>3 DEF IntakeTypeOK
    <2>2. CASE i = n + 1
      <3>1. Before(submissions', i) = Recent(by, time) \union {n + 1}
        <4>1. time + Window >= time
          BY IntakeAssumption DEF IntakeTypeOK
        <4>2. 1 .. n + 1 = (1 .. n) \union {n + 1}
          BY <1>5
        <4>3. \A j \in 1 .. n : submissions'[j] = submissions[j]
          BY <1>5
        <4> QED
          BY <1>4, <1>5, <2>2, <4>1, <4>2, <4>3 DEF Recent
      <3>2. Recent(by, time) \in SUBSET (1 .. n)
        BY <1>5 DEF Recent
      <3>3. /\ Cardinality(Recent(by, time)) \in Nat
            /\ Cardinality(Recent(by, time) \union {n + 1}) \in Nat
            /\ Cardinality(Recent(by, time) \union {n + 1}) <= Cardinality(Recent(by, time)) + 1
        BY <1>5, <3>2, OnePlaceMore
      <3>4. cap # Unlimited => Cardinality(Before(submissions', i)) <= cap
        <4> HIDE DEF Before
        <4> QED
          BY <1>2, <3>1, <3>3
      <3>5. time <= time
        BY IntakeAssumption DEF IntakeTypeOK
      <3> QED
        BY <1>4, <1>5, <2>2, <3>4, <3>5
    <2> QED
      BY <1>5, <1>7, <2>1, <2>2
  <1>8. ASSUME NEW i \in DOMAIN submissions', NEW j \in DOMAIN submissions',
               submissions'[i].delivery = submissions'[j].delivery
        PROVE  i = j
    <2>1. \A k \in 1 .. n : submissions'[k].delivery # d
      BY <1>5 DEF Counted
    <2>2. i \in 1 .. n \/ i = n + 1
      BY <1>5
    <2>3. j \in 1 .. n \/ j = n + 1
      BY <1>5
    <2> QED
      BY <1>4, <1>5, <1>8, <2>1, <2>2, <2>3 DEF WithinCap
  <1> QED
    BY <1>5, <1>6, <1>7, <1>8

LEMMA InitAdmitted == IntakeInit => IntakeInv
  BY IntakeAssumption DEF IntakeInit, IntakeInv, IntakeTypeOK, WithinCap

LEMMA StepAdmitted ==
    ASSUME IntakeInv, [IntakeNext]_intakeVars
    PROVE  IntakeInv'
  <1> USE DEF IntakeInv
  <1>1. CASE Tick
    <2>1. /\ time' \in 0 .. MaxTime /\ \A k \in Nat : k <= time => k <= time'
          /\ UNCHANGED <<botPulls, submissions, received>>
      BY <1>1, IntakeAssumption DEF Tick, IntakeTypeOK
    <2>2. \A i \in DOMAIN submissions : submissions[i].at \in Nat
      <3>1. \A i \in DOMAIN submissions : submissions[i] \in Submissions
        OBVIOUS
      <3>2. \A s \in Submissions : s.at \in Nat
        BY DEF Submissions
      <3> QED
        BY <3>1, <3>2
    <2>3. IntakeTypeOK'
      BY <2>1, <2>2 DEF IntakeTypeOK
    <2>4. WithinCap'
      BY <1>1 DEF Tick, WithinCap, Counted
    <2> QED
      BY <1>1, <2>3, <2>4 DEF Tick
  <1>2. ASSUME NEW p \in DOMAIN PullsOfBot, OpenPull(p)
        PROVE  IntakeInv'
    <2>1. UNCHANGED <<time, submissions, received>> /\ DOMAIN botPulls' = DOMAIN botPulls \union {p}
      BY <1>2 DEF OpenPull
    <2>2. IntakeTypeOK'
      BY <2>1 DEF IntakeTypeOK
    <2>3. WithinCap'
      BY <2>1, RoutedFor DEF WithinCap, Counted
    <2> QED
      BY <2>1, <2>2, <2>3
  <1>3. ASSUME NEW d \in Webhooks, Deliver(d)
        PROVE  IntakeInv'
    <2> DEFINE decision == Route(EventOf[d], botPulls)
    <2>1. UNCHANGED <<time, botPulls>>
      BY <1>3 DEF Deliver
    <2>2. PICK st \in {"queued", "skipped"} :
            /\ RecordReceived(d, st)
            /\ \/ UNCHANGED submissions /\ (st = "queued" => decision.by = Lifecycle)
               \/ /\ Admits(d, decision.by, decision.assoc)
                  /\ RecordSubmission(d, decision.by, decision.assoc)
      BY <1>3 DEF Deliver
    <2>3. /\ DOMAIN received' = DOMAIN received \union {d}
          /\ received' \in [DOMAIN received' -> {"queued", "skipped"}]
          /\ \A c \in DOMAIN received : received'[c] = received[c]
          /\ d \in DOMAIN received \/ received'[d] = st
      BY <2>2 DEF RecordReceived, IntakeTypeOK
    <2>4. CASE UNCHANGED submissions /\ (st = "queued" => decision.by = Lifecycle \/ Counted(d))
      <3>1. IntakeTypeOK'
        BY <2>1, <2>3, <2>4 DEF IntakeTypeOK
      <3>2. WithinCap'
        BY <2>1, <2>3, <2>4 DEF WithinCap, Counted
      <3> QED
        BY <2>4, <3>1, <3>2
    <2>5. CASE /\ ~Counted(d)
               /\ Admits(d, decision.by, decision.assoc)
               /\ RecordSubmission(d, decision.by, decision.assoc)
      <3> HIDE DEF IntakeInv
      <3>1. /\ submissions' \in Seq(Submissions)
            /\ Counted(d)' /\ \A c : Counted(c) => Counted(c)'
            /\ \A i \in DOMAIN submissions' :
                 submissions'[i].at <= time /\ submissions'[i].delivery \in Webhooks
            /\ \A i \in DOMAIN submissions' :
                 LET s == submissions'[i]
                     before == {j \in 1 .. i : submissions'[j].by = s.by
                                                /\ submissions'[j].at + Window >= s.at}
                 IN  s.cap # Unlimited => Cardinality(before) <= s.cap
            /\ \A i, j \in DOMAIN submissions' :
                 submissions'[i].delivery = submissions'[j].delivery => i = j
        BY <2>1, <2>5, AdmittedWithinCap
      <3>2. IntakeTypeOK'
        BY <2>1, <2>3, <3>1 DEF IntakeInv, IntakeTypeOK
      <3>3. \A c \in DOMAIN received' :
                received'[c] = "queued" => Counted(c)' \/ Route(EventOf[c], botPulls).by = Lifecycle
        BY <2>3, <3>1 DEF IntakeInv, WithinCap
      <3>4. WithinCap'
        BY <2>1, <3>1, <3>3 DEF WithinCap
      <3> QED
        BY <3>1, <3>2, <3>4 DEF IntakeInv
    <2>6. Counted(d) /\ RecordSubmission(d, decision.by, decision.assoc) => UNCHANGED submissions
      BY DEF RecordSubmission
    <2> QED
      BY <2>2, <2>4, <2>5, <2>6
  <1>4. CASE UNCHANGED intakeVars
    BY <1>4 DEF intakeVars, IntakeTypeOK, WithinCap, Counted
  <1> QED
    BY <1>1, <1>2, <1>3, <1>4 DEF IntakeNext

\* What the intake records keeps to its values.
THEOREM IntakeTypes == IntakeSpec => []IntakeTypeOK
  <1>1. IntakeInv => IntakeTypeOK
    BY DEF IntakeInv
  <1> QED
    BY <1>1, InitAdmitted, StepAdmitted, PTL DEF IntakeSpec

\* No author has more than the cap in any window, and nothing is queued for an
\* author without being counted once, for any events, tiers and repetitions.
THEOREM CapIsKept == IntakeSpec => []WithinCap
  <1>1. IntakeInv => WithinCap
    BY DEF IntakeInv
  <1> QED
    BY <1>1, InitAdmitted, StepAdmitted, PTL DEF IntakeSpec

-----------------------------------------------------------------------------
(* IssueIndex: facts about finite sets.                                    *)

\* A finite nonempty set of numbers has a largest element.
LEMMA FiniteMax ==
    ASSUME NEW V \in SUBSET Nat, IsFiniteSet(V), V # {}
    PROVE  \E v \in V : \A u \in V : u <= v
  <1> DEFINE Above(v) == {u \in V : u > v}
             T == {Above(v) : v \in V}
             R == StrictSubsetOrdering(V)
  <1>1. T \subseteq FiniteSubsetsOf(V) /\ T # {}
    <2>1. \A v \in V : Above(v) \in SUBSET V /\ IsFiniteSet(Above(v))
      BY FS_Subset
    <2> QED
      BY <2>1 DEF FiniteSubsetsOf
  <1>2. PICK x \in T : \A y \in T : ~(<<y, x>> \in R)
    <2> HIDE DEF T
    <2> QED
      BY <1>1, WFMin, FS_StrictSubsetOrderingWellFounded
  <1>3. PICK v \in V : x = Above(v)
    OBVIOUS
  <1>4. ASSUME NEW u \in V, u > v
        PROVE  FALSE
    <2>1. Above(u) \subseteq Above(v) /\ u \in Above(v) /\ u \notin Above(u)
      <3>1. \A m \in V : m \in Nat
        OBVIOUS
      <3>2. \A m \in V : m > u => m > v
        BY <1>4, <3>1
      <3>3. ~(u > u)
        BY <3>1
      <3> QED
        BY <1>4, <3>2, <3>3
    <2>2. <<Above(u), Above(v)>> \in R
      <3>1. Above(u) \in SUBSET V /\ Above(v) \in SUBSET V /\ Above(u) # Above(v)
        BY <2>1
      <3> HIDE DEF Above
      <3> QED
        BY <2>1, <3>1 DEF StrictSubsetOrdering
    <2> QED
      BY <1>2, <1>3, <2>2
  <1> QED
    BY <1>4

\* The place of n among the elements of L, in the order of their ranks.
PlaceIn(L, v, n) == Cardinality({m \in L : v[m] <= v[n]})

\* Each place among the elements of a finite set is taken by one of them.
LEMMA PlaceFacts ==
    ASSUME NEW L, IsFiniteSet(L), NEW v, \A n \in L : v[n] \in Nat,
           \A m, n \in L : v[m] = v[n] => m = n
    PROVE  /\ Cardinality(L) \in Nat
           /\ \A n \in L : PlaceIn(L, v, n) \in 1 .. Cardinality(L)
           /\ \A m, n \in L : v[m] <= v[n] => PlaceIn(L, v, m) <= PlaceIn(L, v, n)
           /\ \A m, n \in L : PlaceIn(L, v, m) = PlaceIn(L, v, n) => m = n
           /\ \A k \in 1 .. Cardinality(L) : \E n \in L : PlaceIn(L, v, n) = k
  <1> DEFINE S(n) == {m \in L : v[m] <= v[n]}
             P(n) == Cardinality(S(n))
             f == [n \in L |-> P(n)]
  <1> USE DEF PlaceIn
  <1>1. \A n \in L : S(n) \in SUBSET L /\ n \in S(n) /\ IsFiniteSet(S(n))
    BY FS_Subset
  <1>2. Cardinality(L) \in Nat /\ \A n \in L : P(n) \in Nat
    BY <1>1, FS_CardinalityType
  <1>3. ASSUME NEW n \in L
        PROVE  P(n) \in 1 .. Cardinality(L)
    <2>1. P(n) # 0
      BY <1>1, FS_EmptySet
    <2>2. P(n) <= Cardinality(L)
      BY <1>1, FS_Subset
    <2> QED
      BY <1>2, <2>1, <2>2
  <1>4. ASSUME NEW m \in L, NEW n \in L, v[m] <= v[n]
        PROVE  P(m) <= P(n) /\ (P(m) = P(n) => m = n)
    <2>1. S(m) \in SUBSET S(n)
      BY <1>4
    <2>2. P(m) <= P(n) /\ (P(m) = P(n) => S(n) = S(m))
      BY <1>1, <2>1, FS_Subset
    <2>3. S(n) = S(m) => v[n] <= v[m]
      BY <1>1
    <2> QED
      BY <1>4, <2>2, <2>3
  <1>5. \A m, n \in L : P(m) = P(n) => m = n
    <2> SUFFICES ASSUME NEW m \in L, NEW n \in L, P(m) = P(n)
                 PROVE  m = n
      OBVIOUS
    <2>1. CASE v[m] <= v[n]
      BY <1>4, <2>1
    <2>2. CASE v[n] <= v[m]
      BY <1>4, <2>2
    <2> QED
      BY <2>1, <2>2
  <1>6. \A k \in 1 .. Cardinality(L) : \E n \in L : P(n) = k
    <2> DEFINE I == 1 .. Cardinality(L)
    <2>1. IsFiniteSet(I) /\ Cardinality(I) = Cardinality(L)
      BY <1>2, FS_Interval
    <2>2. f \in [L -> I] /\ \A n \in L : f[n] = P(n)
      BY <1>3
    <2> HIDE DEF I, f, P
    <2>3. f \in Injection(L, I)
      BY <1>5, <2>2 DEF Injection, IsInjective
    <2>4. f \in Surjection(L, I)
      BY <2>1, <2>3, FS_Injection
    <2>5. \A k \in I : \E n \in L : f[n] = k
      BY <2>4 DEF Surjection
    <2> QED
      BY <2>2, <2>5 DEF I
  <1> QED
    BY <1>2, <1>3, <1>4, <1>5, <1>6

-----------------------------------------------------------------------------
(* IssueIndex: the inductive invariant.                                    *)

\* What this sync will have told the index, or has an excuse for.
Known == stored \union overtaken \union missed \union arrived

\* GitHub lists one issue after the other, those updated earlier before those
\* updated later.
Ranked ==
    /\ \A m, n \in Numbers : rank[m] = rank[n] => m = n
    /\ \A m, n \in Numbers : rank[m] <= rank[n] => updatedAt[m] <= updatedAt[n]

\* A sync begins no later than the watermark, and its locals are reset between
\* ticks.
SyncLocals ==
    /\ sync # "idle" => page > 0
    /\ sync = "idle" => lastSeen = 0
    /\ sync # "page" => arrived = {}
    /\ since <= watermark \/ since <= 1

\* What stands on a page that was read is known.
PagesAreRead == \A n \in Numbers : AtReadPlace(n) => Entry(n) \in Known

\* So is what was updated in an earlier second than an entry of such a page, ...
OlderIsKnown ==
    \A n \in Numbers :
        /\ since <= updatedAt[n]
        /\ updatedAt[n] < lastSeen \/ \E e \in arrived : updatedAt[n] < e[3]
        => Entry(n) \in Known

\* ... and, after a page that is not full, what was updated before the tick.
ShortPageIsLast ==
    sync = "page" /\ Cardinality(arrived) < PageSize =>
        \A n \in Numbers :
            since <= updatedAt[n] /\ updatedAt[n] < started => Entry(n) \in Known

IndexInv ==
    /\ IndexTypeOK
    /\ Ranked
    /\ SyncLocals
    /\ WatermarkIsHonest
    /\ PagesAreRead
    /\ OlderIsKnown
    /\ ShortPageIsLast

-----------------------------------------------------------------------------
LEMMA NumbersFinite == IsFiniteSet(Numbers)
  BY IndexAssumption, FS_Interval DEF Numbers

LEMMA NumbersAreNat == Numbers \subseteq Nat
  BY IndexAssumption DEF Numbers

\* Where the issues of the listing GitHub would page over now stand ...
LEMMA PlacesNow ==
    ASSUME IndexTypeOK, Ranked
    PROVE  /\ Cardinality(Listed) \in Nat
           /\ \A n \in Listed : Place(n) \in 1 .. Cardinality(Listed)
           /\ \A m, n \in Listed : rank[m] <= rank[n] => Place(m) <= Place(n)
           /\ \A m, n \in Listed : Place(m) = Place(n) => m = n
           /\ \A k \in 1 .. Cardinality(Listed) : \E n \in Listed : Place(n) = k
  <1>1. IsFiniteSet(Listed) /\ Listed \in SUBSET Numbers
    BY NumbersFinite, FS_Subset DEF Listed
  <1>2. /\ \A n \in Listed : rank[n] \in Nat
        /\ \A m, n \in Listed : rank[m] = rank[n] => m = n
    <2>1. \A n \in Numbers : rank[n] \in Nat
      BY NumbersAreNat DEF IndexTypeOK
    <2> QED
      BY <1>1, <2>1 DEF Ranked
  <1>3. \A n : Place(n) = PlaceIn(Listed, rank, n)
    BY DEF Place, PlaceIn
  <1> QED
    BY <1>1, <1>2, <1>3, PlaceFacts

\* ... and after a step: the first of them at place 1.
LEMMA PlacesNext ==
    ASSUME IndexTypeOK', Ranked'
    PROVE  \A n \in Listed' : Place(n)' \in Nat \ {0}
  <1>1. IsFiniteSet(Listed') /\ Listed' \in SUBSET Numbers
    BY NumbersFinite, FS_Subset DEF Listed
  <1>2. /\ \A n \in Listed' : rank'[n] \in Nat
        /\ \A m, n \in Listed' : rank'[m] = rank'[n] => m = n
    <2>1. \A n \in Numbers : rank'[n] \in Nat
      BY NumbersAreNat DEF IndexTypeOK
    <2> QED
      BY <1>1, <2>1 DEF Ranked
  <1>3. \A n : Place(n)' = PlaceIn(Listed', rank', n)
    BY DEF Place, PlaceIn
  <1> QED
    BY <1>1, <1>2, <1>3, PlaceFacts

\* The largest time of a page and the pages before it is one of theirs.
LEMMA LastSeenType ==
    ASSUME IndexTypeOK
    PROVE  /\ NewLastSeen \in 0 .. clock
           /\ NewLastSeen = lastSeen \/ \E e \in arrived : NewLastSeen = e[3]
  <1> DEFINE V == {lastSeen} \union {e[3] : e \in arrived}
  <1>1. V \in SUBSET Nat /\ V \subseteq 0 .. clock /\ V # {}
    BY IndexAssumption DEF IndexTypeOK, IndexEntries
  <1>2. IsFiniteSet(V)
    <2>1. IsFiniteSet(0 .. clock)
      BY IndexAssumption, FS_Interval DEF IndexTypeOK
    <2> QED
      BY <1>1, <2>1, FS_Subset
  <1>3. NewLastSeen \in V
    <2> HIDE DEF V
    <2>1. \E v \in V : \A u \in V : u <= v
      BY <1>1, <1>2, FiniteMax
    <2>2. NewLastSeen = CHOOSE v \in V : \A u \in V : u <= v
      BY DEF NewLastSeen, V
    <2> QED
      BY <2>1, <2>2
  <1> QED
    BY <1>1, <1>3

\* Storing entries keeps the index and its history of the right type.
LEMMA UpsertTypes ==
    ASSUME IndexTypeOK, NEW entries \in SUBSET IndexEntries,
           UpsertIssueIndex(entries)
    PROVE  /\ index' \in [Numbers -> 0 .. updates]
           /\ stored' \subseteq IndexEntries
           /\ stored' = stored \union entries
  <1>1. \A n \in Numbers : (\E e \in entries : e[1] = n) =>
            (CHOOSE e \in entries : e[1] = n)[2] \in 0 .. updates
    <2> SUFFICES ASSUME NEW n \in Numbers, \E e \in entries : e[1] = n
                 PROVE  (CHOOSE e \in entries : e[1] = n)[2] \in 0 .. updates
      OBVIOUS
    <2>1. (CHOOSE e \in entries : e[1] = n) \in IndexEntries
      OBVIOUS
    <2> QED
      BY <2>1, IndexAssumption DEF IndexTypeOK, IndexEntries
  <1> QED
    BY <1>1 DEF IndexTypeOK, UpsertIssueIndex

-----------------------------------------------------------------------------
\* A step that leaves GitHub and the sync alone, and forgets nothing.
LEMMA FrameKeeps ==
    ASSUME IndexInv, IndexTypeOK', UNCHANGED <<revision, updatedAt, rank, syncLocals>>,
           Known \subseteq Known', UNCHANGED watermark,
           stored \union overtaken \subseteq stored' \union overtaken'
    PROVE  IndexInv'
  <1>1. Ranked' /\ SyncLocals'
    BY DEF IndexInv, Ranked, SyncLocals, syncLocals
  <1>2. UNCHANGED Listed /\ \A n \in Numbers : UNCHANGED Entry(n)
    BY DEF Listed, Entry, syncLocals
  <1>3. \A n \in Numbers : AtReadPlace(n)' <=> AtReadPlace(n)
    <2>1. \A n : Place(n)' = Place(n)
      BY <1>2 DEF Place
    <2> QED
      BY <1>2, <2>1 DEF AtReadPlace, ReadPlaces, syncLocals
  <1>4. WatermarkIsHonest'
    BY <1>2 DEF IndexInv, WatermarkIsHonest
  <1>5. PagesAreRead'
    BY <1>2, <1>3 DEF IndexInv, PagesAreRead
  <1>6. OlderIsKnown' /\ ShortPageIsLast'
    BY <1>2 DEF IndexInv, OlderIsKnown, ShortPageIsLast, syncLocals
  <1> QED
    BY <1>1, <1>4, <1>5, <1>6 DEF IndexInv

\* A sync that has read no page yet claims nothing.
LEMMA NoPageRead ==
    ASSUME IndexTypeOK', Ranked', sync' = "idle" \/ (sync' = "request" /\ page' = 1)
    PROVE  PagesAreRead'
  <1>1. ReadPlaces' = 0
    BY IndexAssumption DEF ReadPlaces
  <1>2. \A n \in Numbers : ~AtReadPlace(n)'
    BY <1>1, PlacesNext DEF AtReadPlace
  <1> QED
    BY <1>2 DEF PagesAreRead

\* That a second passes changes nothing but the time.
LEMMA TimeKeeps ==
    ASSUME IndexInv, TimePasses
    PROVE  IndexInv'
  <1>1. clock \in Nat /\ clock' = clock + 1 /\ clock' \in Count .. Count + MaxSeconds
    BY IndexAssumption DEF IndexInv, IndexTypeOK, TimePasses
  <1>2. UNCHANGED <<updates, revision, updatedAt, rank, deliveries, index, watermark, syncLocals,
                    stored, overtaken, syncs>>
    BY DEF TimePasses, issues
  <1>3. 1 .. clock \subseteq 1 .. clock' /\ 0 .. clock \subseteq 0 .. clock'
    BY <1>1
  <1>4. IndexTypeOK'
    <2>1. IndexEntries \subseteq IndexEntries'
      BY <1>2, <1>3 DEF IndexEntries
    <2> QED
      BY <1>1, <1>2, <1>3, <2>1 DEF IndexInv, IndexTypeOK, syncLocals
  <1>5. Known' = Known
    BY <1>2 DEF Known, syncLocals
  <1> QED
    BY <1>2, <1>4, <1>5, FrameKeeps

\* An update keeps the order of the others, and moves its issue behind all
\* that were updated in an earlier second.
LEMMA UpdateRanks ==
    ASSUME IndexInv, NEW n \in Numbers, NEW p \in Numbers, UpdateIssue(n, p)
    PROVE  Ranked' /\ rank' \in [Numbers -> Numbers]
  <1> USE DEF IndexInv
  <1>1. /\ clock \in Nat /\ Count \in Nat /\ p \in 1 .. Count
        /\ \A m \in Numbers : rank[m] \in 1 .. Count /\ updatedAt[m] \in 1 .. clock
        /\ rank[n] <= p
        /\ \A m \in Numbers : rank[m] > p => updatedAt[m] = clock
        /\ \A l, m \in Numbers : rank[l] = rank[m] => l = m
        /\ \A l, m \in Numbers : rank[l] <= rank[m] => updatedAt[l] <= updatedAt[m]
    <2>1. clock \in Nat /\ Count \in Nat /\ p \in 1 .. Count
      BY IndexAssumption DEF IndexTypeOK, Numbers
    <2>2. \A m \in Numbers : rank[m] \in Numbers /\ updatedAt[m] \in 1 .. clock
      BY DEF IndexTypeOK
    <2> QED
      BY <2>1, <2>2 DEF UpdateIssue, Ranked, Numbers
  <1>2. /\ \A m \in Numbers : updatedAt'[m] = IF m = n THEN clock ELSE updatedAt[m]
        /\ \A m \in Numbers : rank'[m] = IF m = n THEN p
                                         ELSE IF rank[n] < rank[m] /\ rank[m] <= p THEN rank[m] - 1
                                         ELSE rank[m]
    BY DEF UpdateIssue, IndexTypeOK
  <1>3. rank' \in [Numbers -> Numbers]
    <2>1. \A m \in Numbers : rank'[m] \in 1 .. Count
      BY <1>1, <1>2
    <2>2. rank' = [m \in Numbers |-> rank'[m]]
      BY DEF UpdateIssue
    <2> QED
      BY <2>1, <2>2 DEF Numbers
  <1>4. ASSUME NEW l \in Numbers, NEW m \in Numbers
        PROVE  rank'[l] = rank'[m] => l = m
    <2>1. rank[l] = rank[n] => l = n
      BY <1>1
    <2>2. rank[m] = rank[n] => m = n
      BY <1>1
    <2>3. rank[l] = rank[m] => l = m
      BY <1>1
    <2> QED
      BY <1>1, <1>2, <2>1, <2>2, <2>3
  <1>5. ASSUME NEW l \in Numbers, NEW m \in Numbers, rank'[l] <= rank'[m]
        PROVE  updatedAt'[l] <= updatedAt'[m]
    <2>1. CASE m = n
      BY <1>1, <1>2, <2>1
    <2>2. CASE m # n /\ l = n
      <3>1. rank[m] > p
        <4>1. rank[m] # rank[n]
          BY <1>1, <2>2
        <4> QED
          BY <1>1, <1>2, <1>5, <2>2, <4>1
      <3> QED
        BY <1>1, <1>2, <2>2, <3>1
    <2>3. CASE m # n /\ l # n
      <3>1. rank[l] # rank[n] /\ rank[m] # rank[n]
        BY <1>1, <2>3
      <3>2. rank[l] <= rank[m]
        BY <1>1, <1>2, <1>5, <2>3, <3>1
      <3> QED
        BY <1>1, <1>2, <2>3, <3>2
    <2> QED
      BY <2>1, <2>2, <2>3
  <1> QED
    BY <1>3, <1>4, <1>5 DEF Ranked

\* What an update moves onto a page that was read is missed.
LEMMA UpdateKeeps ==
    ASSUME IndexInv, NEW n \in Numbers, NEW p \in Numbers, UpdateIssue(n, p)
    PROVE  IndexInv'
  <1> USE DEF IndexInv
  <1>1. /\ updates' = updates + 1 /\ updates \in Nat /\ updates' \in 1 .. 1 + MaxUpdates
        /\ clock \in 1 .. clock
        /\ \A m \in Numbers : updatedAt'[m] = IF m = n THEN clock ELSE updatedAt[m]
        /\ \A m \in Numbers : revision'[m] = IF m = n THEN updates + 1 ELSE revision[m]
    <2>1. updates \in Nat /\ updates + 1 \in 1 .. 1 + MaxUpdates
      BY IndexAssumption DEF UpdateIssue, IndexTypeOK
    <2>2. clock \in 1 .. clock
      <3>1. Count >= 1
        BY IndexAssumption DEF Numbers
      <3> QED
        BY <3>1, IndexAssumption DEF IndexTypeOK
    <2> QED
      BY <2>1, <2>2 DEF UpdateIssue, IndexTypeOK
  <1>2. UNCHANGED <<clock, index, watermark, sync, started, since, page, lastSeen, arrived, stored,
                    overtaken, syncs>>
    BY DEF UpdateIssue
  <1>3. missed \subseteq missed' /\ Known \subseteq Known'
    BY <1>2 DEF UpdateIssue, Known
  <1>4. \A m \in Numbers : m # n => Entry(m)' = Entry(m)
    BY <1>1 DEF Entry
  <1>5. IndexTypeOK'
    <2>1. 1 .. updates \subseteq 1 .. updates' /\ 0 .. updates \subseteq 0 .. updates'
          /\ updates + 1 \in 1 .. updates'
      BY <1>1
    <2>2. revision' \in [Numbers -> 1 .. updates'] /\ updatedAt' \in [Numbers -> 1 .. clock]
      BY <1>1, <2>1 DEF UpdateIssue, IndexTypeOK
    <2>3. IndexEntries \subseteq IndexEntries' /\ \A m \in Numbers : Entry(m)' \in IndexEntries'
      BY <1>2, <2>1, <2>2 DEF IndexEntries, Entry
    <2>4. missed' \subseteq missed \union {Entry(m)' : m \in Numbers}
          /\ deliveries' = deliveries \union {Entry(n)'}
      BY DEF UpdateIssue
    <2>5. deliveries' \union stored \union arrived \union missed' \union overtaken \subseteq IndexEntries'
      BY <2>3, <2>4 DEF IndexTypeOK
    <2>6. index \in [Numbers -> 0 .. updates']
      BY <2>1 DEF IndexTypeOK
    <2> QED
      BY <1>1, <1>2, <2>2, <2>5, <2>6, UpdateRanks DEF IndexTypeOK
  <1>6. Ranked'
    BY UpdateRanks
  <1>7. SyncLocals'
    BY <1>2 DEF SyncLocals
  <1>8. /\ ~(clock < watermark) /\ ~(clock < lastSeen) /\ ~(clock < started)
        /\ \A e \in arrived : ~(clock < e[3])
    BY IndexAssumption DEF IndexTypeOK, IndexEntries
  <1>9. WatermarkIsHonest'
    BY <1>1, <1>2, <1>4, <1>8 DEF WatermarkIsHonest
  <1>10. PagesAreRead'
    <2> SUFFICES ASSUME NEW m \in Numbers, AtReadPlace(m)'
                 PROVE  Entry(m)' \in Known'
      BY DEF PagesAreRead
    <2>1. CASE m = n \/ ~AtReadPlace(m)
      <3>1. Entry(m)' \in missed'
        BY <2>1 DEF UpdateIssue
      <3> QED
        BY <3>1 DEF Known
    <2>2. CASE m # n /\ AtReadPlace(m)
      BY <1>3, <1>4, <2>2 DEF PagesAreRead
    <2> QED
      BY <2>1, <2>2
  <1>11. OlderIsKnown'
    <2> SUFFICES ASSUME NEW m \in Numbers, since <= updatedAt'[m],
                        updatedAt'[m] < lastSeen \/ \E e \in arrived : updatedAt'[m] < e[3]
                 PROVE  Entry(m)' \in Known'
      BY <1>2 DEF OlderIsKnown
    <2>1. m # n /\ updatedAt'[m] = updatedAt[m]
      BY <1>1, <1>8
    <2> QED
      BY <1>3, <1>4, <2>1 DEF OlderIsKnown
  <1>12. ShortPageIsLast'
    <2> SUFFICES ASSUME sync = "page", Cardinality(arrived) < PageSize,
                        NEW m \in Numbers, since <= updatedAt'[m], updatedAt'[m] < started
                 PROVE  Entry(m)' \in Known'
      BY <1>2 DEF ShortPageIsLast
    <2>1. m # n /\ updatedAt'[m] = updatedAt[m]
      BY <1>1, <1>8
    <2> QED
      BY <1>3, <1>4, <2>1 DEF ShortPageIsLast
  <1> QED
    BY <1>5, <1>6, <1>7, <1>9, <1>10, <1>11, <1>12

\* A webhook only adds to what is stored.
LEMMA WebhookKeeps ==
    ASSUME IndexInv, NEW d \in deliveries, IngestWebhook(d)
    PROVE  IndexInv'
  <1>1. stored \subseteq stored' /\ IndexTypeOK'
    <2>1. {d} \in SUBSET IndexEntries /\ UpsertIssueIndex({d})
      BY DEF IngestWebhook, IndexInv, IndexTypeOK
    <2>2. /\ index' \in [Numbers -> 0 .. updates]
          /\ stored' \subseteq IndexEntries
          /\ stored' = stored \union {d}
      BY <2>1, UpsertTypes DEF IndexInv
    <2> QED
      BY <2>2 DEF IngestWebhook, IndexInv, IndexTypeOK, IndexEntries, githubIndex, issues, syncLocals
  <1>2. UNCHANGED <<clock, revision, updatedAt, rank, watermark, syncLocals, overtaken>>
    BY DEF IngestWebhook, githubIndex, issues
  <1>3. Known \subseteq Known' /\ stored \union overtaken \subseteq stored' \union overtaken'
    BY <1>1, <1>2 DEF Known, syncLocals
  <1> QED
    BY <1>1, <1>2, <1>3, FrameKeeps

\* A sync that starts asks from the watermark, or from the beginning.
LEMMA StartKeeps ==
    ASSUME IndexInv, StartSync
    PROVE  IndexInv'
  <1> USE DEF IndexInv
  <1>1. UNCHANGED <<clock, updates, revision, updatedAt, rank, deliveries, index, watermark, lastSeen, arrived, stored,
                    missed, overtaken>>
    BY DEF StartSync, githubIndex, issues
  <1>2. since' \in 0 .. clock /\ (since' <= watermark \/ since' <= 1)
    <2>1. watermark \in 0 .. clock /\ clock \in Nat /\ Overlap \in Nat
      BY IndexAssumption DEF IndexTypeOK
    <2>2. since' = IF watermark = 0 THEN 0 ELSE IF watermark > Overlap THEN watermark - Overlap ELSE 1
      BY DEF StartSync, Overlapped
    <2> QED
      BY <2>1, <2>2
  <1>3. IndexTypeOK'
    <2>1. started' \in 0 .. clock /\ page' \in 0 .. MaxPages /\ syncs' \in 0 .. MaxSyncs
          /\ sync' = "request"
      BY IndexAssumption DEF StartSync, IndexTypeOK
    <2> QED
      BY <1>1, <1>2, <2>1 DEF IndexTypeOK, IndexEntries
  <1>4. Ranked' /\ WatermarkIsHonest'
    BY <1>1 DEF Ranked, WatermarkIsHonest, Entry
  <1>5. lastSeen' = 0 /\ arrived' = {} /\ sync' = "request" /\ page' = 1
    BY <1>1 DEF StartSync, SyncLocals
  <1>6. SyncLocals'
    BY <1>1, <1>2, <1>5 DEF SyncLocals
  <1>7. PagesAreRead'
    BY <1>3, <1>4, <1>5, NoPageRead
  <1>8. OlderIsKnown' /\ ShortPageIsLast'
    <2>1. \A n \in Numbers : ~(updatedAt'[n] < 0)
      BY <1>3, IndexAssumption DEF IndexTypeOK
    <2> QED
      BY <1>5, <2>1 DEF OlderIsKnown, ShortPageIsLast
  <1> QED
    BY <1>3, <1>4, <1>6, <1>7, <1>8

\* A sync that ends with a watermark that is honest.
LEMMA EndKeeps ==
    ASSUME IndexInv, EndSync, WatermarkIsHonest', UNCHANGED <<githubIndex, syncs>>,
           watermark' \in 0 .. clock, index' \in [Numbers -> 0 .. updates],
           stored' \union overtaken' \subseteq IndexEntries
    PROVE  IndexInv'
  <1> USE DEF IndexInv
  <1>1. IndexTypeOK'
    <2>1. Cardinality({}) = 0
      BY FS_EmptySet
    <2>2. Cardinality(arrived') <= PageSize
      BY <2>1, IndexAssumption DEF EndSync
    <2>3. 0 \in 0 .. clock /\ page' \in 0 .. MaxPages
      BY IndexAssumption DEF EndSync, IndexTypeOK
    <2> QED
      BY <2>2, <2>3 DEF EndSync, IndexTypeOK, IndexEntries, githubIndex, issues
  <1>2. Ranked' /\ SyncLocals'
    <2>1. Ranked'
      BY DEF Ranked, githubIndex, issues
    <2>2. SyncLocals'
      BY DEF SyncLocals, EndSync
    <2> QED
      BY <2>1, <2>2
  <1>3. PagesAreRead'
    <2>1. sync' = "idle"
      BY DEF EndSync
    <2> QED
      BY <1>1, <1>2, <2>1, NoPageRead
  <1>4. OlderIsKnown' /\ ShortPageIsLast'
    <2>1. \A n \in Numbers : ~(updatedAt'[n] < 0)
      BY <1>1, IndexAssumption DEF IndexTypeOK
    <2> QED
      BY <2>1 DEF EndSync, OlderIsKnown, ShortPageIsLast
  <1> QED
    BY <1>1, <1>2, <1>3, <1>4

\* A sync that fails leaves the watermark where it is.
LEMMA FailureKeeps ==
    ASSUME IndexInv, SyncFails
    PROVE  IndexInv'
  <1>1. UNCHANGED <<githubIndex, revision, updatedAt, index, watermark, stored, overtaken, syncs>> /\ EndSync
    BY DEF SyncFails, githubIndex, issues
  <1>2. WatermarkIsHonest'
    BY <1>1 DEF IndexInv, WatermarkIsHonest, Entry
  <1> QED
    BY <1>1, <1>2, EndKeeps DEF IndexInv, IndexTypeOK

\* Storing a page: everything up to the last entry seen is known, and the
\* watermark goes no further than what is known.
LEMMA StoreKeeps ==
    ASSUME IndexInv, StorePage
    PROVE  IndexInv'
  <1> USE DEF IndexInv
  <1>1. sync = "page" /\ UNCHANGED <<githubIndex, clock, updates, revision, updatedAt, rank, deliveries, syncs>>
    BY DEF StorePage, githubIndex, issues
  <1>2. /\ index' \in [Numbers -> 0 .. updates]
        /\ stored' \subseteq IndexEntries
        /\ stored' = stored \union arrived
    <2>1. arrived \in SUBSET IndexEntries
      BY DEF IndexTypeOK
    <2> QED
      BY <2>1, UpsertTypes DEF StorePage
  <1>3. \A n \in Numbers : Entry(n)' = Entry(n)
    BY <1>1 DEF Entry
  <1>4. \A n \in Numbers : since <= updatedAt[n] /\ updatedAt[n] < NewLastSeen => Entry(n) \in Known
    BY LastSeenType DEF OlderIsKnown
  <1>5. CASE Cardinality(arrived) < PageSize \/ page = MaxPages
    <2>1. AdvanceWatermark /\ EndSync
      BY <1>5 DEF StorePage
    <2>2. overtaken' = overtaken \union {e \in missed : e[3] < watermark'}
      BY <2>1 DEF AdvanceWatermark
    <2>3. \/ watermark' = started /\ Cardinality(arrived) < PageSize
          \/ watermark' = NewLastSeen
          \/ watermark' = watermark
      BY <2>1 DEF AdvanceWatermark
    <2>4. watermark' \in 0 .. clock
      BY <2>3, LastSeenType DEF IndexTypeOK
    <2>5. WatermarkIsHonest'
      <3> SUFFICES ASSUME NEW n \in Numbers, updatedAt[n] < watermark'
                   PROVE  Entry(n) \in stored' \union overtaken'
        BY <1>1, <1>3 DEF WatermarkIsHonest
      <3>1. Entry(n) \in Known => Entry(n) \in stored' \union overtaken'
        BY <1>2, <2>2 DEF Known, Entry
      <3>2. Entry(n) \in stored \union overtaken => Entry(n) \in stored' \union overtaken'
        BY <1>2, <2>2
      <3>3. CASE since <= updatedAt[n]
        BY <1>1, <1>4, <2>3, <3>1, <3>2, <3>3 DEF ShortPageIsLast, WatermarkIsHonest
      <3>4. CASE ~(since <= updatedAt[n])
        <4>1. updatedAt[n] < watermark
          BY <3>4, IndexAssumption DEF SyncLocals, IndexTypeOK
        <4> QED
          BY <3>2, <4>1 DEF WatermarkIsHonest
      <3> QED
        BY <3>3, <3>4
    <2>6. stored' \union overtaken' \subseteq IndexEntries
      BY <1>2, <2>2 DEF IndexTypeOK
    <2> QED
      BY <1>1, <1>2, <2>1, <2>4, <2>5, <2>6, EndKeeps
  <1>6. CASE ~(Cardinality(arrived) < PageSize \/ page = MaxPages)
    <2>1. NextPage
      BY <1>6 DEF StorePage
    <2>2. /\ UNCHANGED <<watermark, started, since, missed, overtaken>>
          /\ page' = page + 1 /\ sync' = "request" /\ arrived' = {} /\ lastSeen' = NewLastSeen
      BY <2>1 DEF NextPage
    <2>3. Known' = Known
      BY <1>2, <2>2 DEF Known
    <2>4. IndexTypeOK'
      <3>1. Cardinality(arrived') <= PageSize
        BY <2>2, IndexAssumption, FS_EmptySet
      <3>2. page' \in 0 .. MaxPages
        BY <1>6, <2>2, IndexAssumption DEF IndexTypeOK
      <3> QED
        BY <1>1, <1>2, <2>2, <3>1, <3>2, LastSeenType DEF IndexTypeOK, IndexEntries
    <2>5. Ranked' /\ SyncLocals' /\ WatermarkIsHonest'
      <3>1. page' > 0
        BY <2>2, IndexAssumption DEF IndexTypeOK
      <3> QED
        BY <1>1, <1>2, <1>3, <2>2, <3>1 DEF Ranked, SyncLocals, WatermarkIsHonest
    <2>6. PagesAreRead'
      <3>1. ReadPlaces' = ReadPlaces
        <4>1. (page + 1) - 1 = page
          BY IndexAssumption DEF IndexTypeOK
        <4> QED
          BY <1>1, <2>2, <4>1 DEF ReadPlaces
      <3>2. UNCHANGED Listed
        BY <1>1, <2>2 DEF Listed
      <3>3. \A n \in Numbers : Place(n)' = Place(n)
        BY <1>1, <3>2 DEF Place
      <3> QED
        BY <1>3, <2>3, <3>1, <3>2, <3>3 DEF PagesAreRead, AtReadPlace
    <2>7. OlderIsKnown' /\ ShortPageIsLast'
      BY <1>1, <1>3, <1>4, <2>2, <2>3 DEF OlderIsKnown, ShortPageIsLast
    <2> QED
      BY <2>4, <2>5, <2>6, <2>7
  <1> QED
    BY <1>5, <1>6

\* The page after the pages read so far.
LEMMA PageStart ==
    ASSUME NEW p \in Nat \ {0}
    PROVE  (p - 1) * PageSize \in Nat /\ p * PageSize = (p - 1) * PageSize + PageSize
  <1>1. \A k \in Nat : k * PageSize \in Nat /\ (k + 1) * PageSize = k * PageSize + PageSize
    BY IndexAssumption
  <1>2. p - 1 \in Nat /\ (p - 1) + 1 = p
    OBVIOUS
  <1> QED
    BY <1>1, <1>2

\* A page holds no more than fits, and a page with room left is the last one.
LEMMA PageSizes ==
    ASSUME IndexInv, ServePage
    PROVE  /\ Cardinality(arrived') <= PageSize
           /\ Cardinality(arrived') < PageSize => Cardinality(Listed) < page * PageSize
  <1> USE DEF IndexInv
  <1> DEFINE a == (page - 1) * PageSize
             Page == {m \in Listed : Place(m) \in a + 1 .. a + PageSize}
             Slots == a + 1 .. a + PageSize
             f == [e \in arrived' |-> Place(e[1])]
  <1>1. a \in Nat /\ page * PageSize = a + PageSize /\ PageSize \in Nat
    <2>1. page \in Nat \ {0} /\ PageSize \in Nat
      BY IndexAssumption DEF ServePage, SyncLocals, IndexTypeOK
    <2> QED
      BY <2>1, PageStart
  <1>2. arrived' = {Entry(n) : n \in Page}
    BY <1>1 DEF ServePage
  <1>3. IsFiniteSet(Slots) /\ Cardinality(Slots) = PageSize
    <2>1. a + 1 \in Int /\ a + PageSize \in Int /\ (a + PageSize) - (a + 1) + 1 = PageSize
      BY <1>1
    <2> HIDE DEF a
    <2>2. IF a + 1 > a + PageSize THEN PageSize = 0 ELSE TRUE
      BY <1>1, <2>1
    <2>3. PageSize # 0
      BY IndexAssumption
    <2> QED
      BY <2>1, <2>2, <2>3, FS_Interval
  <1> HIDE DEF a
  <1>4. \A n : Entry(n)[1] = n
    BY DEF Entry
  <1>5. f \in [arrived' -> Slots] /\ \A n \in Page : Entry(n) \in arrived' /\ f[Entry(n)] = Place(n)
    BY <1>2, <1>4
  <1>6. f \in Injection(arrived', Slots)
    <2> SUFFICES ASSUME NEW d \in arrived', NEW e \in arrived', f[d] = f[e]
                 PROVE  d = e
      BY <1>5 DEF Injection, IsInjective
    <2>1. PICK m \in Page, n \in Page : d = Entry(m) /\ e = Entry(n)
      BY <1>2
    <2>2. Place(m) = Place(n)
      BY <1>5, <2>1
    <2>3. m = n
      BY <2>2, PlacesNow
    <2> QED
      BY <2>1, <2>3
  <1>7. ASSUME Cardinality(Listed) >= page * PageSize
        PROVE  f \in Surjection(arrived', Slots)
    <2> SUFFICES ASSUME NEW k \in Slots
                 PROVE  \E e \in arrived' : f[e] = k
      BY <1>5 DEF Surjection
    <2>1. k \in 1 .. Cardinality(Listed)
      BY <1>1, <1>7, PlacesNow
    <2>2. PICK n \in Listed : Place(n) = k
      BY <2>1, PlacesNow
    <2>3. n \in Page
      BY <2>2
    <2> QED
      BY <1>5, <2>2, <2>3
  <1> HIDE DEF f
  <1>8. Cardinality(arrived') <= PageSize /\ (Cardinality(arrived') = PageSize <=> f \in Surjection(arrived', Slots))
    BY <1>3, <1>6, FS_Injection
  <1>9. Cardinality(Listed) \in Nat /\ page * PageSize \in Nat
    BY <1>1, PlacesNow
  <1> QED
    BY <1>1, <1>7, <1>8, <1>9

\* Serving a page: the places read grow by its places.
LEMMA ServeKeeps ==
    ASSUME IndexInv, ServePage
    PROVE  IndexInv'
  <1> USE DEF IndexInv
  <1>1. /\ sync = "request" /\ sync' = "page"
        /\ UNCHANGED <<clock, updates, revision, updatedAt, rank, deliveries, index, watermark, started, since, page, lastSeen,
                       stored, missed, overtaken, syncs>>
    BY DEF ServePage, githubIndex, issues
  <1>2. \A n \in Numbers : Entry(n)' = Entry(n) /\ Entry(n) \in IndexEntries
    BY <1>1 DEF Entry, IndexEntries, IndexTypeOK
  <1>3. arrived = {}
    BY <1>1 DEF SyncLocals
  <1>4. Known' = Known \union arrived'
    BY <1>1, <1>3 DEF Known
  <1>5. IndexTypeOK'
    <2>1. arrived' \subseteq IndexEntries
      BY <1>2 DEF ServePage, Listed
    <2> QED
      BY <1>1, <2>1, PageSizes DEF IndexTypeOK, IndexEntries
  <1>6. Ranked' /\ WatermarkIsHonest'
    BY <1>1, <1>2 DEF Ranked, WatermarkIsHonest
  <1>7. SyncLocals'
    BY <1>1, <1>3 DEF SyncLocals
  <1>8. /\ (page - 1) * PageSize \in Nat
        /\ page * PageSize = (page - 1) * PageSize + PageSize
        /\ ReadPlaces = (page - 1) * PageSize
        /\ ReadPlaces' = page * PageSize
    <2>1. page \in Nat \ {0}
      BY <1>1 DEF SyncLocals, IndexTypeOK
    <2> QED
      BY <1>1, <2>1, PageStart DEF ReadPlaces
  <1>9. ASSUME NEW n \in Listed, Place(n) <= page * PageSize
        PROVE  Entry(n) \in Known'
    <2>1. n \in Numbers /\ Place(n) \in Nat \ {0}
      BY PlacesNow DEF Listed
    <2>2. CASE Place(n) <= (page - 1) * PageSize
      <3>1. AtReadPlace(n)
        BY <1>8, <2>2 DEF AtReadPlace
      <3> QED
        BY <1>4, <2>1, <3>1 DEF PagesAreRead
    <2>3. CASE ~(Place(n) <= (page - 1) * PageSize)
      <3>1. Place(n) \in (page - 1) * PageSize + 1 .. page * PageSize
        BY <1>8, <1>9, <2>1, <2>3, IndexAssumption
      <3> QED
        BY <1>4, <3>1 DEF ServePage
    <2> QED
      BY <2>2, <2>3
  <1>10. UNCHANGED Listed /\ \A n : Place(n)' = Place(n)
    BY <1>1 DEF Listed, Place
  <1>11. PagesAreRead'
    BY <1>2, <1>8, <1>9, <1>10 DEF PagesAreRead, AtReadPlace
  <1>12. OlderIsKnown'
    <2> SUFFICES ASSUME NEW n \in Numbers, since <= updatedAt[n],
                        updatedAt[n] < lastSeen \/ \E e \in arrived' : updatedAt[n] < e[3]
                 PROVE  Entry(n) \in Known'
      BY <1>1, <1>2 DEF OlderIsKnown
    <2>1. CASE updatedAt[n] < lastSeen
      BY <1>4, <2>1 DEF OlderIsKnown
    <2>2. CASE \E e \in arrived' : updatedAt[n] < e[3]
      <3>1. PICK m \in Listed : Place(m) <= page * PageSize /\ updatedAt[n] < updatedAt[m]
        <4>1. PICK e \in arrived' : updatedAt[n] < e[3]
          BY <2>2
        <4>2. PICK m \in Listed : e = Entry(m)
                                  /\ Place(m) \in (page - 1) * PageSize + 1 .. page * PageSize
          BY DEF ServePage
        <4> QED
          BY <1>8, <4>1, <4>2 DEF Entry
      <3>2. n \in Listed
        BY IndexAssumption DEF Listed, IndexTypeOK
      <3>3. Place(n) <= Place(m) /\ Place(n) \in Nat /\ Place(m) \in Nat
        <4>1. m \in Numbers /\ {rank[m], rank[n]} \subseteq Nat /\ {updatedAt[m], updatedAt[n]} \subseteq Nat
          <5>1. m \in Numbers /\ clock \in Nat
            BY IndexAssumption DEF Listed, IndexTypeOK
          <5>2. rank \in [Numbers -> Numbers] /\ updatedAt \in [Numbers -> 1 .. clock]
            BY DEF IndexTypeOK
          <5> HIDE DEF IndexInv
          <5>3. {rank[m], rank[n]} \subseteq Nat
            BY <5>1, <5>2, NumbersAreNat
          <5>4. updatedAt[m] \in 1 .. clock /\ updatedAt[n] \in 1 .. clock
            BY <5>1, <5>2
          <5> QED
            BY <5>1, <5>3, <5>4
        <4>2. rank[n] <= rank[m]
          BY <3>1, <4>1 DEF Ranked
        <4> QED
          BY <3>1, <3>2, <4>2, PlacesNow
      <3>4. Place(n) <= page * PageSize
        BY <1>8, <3>1, <3>3, IndexAssumption
      <3> QED
        BY <1>9, <3>2, <3>4
    <2> QED
      BY <2>1, <2>2
  <1>13. ShortPageIsLast'
    <2> SUFFICES ASSUME Cardinality(arrived') < PageSize, NEW n \in Numbers, since <= updatedAt[n]
                 PROVE  Entry(n) \in Known'
      BY <1>1, <1>2 DEF ShortPageIsLast
    <2>1. n \in Listed
      BY IndexAssumption DEF Listed, IndexTypeOK
    <2>2. Place(n) <= page * PageSize
      <3>1. Cardinality(Listed) < page * PageSize
        BY PageSizes
      <3>2. Cardinality(Listed) \in Nat /\ Place(n) \in 1 .. Cardinality(Listed)
        BY <2>1, PlacesNow
      <3> QED
        BY <1>8, <3>1, <3>2, IndexAssumption
    <2> QED
      BY <1>9, <2>1, <2>2
  <1> QED
    BY <1>5, <1>6, <1>7, <1>11, <1>12, <1>13

LEMMA InitIndexed == IndexInit => IndexInv
  <1> SUFFICES ASSUME IndexInit
               PROVE  IndexInv
    OBVIOUS
  <1> USE IndexAssumption DEF IndexInit
  <1>1. IndexTypeOK
    <2>1. Cardinality({}) = 0
      BY FS_EmptySet
    <2>2. updatedAt \in [Numbers -> 1 .. clock] /\ rank \in [Numbers -> Numbers]
      OBVIOUS
    <2> QED
      BY <2>1, <2>2 DEF IndexTypeOK, IndexEntries
  <1>2. Ranked /\ SyncLocals
    BY DEF Ranked, SyncLocals
  <1>3. \A n \in Numbers : ~(updatedAt[n] < 0)
    OBVIOUS
  <1>4. WatermarkIsHonest /\ OlderIsKnown /\ ShortPageIsLast
    BY <1>3 DEF WatermarkIsHonest, OlderIsKnown, ShortPageIsLast
  <1>5. PagesAreRead
    <2>1. ReadPlaces = 0
      BY DEF ReadPlaces
    <2>2. \A n \in Listed : ~(Place(n) <= 0)
      BY <1>1, <1>2, PlacesNow
    <2> QED
      BY <2>1, <2>2 DEF PagesAreRead, AtReadPlace
  <1> QED
    BY <1>1, <1>2, <1>4, <1>5 DEF IndexInv

LEMMA StepIndexed ==
    ASSUME IndexInv, [IndexNext]_indexVars
    PROVE  IndexInv'
  <1>1. CASE UNCHANGED indexVars
    <2>1. IndexTypeOK'
      BY <1>1 DEF IndexInv, IndexTypeOK, IndexEntries, indexVars, githubIndex, issues
    <2>2. UNCHANGED <<revision, updatedAt, rank, syncLocals, watermark, stored, overtaken>> /\ Known' = Known
      BY <1>1 DEF indexVars, githubIndex, issues, syncLocals, Known
    <2> QED
      BY <2>1, <2>2, FrameKeeps
  <1> QED
    BY <1>1, TimeKeeps, UpdateKeeps, WebhookKeeps, StartKeeps, ServeKeeps, StoreKeeps, FailureKeeps
    DEF IndexNext

\* The index, the watermark and the sync keep to their values.
THEOREM IndexTypes == IndexSpec => []IndexTypeOK
  <1>1. IndexInv => IndexTypeOK
    BY DEF IndexInv
  <1> QED
    BY <1>1, InitIndexed, StepIndexed, PTL DEF IndexSpec

\* What GitHub updated before the second of the watermark has been told to the
\* index, for any number of issues, page size and page budget, and however many
\* updates share a second, but for what moved onto a page that was read.
THEOREM HonestWatermark == IndexSpec => []WatermarkIsHonest
  <1>1. IndexInv => WatermarkIsHonest
    BY DEF IndexInv
  <1> QED
    BY <1>1, InitIndexed, StepIndexed, PTL DEF IndexSpec

-----------------------------------------------------------------------------
(* Autoclose.                                                              *)

ClosuresTyped ==
    /\ closure \in [Questions -> [state : ClosureStates, comment : Nat, due : BOOLEAN]]
    /\ posted \in [Questions -> Nat]
    /\ DOMAIN batch \subseteq Questions
    /\ tickPc \in {"react", "close", "closing"} => current \in DOMAIN batch
    /\ tickPc = "wait" => DOMAIN batch = {}

\* Answers are numbered as they are posted.  An answer that waits to be
\* scheduled has no row yet, is not claimed and was not spared, so a row that
\* is pending or claimed is for an answer that was not spared.
AnswersNumbered ==
    /\ \A i \in Questions, c \in Nat :
          /\ <<i, c>> \in unscheduled =>
                c <= posted[i] /\ closure[i].comment # c /\ <<i, c>> \notin spared
          /\ <<i, c>> \in spared => c <= posted[i]
    /\ \A i \in Questions : closure[i].comment <= posted[i]
    /\ \A i \in Questions :
          closure[i].state \in {"pending", "claimed"} => <<i, closure[i].comment>> \notin spared
    /\ \A i \in DOMAIN batch :
          /\ batch[i] \in Nat /\ batch[i] <= posted[i]
          /\ <<i, batch[i]>> \notin unscheduled
          /\ closure[i].state = "pending" => batch[i] # closure[i].comment

ClosureInv == ClosuresTyped /\ AnswersNumbered /\ CancelledStaysOpen

-----------------------------------------------------------------------------
USE DEF autocloseVars, githubSide, tickVars

\* Nothing is scheduled, claimed or spared at first.
LEMMA InitClosures == AutocloseInit => ClosureInv
BY DEF AutocloseInit, ClosureInv, ClosuresTyped, AnswersNumbered, CancelledStaysOpen, ClosureStates

\* _process_row gives its row back: the row leaves the batch, and is no longer
\* claimed; what else it may have become does not matter here.
Returned ==
    /\ UNCHANGED <<posted, unscheduled, spared, abandoned>>
    /\ current \in DOMAIN batch
    /\ batch' = [i \in DOMAIN batch \ {current} |-> batch[i]]
    /\ tickPc' \in {"wait", "pick"}
    /\ tickPc' = "wait" => DOMAIN batch \ {current} = {}
    /\ \/ closure' = closure /\ closure[current].state # "claimed"
       \/ closure' = [closure EXCEPT ![current].state = "pending"] /\ closure[current].state = "claimed"
       \/ \E st \in {"closed", "cancelled"} : closure' = [closure EXCEPT ![current].state = st]

\* The ends of _process_row give the row back.
LEMMA StepReturned ==
    ASSUME ClosuresTyped,
           \/ CheckReactions /\ <<current, batch[current]>> \in vetoes
           \/ GitHubCallFails \/ IssueGone \/ CloseAnswered
    PROVE  Returned
BY DEF CheckReactions, GitHubCallFails, IssueGone, CloseAnswered, RowDone, FinalizeClosure,
       RequeueClaimedClosure, SetClosure, Returned, ClosuresTyped

\* A row that is given back keeps the invariant.
LEMMA RowsReturn ==
    ASSUME ClosureInv, Returned
    PROVE  ClosureInv'
<1> USE DEF ClosureInv, ClosuresTyped, Returned
<1>1. /\ \A i \in Questions : i # current => closure'[i] = closure[i]
      /\ closure'[current].comment = closure[current].comment
      /\ closure'[current].state # "claimed"
      /\ closure'[current].state = "pending" => closure[current].state \in {"pending", "claimed"}
  OBVIOUS
<1>2. ClosuresTyped'
  <2>1. closure' \in [Questions -> [state : ClosureStates, comment : Nat, due : BOOLEAN]]
    <3>1. current \in Questions OBVIOUS
    <3>2. CASE closure' = closure BY <3>2
    <3>3. ASSUME NEW st \in ClosureStates, closure' = [closure EXCEPT ![current].state = st]
          PROVE  closure' \in [Questions -> [state : ClosureStates, comment : Nat, due : BOOLEAN]]
      BY ONLY <3>1, <3>3, ClosuresTyped DEF ClosuresTyped
    <3>4. {"pending", "closed", "cancelled"} \subseteq ClosureStates BY DEF ClosureStates
    <3> QED BY <3>2, <3>3, <3>4
  <2>2. posted' \in [Questions -> Nat] OBVIOUS
  <2>3. /\ DOMAIN batch' \subseteq Questions
        /\ tickPc' \notin {"react", "close", "closing"}
        /\ tickPc' = "wait" => DOMAIN batch' = {}
    OBVIOUS
  <2> QED BY <2>1, <2>2, <2>3
<1>3. \A i \in DOMAIN batch' : i # current /\ i \in DOMAIN batch /\ batch'[i] = batch[i]
  OBVIOUS
<1>4. AnswersNumbered'
  <2>1. \A i \in Questions : closure'[i].comment = closure[i].comment BY <1>1
  <2>2. \A i \in Questions : closure'[i].state \in {"pending", "claimed"} =>
            closure[i].state \in {"pending", "claimed"}
    BY <1>1
  <2>3. \A i \in DOMAIN batch' : closure'[i] = closure[i] BY <1>1, <1>3
  <2>4. UNCHANGED <<posted, unscheduled, spared>> OBVIOUS
  <2> HIDE DEF ClosuresTyped, Returned
  <2> QED BY <1>3, <2>1, <2>2, <2>3, <2>4 DEF AnswersNumbered
<1>5. CancelledStaysOpen' BY <1>1, <1>3 DEF CancelledStaysOpen
<1> QED BY <1>2, <1>4, <1>5

\* A reply spares the answer of a pending row, and nothing else.
LEMMA CancelKeeps ==
    ASSUME ClosureInv, NEW i \in Questions, CancelPendingClosure(i),
           UNCHANGED <<posted, unscheduled, tickVars, abandoned>>
    PROVE  ClosureInv'
<1> USE DEF ClosureInv, ClosuresTyped
<1>1. CASE closure[i].state # "pending"
  <2>1. UNCHANGED <<closure, spared>> BY <1>1 DEF CancelPendingClosure
  <2> QED BY <2>1 DEF AnswersNumbered, CancelledStaysOpen
<1>2. CASE closure[i].state = "pending"
  <2>1. /\ closure' = [closure EXCEPT ![i].state = "cancelled"]
        /\ spared' = spared \union {<<i, closure[i].comment>>}
    BY <1>2 DEF CancelPendingClosure, SetClosure
  <2>2. /\ \A j \in Questions : j # i => closure'[j] = closure[j]
        /\ closure'[i].comment = closure[i].comment /\ closure'[i].state = "cancelled"
    BY <2>1
  <2>3. ClosuresTyped' BY <2>1 DEF ClosureStates
  <2>4. AnswersNumbered' BY <1>2, <2>1, <2>2 DEF AnswersNumbered
  <2>5. CancelledStaysOpen' BY <1>2, <2>1, <2>2 DEF AnswersNumbered, CancelledStaysOpen
  <2> QED BY <2>3, <2>4, <2>5
<1> QED BY <1>1, <1>2

\* Scheduling the closure of a new answer.
LEMMA ScheduleKeeps ==
    ASSUME ClosureInv, NEW i \in Questions, NEW c \in Nat, ScheduleAutoclose(i, c)
    PROVE  ClosureInv'
<1> USE DEF ClosureInv, ClosuresTyped
<1>1. /\ <<i, c>> \in unscheduled /\ unscheduled' = unscheduled \ {<<i, c>>}
      /\ UNCHANGED <<posted, tickVars, spared, abandoned>>
  BY DEF ScheduleAutoclose
<1>2. CASE UNCHANGED closure BY <1>1, <1>2 DEF AnswersNumbered, CancelledStaysOpen
<1>3. CASE UpsertPendingClosure(i, c)
  <2>1. closure' = [closure EXCEPT ![i] = [state |-> "pending", comment |-> c, due |-> FALSE]]
    BY <1>3 DEF UpsertPendingClosure
  <2>2. /\ \A j \in Questions : j # i => closure'[j] = closure[j]
        /\ closure'[i].comment = c /\ closure'[i].state = "pending"
    BY <2>1
  <2>3. [state |-> "pending", comment |-> c, due |-> FALSE]
          \in [state : ClosureStates, comment : Nat, due : BOOLEAN]
    BY DEF ClosureStates
  <2>4. ClosuresTyped' BY <1>1, <2>1, <2>3
  <2>5. AnswersNumbered' BY <1>1, <2>2 DEF AnswersNumbered
  <2>6. CancelledStaysOpen' BY <1>1, <2>2 DEF CancelledStaysOpen
  <2> QED BY <2>4, <2>5, <2>6
<1> QED BY <1>2, <1>3 DEF ScheduleAutoclose

\* No step schedules or claims a closure that was cancelled.
LEMMA StepClosures ==
    ASSUME ClosureInv, [AutocloseNext]_autocloseVars
    PROVE  ClosureInv'
<1> USE AutocloseAssumption DEF ClosureInv, ClosuresTyped, AnswersNumbered, CancelledStaysOpen, ClosureStates
<1>1. ASSUME NEW i \in Questions, PostAnswer(i)
      PROVE  ClosureInv'
  <2>1. ClosuresTyped' BY <1>1 DEF PostAnswer
  <2>2. AnswersNumbered' BY <1>1 DEF PostAnswer
  <2>3. CancelledStaysOpen' BY <1>1 DEF PostAnswer
  <2> QED BY <2>1, <2>2, <2>3
<1>2. ASSUME NEW i \in Questions, NEW c \in 1 .. MaxAnswers[i], ScheduleAutoclose(i, c)
      PROVE  ClosureInv'
  <2>1. c \in Nat OBVIOUS
  <2> QED BY <1>2, <2>1, ScheduleKeeps
<1>3. ASSUME NEW i \in Questions, ClosureComesDue(i)
      PROVE  ClosureInv'
  <2>1. ClosuresTyped' BY <1>3 DEF ClosureComesDue
  <2>2. AnswersNumbered' BY <1>3 DEF ClosureComesDue
  <2>3. CancelledStaysOpen' BY <1>3 DEF ClosureComesDue
  <2> QED BY <2>1, <2>2, <2>3
<1>4. ASSUME NEW i \in Questions, ThumbsDown(i)
      PROVE  ClosureInv'
  <2>1. ClosuresTyped' BY <1>4 DEF ThumbsDown
  <2>2. AnswersNumbered' BY <1>4 DEF ThumbsDown
  <2>3. CancelledStaysOpen' BY <1>4 DEF ThumbsDown
  <2> QED BY <2>1, <2>2, <2>3
<1>5. ASSUME NEW i \in Questions, UserReplied(i)
      PROVE  ClosureInv'
  BY <1>5, CancelKeeps DEF UserReplied
<1>6. ASSUME NEW i \in Questions, UserCloses(i)
      PROVE  ClosureInv'
  <2>1. ClosuresTyped' BY <1>6 DEF UserCloses
  <2>2. AnswersNumbered' BY <1>6 DEF UserCloses
  <2>3. CancelledStaysOpen' BY <1>6 DEF UserCloses
  <2> QED BY <2>1, <2>2, <2>3
<1>7. ASSUME NEW i \in Questions, ExternallyClosed(i)
      PROVE  ClosureInv'
  BY <1>7, CancelKeeps DEF ExternallyClosed
<1>8. ASSUME NEW i \in Questions, UserReopens(i)
      PROVE  ClosureInv'
  <2>1. ClosuresTyped' BY <1>8 DEF UserReopens
  <2>2. AnswersNumbered' BY <1>8 DEF UserReopens
  <2>3. CancelledStaysOpen' BY <1>8 DEF UserReopens
  <2> QED BY <2>1, <2>2, <2>3
<1>9. CASE ClaimDueClosures
  <2>1. ClosuresTyped' BY <1>9 DEF ClaimDueClosures, DueClosures
  <2>2. AnswersNumbered' BY <1>9 DEF ClaimDueClosures, DueClosures
  <2>3. CancelledStaysOpen' BY <1>9 DEF ClaimDueClosures, DueClosures
  <2> QED BY <2>1, <2>2, <2>3
<1>10. ASSUME NEW i \in Questions, PickRow(i)
      PROVE  ClosureInv'
  <2>1. ClosuresTyped' BY <1>10 DEF PickRow
  <2>2. AnswersNumbered' BY <1>10 DEF PickRow
  <2>3. CancelledStaysOpen' BY <1>10 DEF PickRow
  <2> QED BY <2>1, <2>2, <2>3
<1>11. CASE CheckReactions
  <2>1. CASE <<current, batch[current]>> \in vetoes
    BY <1>11, <2>1, StepReturned, RowsReturn
  <2>2. CASE <<current, batch[current]>> \notin vetoes
    BY <1>11, <2>2 DEF CheckReactions, ClosuresTyped, AnswersNumbered, CancelledStaysOpen
  <2> QED BY <2>1, <2>2
<1>12. CASE GitHubCallFails BY <1>12, StepReturned, RowsReturn
<1>13. CASE IssueGone BY <1>13, StepReturned, RowsReturn
<1>14. CASE CloseIssue
  <2>1. ClosuresTyped' BY <1>14 DEF CloseIssue
  <2>2. AnswersNumbered' BY <1>14 DEF CloseIssue
  <2>3. CancelledStaysOpen' BY <1>14 DEF CloseIssue
  <2> QED BY <2>1, <2>2, <2>3
<1>15. CASE CloseAnswered BY <1>15, StepReturned, RowsReturn
<1>16. CASE TickDies
  <2>1. ClosuresTyped' BY <1>16 DEF TickDies
  <2>2. AnswersNumbered' BY <1>16 DEF TickDies
  <2>3. CancelledStaysOpen' BY <1>16 DEF TickDies
  <2> QED BY <2>1, <2>2, <2>3
<1>17. CASE UNCHANGED autocloseVars BY <1>17 DEF ClosuresTyped, AnswersNumbered, CancelledStaysOpen
<1> QED
  BY <1>1, <1>2, <1>3, <1>4, <1>5, <1>6, <1>7, <1>8, <1>9,
     <1>10, <1>11, <1>12, <1>13, <1>14, <1>15, <1>16, <1>17 DEF AutocloseNext

\* A cancelled closure is never worked on again, for any interleaving of
\* replies, closes, answers, ticks and ticks that die.
THEOREM CancelledClosuresStayOpen == AutocloseSpec => []CancelledStaysOpen
<1>1. AutocloseInit => ClosureInv BY InitClosures
<1>2. ClosureInv /\ [AutocloseNext]_autocloseVars => ClosureInv' BY StepClosures
<1>3. ClosureInv => CancelledStaysOpen BY DEF ClosureInv
<1> QED BY <1>1, <1>2, <1>3, PTL DEF AutocloseSpec

\* What the table, the tick and GitHub hold beside the rows and the answers.
ClosureSides ==
    /\ issueState \in [Questions -> {"open", "closed"}]
    /\ ghOpen \in [Questions -> BOOLEAN]
    /\ closedHooks \subseteq Questions
    /\ tickPc \in {"wait", "pick", "react", "close", "closing"}
    /\ current \in Questions \union {Nobody}

ClosureHistory ==
    /\ vetoes \subseteq Questions \X Nat
    /\ unscheduled \subseteq Questions \X Nat
    /\ spared \subseteq Questions \X Nat
    /\ abandoned \subseteq Questions \X Nat

\* No step leaves the types.
LEMMA StepClosureTypes ==
    ASSUME ClosureInv, ClosureSides, ClosureHistory, [AutocloseNext]_autocloseVars
    PROVE  ClosureSides' /\ ClosureHistory'
<1>1. ASSUME NEW i \in Questions,
             PostAnswer(i) \/ ClosureComesDue(i) \/ ThumbsDown(i) \/ UserReplied(i) \/ UserCloses(i)
             \/ ExternallyClosed(i) \/ UserReopens(i) \/ PickRow(i)
      PROVE  ClosureSides' /\ ClosureHistory'
  <2>1. posted[i] \in Nat /\ closure[i].comment \in Nat BY DEF ClosureInv, ClosuresTyped
  <2>2. ClosureSides'
    BY <1>1 DEF ClosureSides, PostAnswer, ClosureComesDue, ThumbsDown, UserReplied, UserCloses,
                ExternallyClosed, UserReopens, PickRow, CancelPendingClosure
  <2>3. /\ vetoes' \subseteq vetoes \union {<<i, posted[i]>>}
        /\ unscheduled' \subseteq unscheduled \union {<<i, posted[i] + 1>>}
        /\ spared' \subseteq spared \union {<<i, closure[i].comment>>}
        /\ abandoned' = abandoned
    BY <1>1 DEF PostAnswer, ClosureComesDue, ThumbsDown, UserReplied, UserCloses,
                ExternallyClosed, UserReopens, PickRow, CancelPendingClosure
  <2>4. ClosureHistory' BY <2>1, <2>3 DEF ClosureHistory
  <2> QED BY <2>2, <2>4
<1>2. ASSUME NEW i \in Questions, NEW c \in 1 .. MaxAnswers[i], ScheduleAutoclose(i, c)
      PROVE  ClosureSides' /\ ClosureHistory'
  BY <1>2 DEF ScheduleAutoclose, ClosureSides, ClosureHistory
<1>3. CASE \/ ClaimDueClosures \/ CheckReactions \/ GitHubCallFails \/ IssueGone
           \/ CloseIssue \/ CloseAnswered
  <2>1. tickPc \in {"react", "close", "closing"} => current \in Questions
    BY DEF ClosureInv, ClosuresTyped
  <2>2. ClosureSides'
    BY <1>3, <2>1 DEF ClosureSides, ClaimDueClosures, CheckReactions, GitHubCallFails, IssueGone,
                      CloseIssue, CloseAnswered, RowDone
  <2>3. UNCHANGED <<vetoes, unscheduled, spared, abandoned>>
    BY <1>3 DEF ClaimDueClosures, CheckReactions, GitHubCallFails, IssueGone,
                CloseIssue, CloseAnswered
  <2> QED BY <2>2, <2>3 DEF ClosureHistory
<1>4. CASE TickDies
  <2>1. \A i \in DOMAIN batch : i \in Questions /\ batch[i] \in Nat
    BY DEF ClosureInv, ClosuresTyped, AnswersNumbered
  <2>2. /\ ClosureSides'
        /\ abandoned' = abandoned \union {<<i, batch[i]>> : i \in DOMAIN batch}
        /\ UNCHANGED <<vetoes, unscheduled, spared>>
    BY <1>4 DEF TickDies, ClosureSides
  <2> QED BY <2>1, <2>2 DEF ClosureHistory
<1>5. CASE UNCHANGED autocloseVars BY <1>5 DEF ClosureSides, ClosureHistory
<1> QED BY <1>1, <1>2, <1>3, <1>4, <1>5 DEF AutocloseNext

\* The variables of the model stay in their types.
THEOREM ClosureTypes == AutocloseSpec => []AutocloseTypeOK
<1> DEFINE Inv == ClosureInv /\ ClosureSides /\ ClosureHistory
<1>1. AutocloseInit => Inv
  BY InitClosures DEF AutocloseInit, ClosureSides, ClosureHistory
<1>2. Inv /\ [AutocloseNext]_autocloseVars => Inv'
  BY StepClosures, StepClosureTypes
<1>3. Inv => AutocloseTypeOK
  BY DEF ClosureInv, ClosuresTyped, AnswersNumbered, ClosureSides, ClosureHistory, AutocloseTypeOK
<1> QED BY <1>1, <1>2, <1>3, PTL DEF AutocloseSpec
=============================================================================
