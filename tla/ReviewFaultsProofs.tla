------------------------- MODULE ReviewFaultsProofs -------------------------
(***************************************************************************)
(* Theorems about ReviewFaults: what the service keeps when its store      *)
(* raises, for every number of faults, deliveries, pull requests, commits  *)
(* and slots.  The claim is no lock any more: a call of get_event that     *)
(* raises lets mark_failed free a pull request another task works on.  So  *)
(* nothing here rests on Claims or Published of ReviewBotProofs; what is   *)
(* left is                                                                 *)
(*                                                                         *)
(*   Recorded       who is about to record a review has its comment;       *)
(*   FewAbandoned   each claim without a task stands for a fault.          *)
(***************************************************************************)
EXTENDS ReviewFaults, ReviewBotProofs, FiniteSetTheorems

FaultyTyped == Typed /\ faults \in Nat

\* The places of a task that has posted its comment or found one.
HasComment == {"posted", "outputs", "adopt", "complete"}

Recorded ==
    /\ ReviewIsPublished
    /\ \A w \in Slots : pc[w] \in HasComment => comments[HeadOf(w)] > 0
    /\ OrphansRecordComments

FewAbandoned ==
    loop \in {"up", "drain"} =>
        IsFiniteSet(Abandoned) /\ Cardinality(Abandoned) <= faults

\* The steps that raise.
Raises(w) ==
    ProcessFails(w) \/ SupersedeRefused(w) \/ ReportFails(w) \/ HandlerFails(w)

-----------------------------------------------------------------------------
(* Types.                                                                  *)

\* A call that raises sends its task to the handler of exceptions or ends it.
LEMMA RaisingEffect ==
    ASSUME Typed, NEW w \in Slots, Raises(w)
    PROVE  /\ pc[w] # "idle"
           /\ UNCHANGED <<storeVars, githubVars, loop, stop, admin, boundVars>>
           /\ \/ /\ pc[w] \in Settling \union {"lookup"}
                 /\ \E l \in GivingUp : pc' = [pc EXCEPT ![w] = l]
                 /\ UNCHANGED <<job, sha, orphans>>
              \/ /\ pc[w] \in GivingUp \union {"cancelled", "report"}
                 /\ pc' = [pc EXCEPT ![w] = "idle"]
                 /\ job' = [job EXCEPT ![w] = None]
                 /\ sha' = [sha EXCEPT ![w] = None]
                 /\ \/ UNCHANGED orphans
                    \/ orphans' = orphans \union
                           {[op |-> "fail", event |-> job[w], sha |-> None]}
  <1>1. CASE ProcessFails(w) \/ SupersedeRefused(w)
    BY <1>1
    DEF ProcessFails, SupersedeRefused, Raise, GoTo, OnlyTasks, poolVars, Settling,
        GivingUp
  <1>2. CASE ReportFails(w)
    BY <1>2 DEF ReportFails, Leave, GoTo
  <1>3. CASE HandlerFails(w)
    BY <1>3 DEF HandlerFails, Leave, GoTo, poolVars, GivingUp
  <1> QED
    BY <1>1, <1>2, <1>3 DEF Raises

LEMMA TypedRaises ==
    ASSUME Typed, NEW w \in Slots, Raises(w)
    PROVE  Typed'
  <1> USE DEF Typed
  <1>1. UNCHANGED <<storeVars, githubVars, loop, stop, admin, boundVars>>
    BY RaisingEffect
  <1>2. CASE /\ pc[w] \in Settling \union {"lookup"}
             /\ \E l \in GivingUp : pc' = [pc EXCEPT ![w] = l]
             /\ UNCHANGED <<job, sha, orphans>>
    BY <1>1, <1>2
    DEF TypeOK, StoreTypeOK, storeVars, githubVars, boundVars, TasksTyped, Busy, Holding,
        Settling, GivingUp, Seeing
  <1>3. CASE /\ pc[w] \in GivingUp \union {"cancelled", "report"}
             /\ pc' = [pc EXCEPT ![w] = "idle"]
             /\ job' = [job EXCEPT ![w] = None]
             /\ sha' = [sha EXCEPT ![w] = None]
             /\ \/ UNCHANGED orphans
                \/ orphans' = orphans \union
                       {[op |-> "fail", event |-> job[w], sha |-> None]}
    <2>1. job[w] \in Deliveries
      BY <1>3 DEF TasksTyped, GivingUp
    <2>2. \A o \in orphans' : o \in Orphans /\ (o.op \in NeedsHead => o.sha \in Shas)
      BY <1>3, <2>1 DEF TypeOK, TasksTyped, Orphans, GivingUp, NeedsHead
    <2>3. /\ pc' \in [Slots -> Busy \union {"idle", "cancelled"}]
          /\ job' \in [Slots -> Deliveries \union {None}]
          /\ sha' \in [Slots -> Shas \union {None}]
      BY <1>3 DEF TypeOK
    <2>4. TasksTyped'
      BY <1>3, <2>2 DEF TypeOK, TasksTyped, Seeing
    <2> QED
      BY <1>1, <2>2, <2>3, <2>4
      DEF TypeOK, StoreTypeOK, storeVars, githubVars, boundVars
  <1> QED
    BY <1>2, <1>3, RaisingEffect

LEMMA TypedClaimFails ==
    ASSUME Typed, ClaimFails
    PROVE  Typed'
  BY DEF ClaimFails, Typed, TypeOK, StoreTypeOK, storeVars, githubVars, taskVars,
         boundVars, TasksTyped

\* A step of FaultySpec is one of ReviewBot's, or one that raises; it costs a
\* fault unless the transaction itself finds its row not running.
LEMMA FaultyCases ==
    ASSUME FaultyTyped, [FaultyNext]_faultyVars
    PROVE  /\ faults' \in Nat
           /\ \/ [Next]_vars /\ faults' = faults
              \/ ClaimFails /\ faults' = faults + 1
              \/ \E w \in Slots : Raises(w) /\ faults' \in {faults, faults + 1}
  <1>1. CASE (Next /\ UNCHANGED faults) \/ UNCHANGED faultyVars
    BY <1>1 DEF FaultyTyped, faultyVars
  <1>2. CASE ClaimFails
    BY <1>2 DEF FaultyTyped, ClaimFails, Fault
  <1>3. ASSUME NEW w \in Slots, Raises(w)
        PROVE  faults' \in {faults, faults + 1} /\ faults' \in Nat
    <2>1. faults' = faults + 1 \/ faults' = faults
      BY <1>3, Zenon
      DEF Raises, ProcessFails, SupersedeRefused, ReportFails, HandlerFails, Fault
    <2> QED
      BY <2>1 DEF FaultyTyped
  <1> QED
    BY <1>1, <1>2, <1>3 DEF FaultyNext, Raises

LEMMA FaultyTypedInit == FaultyInit => FaultyTyped
  BY TypedInit DEF FaultyInit, FaultyTyped

LEMMA FaultyTypedStep == FaultyTyped /\ [FaultyNext]_faultyVars => FaultyTyped'
  <1> SUFFICES ASSUME FaultyTyped, [FaultyNext]_faultyVars PROVE FaultyTyped'
    OBVIOUS
  <1>1. Typed'
    <2>1. CASE [Next]_vars
      BY <2>1, TypedStep DEF FaultyTyped
    <2>2. CASE ClaimFails
      BY <2>2, TypedClaimFails DEF FaultyTyped
    <2>3. ASSUME NEW w \in Slots, Raises(w)
          PROVE  Typed'
      BY <2>3, TypedRaises DEF FaultyTyped
    <2> QED
      BY <2>1, <2>2, <2>3, FaultyCases DEF Raises
  <1> QED
    BY <1>1, FaultyCases DEF FaultyTyped

-----------------------------------------------------------------------------
(* No review on record without its comment.                                *)

\* Steps that take no comment away and record no review.
LEMMA RecordedFrame ==
    ASSUME Recorded,
           \A h \in PullRequests \X Shas : comments[h] > 0 => comments'[h] > 0,
           \A h \in reviews' : comments'[h] > 0,
           \A w \in Slots : pc'[w] \in HasComment => (comments[HeadOf(w)] > 0)',
           \A o \in orphans' : o.op \in {"adopt", "complete"} =>
                comments'[<<PrOf[o.event], o.sha>>] > 0
    PROVE  Recorded'
  BY DEF Recorded, ReviewIsPublished, OrphansRecordComments

\* The heads that the records and the orphans name exist.
LEMMA RecordedHeads ==
    ASSUME Typed
    PROVE  /\ reviews \subseteq PullRequests \X Shas
           /\ \A o \in orphans : o.op \in {"adopt", "complete"} =>
                  <<PrOf[o.event], o.sha>> \in PullRequests \X Shas
           /\ \A w \in Slots : pc[w] \in HasComment => HeadOf(w) \in PullRequests \X Shas
  <1>1. \A w \in Slots : pc[w] \in HasComment => HeadOf(w) \in PullRequests \X Shas
    BY HeadTyped DEF HasComment, Seeing
  <1> QED
    BY <1>1, StoreAssumption
    DEF Typed, TypeOK, StoreTypeOK, TasksTyped, Orphans, NeedsHead

LEMMA RecordedTask ==
    ASSUME Typed, Recorded, NEW w \in Slots, TaskStep(w)
    PROVE  Recorded'
  <1>0. /\ pc \in [Slots -> Busy \union {"idle", "cancelled"}]
        /\ job \in [Slots -> Deliveries \union {None}]
        /\ sha \in [Slots -> Shas \union {None}]
        /\ comments \in [PullRequests \X Shas -> Nat]
        /\ StoreTypeOK
    BY DEF Typed, TypeOK
  <1>1. CASE \/ Start(w) \/ LookUp(w) \/ CallFails(w) \/ AskModel(w) \/ Recheck(w)
             \/ Report(w) \/ RequeueCancelled(w)
    <2>1. /\ UNCHANGED <<comments, reviews, orphans>>
          /\ \A v \in Slots : v # w => pc'[v] = pc[v] /\ job'[v] = job[v] /\ sha'[v] = sha[v]
          /\ pc'[w] \notin HasComment
      BY <1>0, <1>1
      DEF Start, LookUp, CallFails, Raise, AskModel, Recheck, Report, RequeueCancelled,
          RequeueIfRunning, Leave, GoTo, OnlyTasks, storeVars, githubVars, poolVars,
          HasComment
    <2> QED
      BY <2>1 DEF Recorded, ReviewIsPublished, OrphansRecordComments, HeadOf, Pull
  <1>2. CASE ListComments(w) \/ PostAnswered(w) \/ PublishOutputs(w)
    <2>1. /\ UNCHANGED <<comments, reviews, orphans, job, sha>>
          /\ \A v \in Slots : v # w => pc'[v] = pc[v]
          /\ pc'[w] \in HasComment => pc[w] \in HasComment \/ comments[HeadOf(w)] > 0
      BY <1>0, <1>2
      DEF ListComments, PostAnswered, PublishOutputs, GoTo, OnlyTasks, storeVars,
          githubVars, poolVars, HasComment
    <2> QED
      BY <2>1 DEF Recorded, ReviewIsPublished, OrphansRecordComments, HeadOf, Pull
  <1>3. CASE PostComment(w)
    <2>1. /\ UNCHANGED <<reviews, orphans, job, sha>>
          /\ pc[w] = "post" /\ pc' = [pc EXCEPT ![w] = "posted"]
          /\ comments' = [comments EXCEPT ![HeadOf(w)] = @ + 1]
      BY <1>3 DEF PostComment, storeVars, poolVars, GoTo
    <2>2. HeadOf(w) \in PullRequests \X Shas
      BY <2>1, HeadTyped DEF Seeing
    <2>3. /\ comments'[HeadOf(w)] > 0
          /\ \A h \in PullRequests \X Shas : comments[h] > 0 => comments'[h] > 0
      BY <1>0, <2>1, <2>2
    <2>4. \A v \in Slots : pc'[v] \in HasComment => comments'[HeadOf(v)] > 0
      BY <1>0, <2>1, <2>3, RecordedHeads DEF Recorded
    <2>5. \A v \in Slots : HeadOf(v)' = HeadOf(v)
      BY <2>1 DEF HeadOf, Pull
    <2>6. \A h \in reviews' : comments'[h] > 0
      BY <2>1, <2>3, RecordedHeads DEF Recorded, ReviewIsPublished
    <2>7. \A o \in orphans' : o.op \in {"adopt", "complete"} =>
                comments'[<<PrOf[o.event], o.sha>>] > 0
      BY <2>1, <2>3, RecordedHeads DEF Recorded, OrphansRecordComments
    <2> QED
      BY <2>3, <2>4, <2>5, <2>6, <2>7, RecordedFrame
  <1>4. CASE Settle(w) \/ GiveUp(w)
    <2>1. /\ UNCHANGED <<comments, orphans>>
          /\ pc[w] \in Settling \union GivingUp
          /\ Transact(pc[w], job[w], sha[w])
          /\ \A v \in Slots : v # w => pc'[v] = pc[v] /\ job'[v] = job[v] /\ sha'[v] = sha[v]
          /\ pc'[w] \in {"report", "idle"}
      BY <1>0, <1>4 DEF Settle, GiveUp, Leave, GoTo, githubVars, poolVars
    <2>2. reviews' = IF pc[w] \in {"adopt", "complete"}
                     THEN reviews \union {HeadOf(w)} ELSE reviews
      BY <1>0, <2>1, TaskTransacts, TransactEffect DEF HeadOf, Pull
    <2>3. ReviewIsPublished'
      BY <2>1, <2>2 DEF Recorded, ReviewIsPublished, HasComment
    <2> QED
      BY <2>1, <2>3 DEF Recorded, OrphansRecordComments, HasComment, HeadOf, Pull
  <1> QED
    BY <1>1, <1>2, <1>3, <1>4 DEF TaskStep

LEMMA RecordedProcess ==
    ASSUME Typed, Recorded, Process
    PROVE  Recorded'
  <1>1. CASE Stop \/ Drained \/ Exit \/ Boot
    <2>1. UNCHANGED <<comments, reviews, orphans, pc, job, sha>>
      BY <1>1
      DEF Stop, Drained, Exit, Boot, Recover, storeVars, githubVars, taskVars, poolVars
    <2> QED
      BY <2>1 DEF Recorded, ReviewIsPublished, OrphansRecordComments, HeadOf, Pull
  <1>2. CASE DrainTimeout
    <2>1. /\ UNCHANGED <<comments, reviews>>
          /\ \A w \in Slots : pc'[w] \in {"idle", "cancelled"}
      BY <1>2 DEF DrainTimeout, storeVars, githubVars
    <2>2. \A w \in Slots : pc[w] \in {"adopt", "complete"} =>
              comments[<<PrOf[job[w]], sha[w]>>] > 0
      BY DEF Recorded, HasComment, HeadOf, Pull
    <2>3. OrphansRecordComments'
      BY <1>2, <2>1, <2>2 DEF DrainTimeout, Recorded, OrphansRecordComments
    <2> QED
      BY <2>1, <2>3 DEF Recorded, ReviewIsPublished, HasComment
  <1>3. CASE Crash
    <2>1. /\ UNCHANGED <<comments, reviews>> /\ orphans' = {}
          /\ \A w \in Slots : pc'[w] = "idle"
      BY <1>3 DEF Crash, storeVars, githubVars
    <2> QED
      BY <2>1 DEF Recorded, ReviewIsPublished, OrphansRecordComments, HasComment
  <1>4. ASSUME NEW o \in orphans, OrphanEnds(o)
        PROVE  Recorded'
    <2>1. /\ o.op \in Settling \union GivingUp
          /\ o.event \in Deliveries
          /\ o.sha \in Shas \union {None}
          /\ o.op \in NeedsHead => o.sha \in Shas
          /\ StoreTypeOK
      BY DEF Typed, TypeOK, Orphans, TasksTyped
    <2>2. /\ UNCHANGED <<comments, pc, job, sha>>
          /\ orphans' \subseteq orphans
      BY <1>4 DEF OrphanEnds, githubVars, taskVars
    <2>3. reviews' = reviews \/ (/\ o.op \in {"adopt", "complete"}
                                /\ reviews' = reviews \union {<<PrOf[o.event], o.sha>>})
      BY <1>4, <2>1, TransactEffect DEF OrphanEnds, storeVars
    <2>4. ReviewIsPublished'
      BY <2>2, <2>3 DEF Recorded, ReviewIsPublished, OrphansRecordComments
    <2> QED
      BY <2>2, <2>4 DEF Recorded, OrphansRecordComments, HeadOf, Pull
  <1> QED
    BY <1>1, <1>2, <1>3, <1>4 DEF Process

LEMMA RecordedNext ==
    ASSUME Typed, Recorded, [Next]_vars
    PROVE  Recorded'
  <1>1. CASE Environment \/ UNCHANGED vars
    <2>1. UNCHANGED <<comments, pc, job, sha, orphans>>
      BY <1>1
      DEF Environment, Push, SetStatus, Webhook, ReplayCheck, ManualCheck, AdminEnqueue,
          ClockTick, taskVars, poolVars, githubVars, vars
    <2>2. UNCHANGED reviews
      BY <1>1
      DEF Environment, Push, SetStatus, Webhook, ReplayCheck, ManualCheck, AdminEnqueue,
          ClockTick, Enqueue, BecomeDue, storeVars, vars
    <2> QED
      BY <2>1, <2>2 DEF Recorded, ReviewIsPublished, OrphansRecordComments, HeadOf, Pull
  <1>2. ASSUME NEW w \in Slots, NEW d \in Deliveries, Claim(w, d)
        PROVE  Recorded'
    <2>1. /\ UNCHANGED <<comments, reviews, orphans, sha>>
          /\ pc'[w] = "start"
          /\ \A v \in Slots : v # w => pc'[v] = pc[v] /\ job'[v] = job[v]
      BY <1>2 DEF Claim, ClaimRow, GoTo, githubVars, poolVars, Typed, TypeOK
    <2> QED
      BY <2>1 DEF Recorded, ReviewIsPublished, OrphansRecordComments, HasComment, HeadOf,
                  Pull
  <1> QED
    BY <1>1, <1>2, RecordedTask, RecordedProcess DEF Next, Pool

LEMMA RecordedStep == FaultyTyped /\ Recorded /\ [FaultyNext]_faultyVars => Recorded'
  <1> SUFFICES ASSUME FaultyTyped, Recorded, [FaultyNext]_faultyVars PROVE Recorded'
    OBVIOUS
  <1> USE DEF FaultyTyped
  <1>1. CASE ClaimFails
    BY <1>1
    DEF ClaimFails, storeVars, githubVars, taskVars, Recorded, ReviewIsPublished,
        OrphansRecordComments, HeadOf, Pull
  <1>2. ASSUME NEW w \in Slots, Raises(w)
        PROVE  Recorded'
    <2>1. /\ UNCHANGED <<comments, reviews>>
          /\ \A v \in Slots : v # w => pc'[v] = pc[v] /\ job'[v] = job[v] /\ sha'[v] = sha[v]
          /\ pc'[w] \notin HasComment
          /\ \A o \in orphans' : o \in orphans \/ o.op = "fail"
      <3>1. /\ pc \in [Slots -> Busy \union {"idle", "cancelled"}]
            /\ job \in [Slots -> Deliveries \union {None}]
            /\ sha \in [Slots -> Shas \union {None}]
        BY DEF Typed, TypeOK
      <3> QED
        BY <1>2, <3>1, RaisingEffect DEF storeVars, githubVars, HasComment, GivingUp
    <2> QED
      BY <2>1 DEF Recorded, ReviewIsPublished, OrphansRecordComments, HeadOf, Pull
  <1> QED
    BY <1>1, <1>2, RecordedNext, FaultyCases DEF Raises

\* What is on record as reviewed has its comment on the pull request, whatever
\* calls of the store raise.
THEOREM RecordedUnderFaults == FaultySpec => []ReviewIsPublished
  <1>1. FaultyInit => Recorded
    BY DEF FaultyInit, Init, StoreInit, Recorded, ReviewIsPublished, HasComment,
           OrphansRecordComments
  <1>2. Recorded => ReviewIsPublished
    BY DEF Recorded
  <1>3. FaultySpec => []Recorded
    BY <1>1, FaultyTypedInit, FaultyTypedStep, RecordedStep, PTL DEF FaultySpec
  <1> QED
    BY <1>2, <1>3, PTL

-----------------------------------------------------------------------------
(* A fault strands one claim at most.                                      *)

LEMMA FewAbandonedStep ==
    FaultyTyped /\ FewAbandoned /\ [FaultyNext]_faultyVars => FewAbandoned'
  <1> SUFFICES ASSUME FaultyTyped, FewAbandoned, [FaultyNext]_faultyVars,
                      loop' \in {"up", "drain"}
               PROVE  (IsFiniteSet(Abandoned) /\ Cardinality(Abandoned) <= faults)'
    BY DEF FewAbandoned
  <1> USE DEF FaultyTyped
  <1>1. faults \in Nat /\ faults' \in Nat
    BY FaultyCases
  <1>2. ASSUME loop \in {"up", "drain"}, Abandoned' \subseteq Abandoned, faults <= faults'
        PROVE  (IsFiniteSet(Abandoned) /\ Cardinality(Abandoned) <= faults)'
    <2>1. /\ IsFiniteSet(Abandoned) /\ Cardinality(Abandoned) <= faults
          /\ Cardinality(Abandoned) \in Nat
      BY <1>2, FS_CardinalityType DEF FewAbandoned
    <2>2. /\ IsFiniteSet(Abandoned') /\ Cardinality(Abandoned') <= Cardinality(Abandoned)
          /\ Cardinality(Abandoned') \in Nat
      BY <1>2, <2>1, FS_Subset, FS_CardinalityType
    <2> QED
      BY <1>1, <1>2, <2>1, <2>2
  <1>3. CASE [Next]_vars /\ faults' = faults
    <2>1. CASE loop \in {"up", "drain"} /\ Abandoned' \subseteq Abandoned
      BY <1>1, <1>2, <1>3, <2>1
    <2>2. CASE Abandoned' = {}
      BY <1>1, <2>2, FS_EmptySet
    <2> QED
      BY <1>3, <2>1, <2>2, AbandonedStep
  <1>4. CASE ClaimFails /\ faults' = faults + 1
    <2>1. /\ loop = "up"
          /\ Abandoned' \subseteq Abandoned
      BY <1>4, AbandonedFrame DEF ClaimFails, storeVars, taskVars
    <2> QED
      BY <1>1, <1>2, <1>4, <2>1
  <1>5. ASSUME NEW w \in Slots, Raises(w)
        PROVE  /\ loop' = loop
               /\ Abandoned' \subseteq Abandoned \union {job[w]}
               /\ ~HandlerFails(w) => Abandoned' \subseteq Abandoned
    <2>1. /\ pc \in [Slots -> Busy \union {"idle", "cancelled"}]
          /\ job \in [Slots -> Deliveries \union {None}]
      BY DEF Typed, TypeOK
    <2>2. /\ UNCHANGED <<state, loop>>
          /\ \A v \in Slots : v # w => pc'[v] = pc[v] /\ job'[v] = job[v]
      BY <1>5, <2>1, RaisingEffect DEF storeVars
    <2>3. Abandoned' \subseteq Abandoned \union {job[w]}
      BY <2>2 DEF Abandoned
    <2>4. ASSUME ~HandlerFails(w)
          PROVE  Abandoned' \subseteq Abandoned
      <3>1. CASE pc[w] = "report"
        <4>1. pc[w] \notin Holding \union {"cancelled"}
          BY <3>1 DEF Holding, Settling, GivingUp, Calling
        <4> QED
          BY <2>2, <4>1 DEF Abandoned
      <3>2. CASE pc[w] # "report"
        <4>1. pc'[w] \in GivingUp /\ UNCHANGED job
          BY <1>5, <2>1, <2>4, <3>2
          DEF Raises, ProcessFails, SupersedeRefused, ReportFails, Raise, GoTo, OnlyTasks,
              GivingUp
        <4>2. pc'[w] \in Holding
          BY <4>1 DEF Holding
        <4> QED
          BY <2>2, <4>1, <4>2 DEF Abandoned
      <3> QED
        BY <3>1, <3>2
    <2> QED
      BY <2>2, <2>3, <2>4
  <1>6. ASSUME NEW w \in Slots, Raises(w), faults' \in {faults, faults + 1},
               ~HandlerFails(w)
        PROVE  (IsFiniteSet(Abandoned) /\ Cardinality(Abandoned) <= faults)'
    BY <1>1, <1>2, <1>5, <1>6
  <1>7. ASSUME NEW w \in Slots, HandlerFails(w), faults' = faults + 1
        PROVE  (IsFiniteSet(Abandoned) /\ Cardinality(Abandoned) <= faults)'
    <2>1. loop \in {"up", "drain"} /\ Abandoned' \subseteq Abandoned \union {job[w]}
      BY <1>5, <1>7 DEF Raises
    <2> DEFINE more == Abandoned \union {job[w]}
    <2>2. /\ IsFiniteSet(Abandoned) /\ Cardinality(Abandoned) <= faults
          /\ Cardinality(Abandoned) \in Nat
      BY <2>1, FS_CardinalityType DEF FewAbandoned
    <2>3. /\ IsFiniteSet(more) /\ Cardinality(more) \in Nat
          /\ Cardinality(more) <= Cardinality(Abandoned) + 1
      <3>1. /\ IsFiniteSet(more)
            /\ Cardinality(more) = IF job[w] \in Abandoned THEN Cardinality(Abandoned)
                                   ELSE Cardinality(Abandoned) + 1
        BY <2>2, FS_AddElement, Zenon
      <3> QED
        BY <2>2, <3>1, FS_CardinalityType
    <2> HIDE DEF more
    <2>4. Abandoned' \subseteq more
      BY <2>1 DEF more
    <2>5. /\ IsFiniteSet(Abandoned') /\ Cardinality(Abandoned') <= Cardinality(more)
          /\ Cardinality(Abandoned') \in Nat
      BY <2>3, <2>4, FS_Subset, FS_CardinalityType
    <2> QED
      BY <1>1, <1>7, <2>2, <2>3, <2>5
  <1> QED
    BY <1>3, <1>4, <1>6, <1>7, FaultyCases DEF HandlerFails, Fault

\* Each claim that nobody works on while the pool runs stands for a store call
\* that raised: one fault strands one claim, and the next start frees it.
THEOREM FaultsStrandFew == FaultySpec => []FewStranded
  <1>1. FaultyInit => FewAbandoned
    <2> SUFFICES ASSUME FaultyInit PROVE FewAbandoned
      OBVIOUS
    <2>1. Abandoned = {} /\ faults = 0
      BY DEF FaultyInit, Init, StoreInit, Abandoned
    <2> QED
      BY <2>1, FS_EmptySet DEF FewAbandoned
  <1>2. FaultyTyped /\ FewAbandoned => FewStranded
    <2> SUFFICES ASSUME FaultyTyped, FewAbandoned PROVE FewStranded
      OBVIOUS
    <2> DEFINE S == {d \in Deliveries : Stranded(d)}
    <2>1. CASE loop = "up"
      <3>1. /\ IsFiniteSet(Abandoned) /\ Cardinality(Abandoned) <= faults
            /\ Cardinality(Abandoned) \in Nat
        BY <2>1, FS_CardinalityType DEF FewAbandoned
      <3>2. S \subseteq Abandoned
        BY DEF Stranded, Abandoned, Holding, Settling, GivingUp, Calling
      <3>3. Cardinality(S) <= Cardinality(Abandoned) /\ Cardinality(S) \in Nat
        BY <3>1, <3>2, FS_Subset, FS_CardinalityType
      <3> QED
        BY <3>1, <3>3 DEF FewStranded, FaultyTyped
    <2>2. CASE loop # "up"
      <3>1. S = {}
        BY <2>2 DEF Stranded
      <3> QED
        BY <3>1, FS_EmptySet DEF FewStranded, FaultyTyped
    <2> QED
      BY <2>1, <2>2
  <1>3. FaultySpec => [](FaultyTyped /\ FewAbandoned)
    BY <1>1, FaultyTypedInit, FaultyTypedStep, FewAbandonedStep, PTL DEF FaultySpec
  <1> QED
    BY <1>2, <1>3, PTL
=============================================================================
