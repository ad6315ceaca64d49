------------------------- MODULE ReviewPromiseProofs -------------------------
(***************************************************************************)
(* ReviewBot implements ReviewPromise, and a settled event stays settled.  *)
(* Both need one more layer of the invariant of ReviewBotProofs: the event *)
(* of a store call that outlived its task is not settled yet, and no other *)
(* such call may settle it, because each belongs to another pull request.  *)
(***************************************************************************)
EXTENDS ReviewBotProofs

OrphansOwnEvents ==
    /\ \A o \in orphans : state[o.event] \in {"queued", "running"}
    /\ \A o, q \in orphans : PrOf[o.event] = PrOf[q.event] => o = q

Inv == Typed /\ Claims /\ Published /\ OrphansOwnEvents

-----------------------------------------------------------------------------
(* The invariant.                                                          *)

\* A transaction on d touches the rows of its own pull request only.
LEMMA TransactIsLocal ==
    ASSUME StoreTypeOK,
           NEW op \in Settling \union GivingUp, NEW d \in Deliveries,
           NEW s \in Shas \union {None}, op \in NeedsHead => s \in Shas,
           Transact(op, d, s)
    PROVE  \A e \in Deliveries : PrOf[e] # PrOf[d] => state'[e] = state[e]
  <1>1. CASE op \in {"skip", "fail", "retry", "adopt", "complete"}
    BY <1>1 DEF Transact, SetEventState, MarkRetry, CompleteReview, StoreTypeOK
  <1>2. CASE op = "supersede"
    <2>1. /\ RefreshId[<<PrOf[d], s>>] \in Deliveries
          /\ PrOf[RefreshId[<<PrOf[d], s>>]] = PrOf[d]
      BY <1>2, StoreAssumption DEF NeedsHead
    <2> QED
      BY <1>2, <2>1 DEF Transact, SupersedeAndEnqueue, StoreTypeOK
  <1> QED
    BY <1>1, <1>2 DEF Settling, GivingUp

LEMMA OrphansStep ==
    ASSUME Typed, Claims, OrphansOwnEvents, [Next]_vars
    PROVE  OrphansOwnEvents'
  <1>0. /\ \A o \in orphans : o.event \in Deliveries
        /\ StoreTypeOK
    BY DEF Typed, TypeOK, Orphans
  <1>1. ASSUME orphans' \subseteq orphans,
               \A d \in Deliveries :
                    state[d] \in {"queued", "running"} => state'[d] \in {"queued", "running"}
        PROVE  OrphansOwnEvents'
    BY <1>0, <1>1 DEF OrphansOwnEvents
  <1>2. CASE Environment \/ UNCHANGED vars
    <2>1. orphans' \subseteq orphans
      BY <1>2
      DEF Environment, Push, SetStatus, Webhook, ReplayCheck, ManualCheck, AdminEnqueue,
          ClockTick, poolVars, vars
    <2>2. \A d \in Deliveries :
            state[d] \in {"queued", "running"} => state'[d] \in {"queued", "running"}
      BY <1>0, <1>2
      DEF Environment, Push, SetStatus, Webhook, ReplayCheck, ManualCheck, AdminEnqueue,
          ClockTick, Enqueue, BecomeDue, storeVars, vars, StoreTypeOK
    <2> QED
      BY <1>1, <2>1, <2>2
  <1>3. ASSUME NEW w \in Slots, TaskStep(w)
        PROVE  OrphansOwnEvents'
    <2>1. CASE RequeueCancelled(w)
      <3>1. /\ orphans' = orphans
            /\ \A d \in Deliveries :
                state[d] \in {"queued", "running"} => state'[d] \in {"queued", "running"}
        BY <1>0, <2>1 DEF RequeueCancelled, RequeueIfRunning, storeVars, poolVars, StoreTypeOK
      <3> QED
        BY <1>1, <3>1
    <2>2. CASE ~RequeueCancelled(w)
      <3>1. pc[w] \in Holding \union {"report"}
        BY <1>3, <2>2
        DEF TaskStep, Start, LookUp, ListComments, AskModel, Recheck, PostComment,
            PostAnswered, PublishOutputs, Settle, Report, CallFails, GiveUp, Holding,
            Settling, GivingUp, Calling
      <3>2. orphans = {}
        BY <3>1 DEF Claims, QuietAfterCancel, Holding, Settling, GivingUp, Calling
      <3>3. orphans' = orphans
        BY <1>3
        DEF TaskStep, Start, LookUp, ListComments, AskModel, Recheck, PostComment,
            PostAnswered, PublishOutputs, Settle, Report, CallFails, GiveUp,
            RequeueCancelled, OnlyTasks, poolVars
      <3> QED
        BY <3>2, <3>3 DEF OrphansOwnEvents
    <2> QED
      BY <2>1, <2>2
  <1>4. ASSUME NEW w \in Slots, NEW d \in Deliveries, Claim(w, d)
        PROVE  OrphansOwnEvents'
    <2>1. orphans' = {}
      BY <1>4 DEF Claim, poolVars, Claims, QuietAfterCancel
    <2> QED
      BY <2>1 DEF OrphansOwnEvents
  <1>5. CASE Stop \/ Drained \/ Exit
    BY <1>1, <1>5 DEF Stop, Drained, Exit, storeVars, poolVars
  <1>6. CASE DrainTimeout
    <2>1. orphans = {} /\ UNCHANGED state
      BY <1>6 DEF DrainTimeout, storeVars, Claims, QuietAfterCancel
    <2>2. \A o \in orphans' : \E w \in Slots :
              pc[w] \in Holding /\ o = [op |-> pc[w], event |-> job[w], sha |-> sha[w]]
      BY <1>6, <2>1 DEF DrainTimeout, Holding
    <2>3. \A w \in Slots : pc[w] \in Holding =>
              job[w] \in Deliveries /\ state[job[w]] = "running"
      BY DEF Typed, TasksTyped, Claims, ClaimIsKept, Holding, Settling, GivingUp, Calling
    <2>4. \A o \in orphans' : state'[o.event] \in {"queued", "running"}
      BY <2>1, <2>2, <2>3
    <2>5. ASSUME NEW o \in orphans', NEW q \in orphans', PrOf[o.event] = PrOf[q.event]
          PROVE  o = q
      <3>1. PICK v \in Slots :
                pc[v] \in Holding /\ o = [op |-> pc[v], event |-> job[v], sha |-> sha[v]]
        BY <2>2
      <3>2. PICK w \in Slots :
                pc[w] \in Holding /\ q = [op |-> pc[w], event |-> job[w], sha |-> sha[w]]
        BY <2>2
      <3>3. job[v] = job[w]
        BY <2>3, <2>5, <3>1, <3>2 DEF Claims, RunningIsUnique
      <3> QED
        BY <3>1, <3>2, <3>3 DEF Claims, JobsDiffer
    <2> QED
      BY <2>4, <2>5 DEF OrphansOwnEvents
  <1>7. CASE Crash \/ Boot
    <2>1. orphans' = {}
      BY <1>7 DEF Crash, Boot, Claims, QuietAfterCancel
    <2> QED
      BY <2>1 DEF OrphansOwnEvents
  <1>8. ASSUME NEW o \in orphans, OrphanEnds(o)
        PROVE  OrphansOwnEvents'
    <2>1. /\ o.op \in Settling \union GivingUp
          /\ o.event \in Deliveries
          /\ o.sha \in Shas \union {None}
          /\ o.op \in NeedsHead => o.sha \in Shas
      BY DEF Typed, TypeOK, Orphans, TasksTyped
    <2>2. orphans' = orphans \ {o}
      BY <1>8 DEF OrphanEnds
    <2>3. \A q \in orphans' : state'[q.event] = state[q.event]
      <3>1. CASE UNCHANGED storeVars
        BY <3>1 DEF storeVars
      <3>2. CASE Transact(o.op, o.event, o.sha)
        BY <1>0, <2>1, <2>2, <3>2, TransactIsLocal DEF OrphansOwnEvents
      <3> QED
        BY <1>8, <3>1, <3>2 DEF OrphanEnds
    <2> QED
      BY <2>2, <2>3 DEF OrphansOwnEvents
  <1> QED
    BY <1>2, <1>3, <1>4, <1>5, <1>6, <1>7, <1>8 DEF Next, Process, Pool

LEMMA InvHolds == Spec => []Inv
  <1>1. Init => OrphansOwnEvents
    BY DEF Init, OrphansOwnEvents
  <1> QED
    BY <1>1, TypedInit, TypedStep, ClaimsInit, ClaimsStep, PublishedInit, PublishedStep,
       OrphansStep, PTL DEF Spec, Inv

-----------------------------------------------------------------------------
(* The simulation.                                                         *)

Phase == [d \in Deliveries |-> PhaseOf(state[d])]

\* One step of the promise, or none.
Simulated == [Promise!Next]_<<Phase, comments>>

LEMMA PhaseValues ==
    /\ PhaseOf("absent") = "unknown"
    /\ PhaseOf("queued") = "waiting"
    /\ PhaseOf("running") = "working"
    /\ \A st \in Terminal : PhaseOf(st) = "settled"
  BY DEF PhaseOf, Terminal

LEMMA PhaseIsOf ==
    ASSUME StoreTypeOK, NEW d \in Deliveries
    PROVE  /\ Phase[d] = "unknown" <=> state[d] = "absent"
           /\ Phase[d] = "waiting" <=> state[d] = "queued"
           /\ Phase[d] = "working" <=> state[d] = "running"
           /\ Phase[d] = "settled" <=> state[d] \in Terminal
  BY PhaseValues DEF Phase, StoreTypeOK, EventStates, Terminal

\* Rows that keep their phase keep the picture.
LEMMA SamePhase ==
    ASSUME \A d \in Deliveries : state'[d] = state[d]
    PROVE  Phase' = Phase
  BY DEF Phase

\* One row changes.
LEMMA OneRow ==
    ASSUME NEW d \in Deliveries, \A e \in Deliveries : e # d => state'[e] = state[e]
    PROVE  Phase' = [Phase EXCEPT ![d] = PhaseOf(state'[d])]
  BY DEF Phase

LEMMA EnqueueSimulated ==
    ASSUME StoreTypeOK, NEW d \in Deliveries, Enqueue(d), UNCHANGED comments
    PROVE  Simulated
  <1>1. CASE state[d] # "absent"
    BY <1>1, SamePhase DEF Enqueue, storeVars, Simulated
  <1>2. CASE state[d] = "absent"
    <2>1. /\ state' = [state EXCEPT ![d] = "queued"]
          /\ state'[d] = "queued"
          /\ \A e \in Deliveries : e # d => state'[e] = state[e]
      BY <1>2 DEF Enqueue, StoreTypeOK
    <2>2. Phase' = [Phase EXCEPT ![d] = "waiting"]
      BY <2>1, OneRow, PhaseValues
    <2>3. Promise!Accept(d)
      BY <1>2, <2>2, PhaseIsOf DEF Promise!Accept, Phase
    <2> QED
      BY <2>3 DEF Simulated, Promise!Next
  <1> QED
    BY <1>1, <1>2

\* The transactions: d is working, or waits again while its late call commits.
LEMMA TransactSimulated ==
    ASSUME StoreTypeOK,
           NEW op \in Settling \union GivingUp, NEW d \in Deliveries,
           NEW s \in Shas \union {None}, op \in NeedsHead => s \in Shas,
           state[d] \in {"queued", "running"},
           Transact(op, d, s), UNCHANGED comments
    PROVE  Simulated
  <1>1. CASE op \in {"skip", "fail", "adopt", "complete"}
    <2>1. /\ state'[d] \in {"skipped", "failed", "succeeded"}
          /\ \A e \in Deliveries : e # d => state'[e] = state[e]
      BY <1>1 DEF Transact, SetEventState, CompleteReview, StoreTypeOK
    <2>2. Phase' = [Phase EXCEPT ![d] = "settled"]
      BY <2>1, OneRow, PhaseValues DEF Terminal
    <2>3. Promise!Settle(d)
      BY <2>2, PhaseIsOf DEF Promise!Settle, Phase
    <2> QED
      BY <2>3 DEF Simulated, Promise!Next
  <1>2. CASE op = "retry"
    <2>1. /\ state'[d] = "queued"
          /\ \A e \in Deliveries : e # d => state'[e] = state[e]
      BY <1>2 DEF Transact, MarkRetry, StoreTypeOK
    <2>2. CASE state[d] = "queued"
      BY <2>1, <2>2, SamePhase DEF Simulated
    <2>3. CASE state[d] = "running"
      <3>1. Phase' = [e \in Deliveries |-> IF e \in {d} THEN "waiting" ELSE Phase[e]]
        BY <2>1, PhaseValues DEF Phase
      <3>2. Promise!GiveBack({d})
        BY <2>3, <3>1, PhaseIsOf DEF Promise!GiveBack, Phase
      <3> QED
        BY <3>2 DEF Simulated, Promise!Next
    <2> QED
      BY <2>2, <2>3
  <1>3. CASE op = "supersede"
    <2> DEFINE r == RefreshId[<<PrOf[d], s>>]
    <2>1. r \in Deliveries /\ s \in Shas
      BY <1>3, StoreAssumption DEF NeedsHead
    <2>2. state[d] = "running"
      BY <1>3 DEF Transact, SupersedeAndEnqueue
    <2>3. \/ /\ state'[d] = "superseded"
             /\ \A e \in Deliveries : e # d => state'[e] = state[e]
          \/ /\ r = d \/ state[r] \notin {"queued", "running"}
             /\ state' = [[state EXCEPT ![d] = "superseded"] EXCEPT ![r] = "queued"]
      BY <1>3, <2>1 DEF Transact, SupersedeAndEnqueue, StoreTypeOK
    <2>4. CASE /\ state'[d] = "superseded"
               /\ \A e \in Deliveries : e # d => state'[e] = state[e]
      <3>1. Phase' = [Phase EXCEPT ![d] = "settled"]
        BY <2>4, OneRow, PhaseValues DEF Terminal
      <3>2. Promise!Settle(d)
        BY <2>2, <3>1, PhaseIsOf DEF Promise!Settle, Phase
      <3> QED
        BY <3>2 DEF Simulated, Promise!Next
    <2>5. CASE /\ r = d \/ state[r] \notin {"queued", "running"}
               /\ state' = [[state EXCEPT ![d] = "superseded"] EXCEPT ![r] = "queued"]
      <3>1. \A e \in Deliveries :
                state'[e] = IF e = r THEN "queued"
                            ELSE IF e = d THEN "superseded" ELSE state[e]
        BY <2>1, <2>5 DEF StoreTypeOK
      <3>2. Phase' = [e \in Deliveries |->
                IF e = r THEN "waiting" ELSE IF e = d THEN "settled" ELSE Phase[e]]
        BY <2>1, <3>1, PhaseValues DEF Phase, Terminal
      <3>3. Phase[r] \in {"unknown", "settled"} \/ r = d
        BY <2>1, <2>5, PhaseIsOf DEF StoreTypeOK, EventStates
      <3>4. Promise!Renew(d, s)
        BY <2>2, <3>2, <3>3, PhaseIsOf DEF Promise!Renew, Phase
      <3> QED
        BY <2>1, <3>4 DEF Simulated, Promise!Next
    <2> QED
      BY <2>3, <2>4, <2>5
  <1> QED
    BY <1>1, <1>2, <1>3 DEF Settling, GivingUp

LEMMA TaskSimulated ==
    ASSUME Inv, NEW w \in Slots, TaskStep(w)
    PROVE  Simulated
  <1>0. /\ StoreTypeOK
        /\ pc[w] \in Holding => job[w] \in Deliveries /\ state[job[w]] = "running"
    BY DEF Inv, Typed, TypeOK, TasksTyped, Claims, ClaimIsKept, Holding, Settling, GivingUp,
           Calling
  <1>1. CASE \/ Start(w) \/ LookUp(w) \/ ListComments(w) \/ AskModel(w) \/ Recheck(w)
             \/ PostAnswered(w) \/ PublishOutputs(w) \/ Report(w) \/ CallFails(w)
    <2>1. UNCHANGED <<state, comments>>
      BY <1>1
      DEF Start, LookUp, ListComments, AskModel, Recheck, PostAnswered, PublishOutputs,
          Report, CallFails, OnlyTasks, storeVars, githubVars
    <2> QED
      BY <2>1, SamePhase DEF Simulated
  <1>2. CASE PostComment(w)
    <2>1. /\ pc[w] = "post" /\ UNCHANGED state
          /\ comments' = [comments EXCEPT ![HeadOf(w)] = @ + 1]
          /\ comments[HeadOf(w)] = 0
      BY <1>2 DEF PostComment, storeVars, Inv, Published, TaskKnows
    <2>2. job[w] \in Deliveries /\ sha[w] \in Shas
      BY <2>1 DEF Inv, Typed, TasksTyped, Seeing
    <2>3. Promise!Publish(job[w], sha[w])
      <3>1. Phase' = Phase
        BY <2>1, SamePhase
      <3>2. Phase[job[w]] = "working"
        BY <1>0, <2>1, PhaseIsOf DEF Holding, Calling
      <3>3. comments' = [comments EXCEPT ![HeadOf(w)] = 1]
        BY <2>1
      <3> QED
        BY <2>1, <3>1, <3>2, <3>3 DEF Promise!Publish, Phase, HeadOf, Pull
    <2> QED
      BY <2>2, <2>3 DEF Simulated, Promise!Next
  <1>3. CASE Settle(w) \/ GiveUp(w)
    <2>1. /\ pc[w] \in Settling \union GivingUp
          /\ Transact(pc[w], job[w], sha[w]) /\ UNCHANGED comments
      BY <1>3 DEF Settle, GiveUp, githubVars
    <2>2. state[job[w]] \in {"queued", "running"}
      BY <1>0, <2>1 DEF Holding
    <2> QED
      BY <1>0, <2>1, <2>2, TaskTransacts, TransactSimulated DEF Inv
  <1>4. CASE RequeueCancelled(w)
    <2>1. job[w] \in Deliveries /\ UNCHANGED comments /\ RequeueIfRunning(job[w])
      BY <1>4 DEF RequeueCancelled, githubVars, Inv, Typed, TasksTyped
    <2>2. CASE state[job[w]] = "running"
      <3>1. /\ state'[job[w]] = "queued"
            /\ \A e \in Deliveries : e # job[w] => state'[e] = state[e]
        BY <1>0, <2>1, <2>2 DEF RequeueIfRunning, StoreTypeOK
      <3>2. Phase' = [e \in Deliveries |->
                        IF e \in {job[w]} THEN "waiting" ELSE Phase[e]]
        BY <3>1, PhaseValues DEF Phase
      <3>3. Promise!GiveBack({job[w]})
        BY <1>0, <2>1, <2>2, <3>2, PhaseIsOf DEF Promise!GiveBack, Phase
      <3> QED
        BY <2>1, <3>3 DEF Simulated, Promise!Next
    <2>3. CASE state[job[w]] # "running"
      BY <2>1, <2>3, SamePhase DEF RequeueIfRunning, storeVars, Simulated
    <2> QED
      BY <2>2, <2>3
  <1> QED
    BY <1>1, <1>2, <1>3, <1>4 DEF TaskStep

LEMMA ClaimSimulated ==
    ASSUME Inv, NEW w \in Slots, NEW d \in Deliveries, Claim(w, d)
    PROVE  Simulated
  <1>1. /\ StoreTypeOK /\ UNCHANGED comments /\ state[d] = "queued"
        /\ state' = [state EXCEPT ![d] = "running"]
        /\ \A e \in Deliveries : state[e] = "running" => PrOf[e] # PrOf[d]
    BY DEF Claim, ClaimRow, Claimable, githubVars, Inv, Typed, TypeOK
  <1>2. /\ state'[d] = "running"
        /\ \A e \in Deliveries : e # d => state'[e] = state[e]
    BY <1>1 DEF StoreTypeOK
  <1>3. Phase' = [Phase EXCEPT ![d] = "working"]
    BY <1>2, OneRow, PhaseValues
  <1>4. Promise!Begin(d)
    BY <1>1, <1>3, PhaseIsOf DEF Promise!Begin, Phase
  <1> QED
    BY <1>4 DEF Simulated, Promise!Next

LEMMA ProcessSimulated ==
    ASSUME Inv, Process
    PROVE  Simulated
  <1>1. CASE Stop \/ DrainTimeout \/ Drained \/ Exit \/ Crash
    <2>1. UNCHANGED <<state, comments>>
      BY <1>1 DEF Stop, DrainTimeout, Drained, Exit, Crash, storeVars, githubVars
    <2> QED
      BY <2>1, SamePhase DEF Simulated
  <1>2. CASE Boot
    <2> DEFINE stranded == {d \in Deliveries : state[d] = "running"}
    <2>1. /\ UNCHANGED comments
          /\ \A d \in Deliveries : state'[d] = IF d \in stranded THEN "queued" ELSE state[d]
      BY <1>2 DEF Boot, Recover, githubVars
    <2>2. CASE stranded = {}
      BY <2>1, <2>2, SamePhase DEF Simulated
    <2>3. CASE stranded # {}
      <3>1. Phase' = [d \in Deliveries |-> IF d \in stranded THEN "waiting" ELSE Phase[d]]
        BY <2>1, PhaseValues DEF Phase
      <3>2. \A d \in stranded : Phase[d] = "working"
        BY PhaseIsOf DEF Inv, Typed, TypeOK
      <3>3. Promise!GiveBack(stranded)
        BY <2>1, <2>3, <3>1, <3>2 DEF Promise!GiveBack, Phase
      <3>4. stranded \in SUBSET Deliveries
        OBVIOUS
      <3> QED
        BY <3>3, <3>4 DEF Simulated, Promise!Next
    <2> QED
      BY <2>2, <2>3
  <1>3. ASSUME NEW o \in orphans, OrphanEnds(o)
        PROVE  Simulated
    <2>1. /\ o.op \in Settling \union GivingUp
          /\ o.event \in Deliveries
          /\ o.sha \in Shas \union {None}
          /\ o.op \in NeedsHead => o.sha \in Shas
          /\ state[o.event] \in {"queued", "running"}
          /\ StoreTypeOK
      BY DEF Inv, Typed, TypeOK, Orphans, TasksTyped, OrphansOwnEvents
    <2>2. UNCHANGED comments
      BY <1>3 DEF OrphanEnds, githubVars
    <2>3. CASE Transact(o.op, o.event, o.sha)
      BY <2>1, <2>2, <2>3, TransactSimulated
    <2>4. CASE UNCHANGED storeVars
      BY <2>2, <2>4, SamePhase DEF storeVars, Simulated
    <2> QED
      BY <1>3, <2>3, <2>4 DEF OrphanEnds
  <1> QED
    BY <1>1, <1>2, <1>3 DEF Process

LEMMA NextSimulated ==
    ASSUME Inv, [Next]_vars
    PROVE  Simulated
  <1>1. CASE UNCHANGED vars
    BY <1>1, SamePhase DEF vars, storeVars, githubVars, Simulated
  <1>2. CASE Environment
    <2>1. ASSUME NEW d \in Deliveries, Webhook(d) \/ AdminEnqueue(d)
          PROVE  Simulated
      BY <2>1, EnqueueSimulated DEF Webhook, AdminEnqueue, githubVars, Inv, Typed, TypeOK
    <2>2. CASE ~\E d \in Deliveries : Webhook(d) \/ AdminEnqueue(d)
      <3>1. UNCHANGED <<state, comments>>
        BY <1>2, <2>2
        DEF Environment, Push, SetStatus, ReplayCheck, ManualCheck, ClockTick, BecomeDue,
            storeVars, githubVars
      <3> QED
        BY <3>1, SamePhase DEF Simulated
    <2> QED
      BY <2>1, <2>2
  <1> QED
    BY <1>1, <1>2, TaskSimulated, ClaimSimulated, ProcessSimulated DEF Next, Pool

\* The service does what ReviewPromise says: per pull request one event is
\* worked on at a time, and only the event being worked on publishes, once
\* per commit, whatever the pool, the process and GitHub do.
THEOREM ImplementsPromise == Spec => KeepsPromise
  <1>1. Init => Promise!Init
    BY PhaseValues DEF Init, StoreInit, Promise!Init
  <1>2. Inv /\ [Next]_vars => [Promise!Next]_(Promise!vars)
    BY NextSimulated DEF Simulated, Promise!vars, Phase
  <1> QED
    BY <1>1, <1>2, InvHolds, PTL DEF Spec, KeepsPromise, Promise!Spec

-----------------------------------------------------------------------------
(* A settled event stays settled.                                          *)

\* A transaction revives a settled row only as the refresh of a head that has
\* no review.
LEMMA TransactRevives ==
    ASSUME StoreTypeOK,
           NEW op \in Settling \union GivingUp, NEW d \in Deliveries,
           NEW s \in Shas \union {None}, op \in NeedsHead => s \in Shas,
           state[d] \in {"queued", "running"}, Transact(op, d, s),
           NEW e \in Deliveries, state[e] \in Terminal, state'[e] # state[e]
    PROVE  /\ state'[e] = "queued" /\ attempts'[e] = 0
           /\ \E p \in PullRequests, h \in Shas :
                  e = RefreshId[<<p, h>>] /\ <<p, h>> \notin reviews
  <1>1. e # d
    BY DEF Terminal
  <1>2. op = "supersede"
    BY <1>1 DEF Transact, SetEventState, MarkRetry, CompleteReview, StoreTypeOK
  <1>3. /\ s \in Shas /\ PrOf[d] \in PullRequests
        /\ RefreshId[<<PrOf[d], s>>] \in Deliveries
    BY <1>2, StoreAssumption DEF NeedsHead
  <1>4. /\ e = RefreshId[<<PrOf[d], s>>]
        /\ state'[e] = "queued" /\ attempts'[e] = 0
        /\ <<PrOf[d], s>> \notin reviews
    BY <1>1, <1>2, <1>3 DEF Transact, SupersedeAndEnqueue, StoreTypeOK
  <1> QED
    BY <1>3, <1>4

LEMMA SettledStep ==
    ASSUME Inv, [Next]_vars, NEW e \in Deliveries, state[e] \in Terminal, state'[e] # state[e]
    PROVE  /\ state'[e] = "queued" /\ attempts'[e] = 0
           /\ \E p \in PullRequests, h \in Shas :
                  e = RefreshId[<<p, h>>] /\ <<p, h>> \notin reviews
  <1>0. StoreTypeOK
    BY DEF Inv, Typed, TypeOK
  <1>1. ASSUME NEW w \in Slots, Settle(w) \/ GiveUp(w)
        PROVE  \E op \in Settling \union GivingUp, d \in Deliveries, s \in Shas \union {None} :
                  /\ op \in NeedsHead => s \in Shas
                  /\ state[d] \in {"queued", "running"} /\ Transact(op, d, s)
    <2>1. pc[w] \in Settling \union GivingUp /\ Transact(pc[w], job[w], sha[w])
      BY <1>1 DEF Settle, GiveUp
    <2>2. state[job[w]] = "running"
      BY <2>1 DEF Inv, Claims, ClaimIsKept, Holding
    <2> QED
      BY <2>1, <2>2, TaskTransacts DEF Inv
  <1>2. ASSUME NEW o \in orphans, OrphanEnds(o)
        PROVE  \E op \in Settling \union GivingUp, d \in Deliveries, s \in Shas \union {None} :
                  /\ op \in NeedsHead => s \in Shas
                  /\ state[d] \in {"queued", "running"} /\ Transact(op, d, s)
    <2>1. /\ o.op \in Settling \union GivingUp
          /\ o.event \in Deliveries
          /\ o.sha \in Shas \union {None}
          /\ o.op \in NeedsHead => o.sha \in Shas
          /\ state[o.event] \in {"queued", "running"}
      BY DEF Inv, Typed, TypeOK, Orphans, TasksTyped, OrphansOwnEvents
    <2>2. Transact(o.op, o.event, o.sha)
      BY <1>2 DEF OrphanEnds, storeVars
    <2> QED
      BY <2>1, <2>2
  <1>3. \/ \E w \in Slots : Settle(w) \/ GiveUp(w)
        \/ \E o \in orphans : OrphanEnds(o)
    <2>1. CASE Environment
      <3>1. \A d \in Deliveries : Enqueue(d) => state'[e] = state[e]
        BY <1>0 DEF Enqueue, storeVars, StoreTypeOK, Terminal
      <3> QED
        BY <2>1, <3>1
        DEF Environment, Push, SetStatus, Webhook, ReplayCheck, ManualCheck, AdminEnqueue,
            ClockTick, BecomeDue, storeVars
    <2>2. CASE Process
      <3>1. Recover => state'[e] = state[e]
        BY DEF Recover, Terminal
      <3> QED
        BY <2>2, <3>1
        DEF Process, Stop, DrainTimeout, Drained, Exit, Crash, Boot, storeVars
    <2>3. CASE Pool
      <3>1. \A w \in Slots, d \in Deliveries : Claim(w, d) => state'[e] = state[e]
        BY <1>0 DEF Claim, ClaimRow, Claimable, StoreTypeOK, Terminal
      <3>2. \A w \in Slots : RequeueCancelled(w) => state'[e] = state[e]
        BY <1>0 DEF RequeueCancelled, RequeueIfRunning, storeVars, StoreTypeOK, Terminal
      <3> QED
        BY <2>3, <3>1, <3>2
        DEF Pool, TaskStep, Start, LookUp, ListComments, AskModel, Recheck, PostComment,
            PostAnswered, PublishOutputs, Report, CallFails, OnlyTasks, storeVars
    <2>4. CASE UNCHANGED vars
      BY <2>4 DEF vars, storeVars
    <2> QED
      BY <2>1, <2>2, <2>3, <2>4 DEF Next
  <1> QED
    BY <1>0, <1>1, <1>2, <1>3, TransactRevives

\* What the history of an event says stays true: the late write of a cancelled
\* task never turns a settled event back, and only the refresh of a head
\* without its review starts again.
THEOREM SettledEventsStay == Spec => SettledStays
  <1>1. Inv /\ [Next]_vars =>
          [\A d \in Deliveries :
             state[d] \in Terminal /\ state'[d] # state[d] =>
                /\ state'[d] = "queued"
                /\ attempts'[d] = 0
                /\ \E p \in PullRequests, s \in Shas :
                      d = RefreshId[<<p, s>>] /\ <<p, s>> \notin reviews]_vars
    BY SettledStep
  <1> QED
    BY <1>1, InvHolds, PTL DEF Spec, SettledStays
=============================================================================
