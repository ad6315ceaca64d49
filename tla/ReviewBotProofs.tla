-------------------------- MODULE ReviewBotProofs --------------------------
(***************************************************************************)
(* Theorems about ReviewBot, for every number of deliveries, pull          *)
(* requests, commits and slots, and every bound.                           *)
(*                                                                         *)
(* The inductive invariant is built in layers, each preserved under the    *)
(* ones before it:                                                         *)
(*                                                                         *)
(*   Typed      the types, and that a task past its claim has an event and *)
(*              past its first look at GitHub a head;                      *)
(*   Claims     what makes the claim a lock;                               *)
(*   Published  what each place in a task knows about the comments;        *)
(*   Budgeted   how the attempts of an event relate to its state.          *)
(***************************************************************************)
EXTENDS ReviewBot, TLAPS

\* The places of a task that has seen a head.
Seeing == {"lookup", "comments", "model", "recheck", "post", "posted",
           "outputs", "adopt", "supersede", "complete"}

\* The transactions that use the head.
NeedsHead == {"adopt", "supersede", "complete"}

TasksTyped ==
    /\ \A w \in Slots : pc[w] # "idle" => job[w] \in Deliveries
    /\ \A w \in Slots : pc[w] \in Seeing => sha[w] \in Shas
    /\ \A o \in orphans : o.op \in NeedsHead => o.sha \in Shas

Typed == TypeOK /\ TasksTyped

\* One running row per pull request, one task per running row, and no task
\* left to race with the store calls that outlive a cancelled one.
RunningIsUnique ==
    \A d, e \in Deliveries :
        state[d] = "running" /\ state[e] = "running" /\ PrOf[d] = PrOf[e] => d = e

JobsDiffer ==
    \A v, w \in Slots :
        pc[v] \in Holding /\ pc[w] \in Holding /\ job[v] = job[w] => v = w

QuietAfterCancel ==
    /\ loop \in {"cancelled", "stopped", "down"} =>
            \A w \in Slots : pc[w] \in {"idle", "cancelled"}
    /\ loop \in {"stopped", "down"} => AllIdle
    /\ (\E w \in Slots : pc[w] = "cancelled") => loop = "cancelled"
    /\ orphans # {} => loop \in {"cancelled", "stopped"}

Claims == RunningIsUnique /\ ClaimIsKept /\ JobsDiffer /\ QuietAfterCancel

\* What a task knows about the comments and checks of its head.
TaskKnows(w) ==
    /\ pc[w] \in {"model", "recheck", "post"} => comments[HeadOf(w)] = 0
    /\ pc[w] \in {"posted", "outputs"} => comments[HeadOf(w)] = 1 /\ checks[HeadOf(w)] = 0
    /\ pc[w] \in {"adopt", "complete"} => comments[HeadOf(w)] > 0

OrphansRecordComments ==
    \A o \in orphans :
        o.op \in {"adopt", "complete"} => comments[<<PrOf[o.event], o.sha>>] > 0

Published ==
    /\ ReviewedOnce
    /\ ReviewIsPublished
    /\ \A w \in Slots : TaskKnows(w)
    /\ OrphansRecordComments

\* The restarts, with the one that is under way.
Lives == IF loop \in {"cancelled", "stopped"} THEN restarts + 1 ELSE restarts

Budgeted ==
    /\ AttemptsBounded
    /\ \A d \in Deliveries : state[d] = "absent" => attempts[d] = 0
    /\ \A d \in Deliveries : state[d] = "queued" => attempts[d] <= MaxRetries + Lives
    /\ loop = "down" => \A d \in Deliveries :
            state[d] = "running" => attempts[d] <= MaxRetries + restarts
    /\ \A w \in Slots : pc[w] = "retry" => attempts[job[w]] <= MaxRetries

-----------------------------------------------------------------------------
(* What the transactions of the store do.                                  *)

\* Enqueue adds a queued row or nothing.
LEMMA EnqueueEffect ==
    ASSUME StoreTypeOK, NEW d \in Deliveries, Enqueue(d)
    PROVE  /\ StoreTypeOK'
           /\ \A e \in Deliveries : state'[e] = "running" <=> state[e] = "running"
           /\ \A e \in Deliveries :
                 state'[e] = "queued" <=> (state[e] = "queued" \/ state'[e] # state[e])
           /\ \A e \in Deliveries : state'[e] # state[e] => e = d /\ state[e] = "absent"
           /\ UNCHANGED <<attempts, reviews>>
  BY DEF Enqueue, StoreTypeOK, EventStates, Terminal, storeVars

\* A transaction that ends a claim stops d from running and no other row, and
\* records no review but the one of d, when it is meant to.
LEMMA TransactEffect ==
    ASSUME StoreTypeOK,
           NEW op \in Settling \union GivingUp, NEW d \in Deliveries,
           NEW s \in Shas \union {None}, op \in NeedsHead => s \in Shas,
           Transact(op, d, s)
    PROVE  /\ StoreTypeOK'
           /\ state'[d] # "running"
           /\ \A e \in Deliveries : state'[e] = "running" => state[e] = "running"
           /\ \A e \in Deliveries :
                 e # d /\ state[e] = "running" => state'[e] = "running"
           /\ \A e \in Deliveries : attempts'[e] = attempts[e] \/ attempts'[e] = 0
           /\ \A e \in Deliveries :
                 state'[e] = "queued" =>
                    \/ state[e] = "queued"
                    \/ attempts'[e] = 0
                    \/ e = d /\ op = "retry"
           /\ reviews' = IF op \in {"adopt", "complete"}
                         THEN reviews \union {<<PrOf[d], s>>}
                         ELSE reviews
  <1>1. CASE op = "skip"
    BY <1>1 DEF Transact, SetEventState, StoreTypeOK, EventStates, Terminal
  <1>2. CASE op = "fail"
    BY <1>2 DEF Transact, SetEventState, StoreTypeOK, EventStates, Terminal
  <1>3. CASE op = "retry"
    BY <1>3 DEF Transact, MarkRetry, StoreTypeOK, EventStates, Terminal
  <1>4. CASE op \in {"adopt", "complete"}
    <2>1. s \in Shas /\ PrOf[d] \in PullRequests
      BY <1>4, StoreAssumption DEF NeedsHead
    <2> QED
      BY <1>4, <2>1 DEF Transact, CompleteReview, StoreTypeOK, EventStates, Terminal
  <1>5. CASE op = "supersede"
    <2>1. s \in Shas
      BY <1>5 DEF NeedsHead
    <2> DEFINE r == RefreshId[<<PrOf[d], s>>]
               superseded == [state EXCEPT ![d] = "superseded"]
    <2>2. r \in Deliveries
      BY <2>1, StoreAssumption
    <2>3. /\ superseded \in [Deliveries -> EventStates]
          /\ superseded[d] = "superseded"
          /\ \A e \in Deliveries : e # d => superseded[e] = state[e]
      BY DEF StoreTypeOK, EventStates, Terminal
    <2>4. /\ \/ state' = superseded /\ UNCHANGED <<attempts, due>>
             \/ /\ superseded[r] \notin {"queued", "running"}
                /\ state' = [superseded EXCEPT ![r] = "queued"]
                /\ attempts' = [attempts EXCEPT ![r] = 0]
                /\ due' = [due EXCEPT ![r] = TRUE]
          /\ UNCHANGED reviews
      BY <1>5 DEF Transact, SupersedeAndEnqueue
    <2> HIDE DEF r, superseded
    <2>5. CASE state' = superseded /\ UNCHANGED <<attempts, due>>
      BY <1>5, <2>3, <2>4, <2>5 DEF StoreTypeOK, EventStates, Terminal
    <2>6. CASE /\ superseded[r] \notin {"queued", "running"}
               /\ state' = [superseded EXCEPT ![r] = "queued"]
               /\ attempts' = [attempts EXCEPT ![r] = 0]
               /\ due' = [due EXCEPT ![r] = TRUE]
      <3>1. StoreTypeOK'
        BY <2>2, <2>3, <2>4, <2>6 DEF StoreTypeOK, EventStates, Terminal
      <3>2. \A e \in Deliveries :
               /\ state'[e] = IF e = r THEN "queued" ELSE superseded[e]
               /\ attempts'[e] = IF e = r THEN 0 ELSE attempts[e]
        BY <2>2, <2>3, <2>6 DEF StoreTypeOK
      <3> QED
        BY <1>5, <2>2, <2>3, <2>4, <2>6, <3>1, <3>2
    <2> QED
      BY <2>4, <2>5, <2>6
  <1> QED
    BY <1>1, <1>2, <1>3, <1>4, <1>5 DEF Settling, GivingUp

\* No transaction of a worker deletes a row.
LEMMA TransactKeepsRows ==
    ASSUME StoreTypeOK,
           NEW op \in Settling \union GivingUp, NEW d \in Deliveries,
           NEW s \in Shas \union {None}, op \in NeedsHead => s \in Shas,
           Transact(op, d, s)
    PROVE  \A e \in Deliveries : state'[e] = "absent" => state[e] = "absent"
  <1>1. CASE op \in {"skip", "fail", "retry", "adopt", "complete"}
    BY <1>1
    DEF Transact, SetEventState, MarkRetry, CompleteReview, StoreTypeOK, EventStates, Terminal
  <1>2. CASE op = "supersede"
    <2>1. RefreshId[<<PrOf[d], s>>] \in Deliveries
      BY <1>2, StoreAssumption DEF NeedsHead
    <2> QED
      BY <1>2, <2>1 DEF Transact, SupersedeAndEnqueue, StoreTypeOK, EventStates, Terminal
  <1> QED
    BY <1>1, <1>2 DEF Settling, GivingUp

\* requeue_if_running puts d back if it still runs.
LEMMA RequeueEffect ==
    ASSUME StoreTypeOK, NEW d \in Deliveries, RequeueIfRunning(d)
    PROVE  /\ StoreTypeOK'
           /\ \A e \in Deliveries : state'[e] = "running" => state[e] = "running"
           /\ \A e \in Deliveries :
                 e # d /\ state[e] = "running" => state'[e] = "running"
           /\ UNCHANGED <<attempts, reviews>>
  BY DEF RequeueIfRunning, StoreTypeOK, EventStates, Terminal, storeVars

-----------------------------------------------------------------------------
(* Types.                                                                  *)

LEMMA TypedInit == Init => Typed
  <1> SUFFICES ASSUME Init PROVE Typed
    OBVIOUS
  <1>1. StoreTypeOK
    BY DEF Init, StoreInit, StoreTypeOK, EventStates
  <1>2. TypeOK
    BY <1>1 DEF Init, TypeOK
  <1>3. TasksTyped
    BY DEF Init, TasksTyped, Seeing
  <1> QED
    BY <1>2, <1>3 DEF Typed

\* The steps of GitHub, the routes and the clock leave the tasks alone.
LEMMA TypedEnvironment ==
    ASSUME Typed, Environment
    PROVE  Typed'
  <1> USE DEF Typed
  <1>1. ASSUME NEW p \in PullRequests, NEW s \in Shas, Push(p, s)
        PROVE  Typed'
    BY <1>1 DEF Push, TypeOK, StoreTypeOK, storeVars, taskVars, poolVars, TasksTyped
  <1>2. ASSUME NEW p \in PullRequests, NEW st \in {"open", "draft", "closed"},
               SetStatus(p, st)
        PROVE  Typed'
    BY <1>2 DEF SetStatus, TypeOK, StoreTypeOK, storeVars, taskVars, poolVars, TasksTyped
  <1>3. ASSUME NEW d \in Deliveries, Webhook(d)
        PROVE  Typed'
    <2>1. StoreTypeOK'
      BY <1>3, EnqueueEffect DEF Webhook, TypeOK
    <2> QED
      BY <1>3, <2>1 DEF Webhook, TypeOK, githubVars, taskVars, poolVars, boundVars, TasksTyped
  <1>4. ASSUME NEW d \in Deliveries, ReplayCheck(d) \/ ManualCheck(d)
        PROVE  Typed'
    BY <1>4 DEF ReplayCheck, ManualCheck, TypeOK, StoreTypeOK, storeVars, githubVars,
                taskVars, poolVars, boundVars, TasksTyped
  <1>5. ASSUME NEW d \in Deliveries, AdminEnqueue(d)
        PROVE  Typed'
    <2>1. StoreTypeOK'
      BY <1>5, EnqueueEffect DEF AdminEnqueue, TypeOK
    <2> QED
      BY <1>5, <2>1 DEF AdminEnqueue, TypeOK, githubVars, taskVars, poolVars, boundVars,
                        TasksTyped
  <1>6. ASSUME NEW d \in Deliveries, ClockTick(d)
        PROVE  Typed'
    BY <1>6 DEF ClockTick, BecomeDue, TypeOK, StoreTypeOK, githubVars, taskVars, poolVars,
                boundVars, TasksTyped
  <1> QED
    BY <1>1, <1>2, <1>3, <1>4, <1>5, <1>6 DEF Environment

\* The transaction a task or an orphan runs has the head it needs.
LEMMA TaskTransacts ==
    ASSUME Typed, NEW w \in Slots, pc[w] \in Settling \union GivingUp
    PROVE  /\ job[w] \in Deliveries
           /\ sha[w] \in Shas \union {None}
           /\ pc[w] \in NeedsHead => sha[w] \in Shas
  BY DEF Typed, TypeOK, TasksTyped, Settling, GivingUp, NeedsHead, Seeing

LEMMA TypedTask ==
    ASSUME Typed, NEW w \in Slots, TaskStep(w) \/ \E d \in Deliveries : Claim(w, d)
    PROVE  Typed'
  <1> USE DEF Typed
  <1> DEFINE Labels == Busy \union {"idle", "cancelled"}
  <1>1. CASE Start(w) \/ LookUp(w) \/ ListComments(w) \/ AskModel(w) \/ Recheck(w)
             \/ PostAnswered(w)
    <2>1. /\ job[w] \in Deliveries
          /\ \E l \in {"skip", "lookup", "comments", "adopt", "model", "recheck",
                      "supersede", "post", "outputs"} : pc' = [pc EXCEPT ![w] = l]
      BY <1>1 DEF Start, LookUp, ListComments, AskModel, Recheck, PostAnswered, GoTo,
                  TasksTyped
    <2>2. /\ sha' \in [Slots -> Shas \union {None}]
          /\ \A v \in Slots : v # w => sha'[v] = sha[v]
          /\ pc'[w] \in Seeing => sha'[w] \in Shas
      <3>1. /\ head \in [PullRequests -> Shas]
            /\ Pull(w) \in PullRequests
            /\ sha \in [Slots -> Shas \union {None}]
            /\ pc \in [Slots -> Labels]
        BY <2>1, StoreAssumption DEF Pull, TypeOK
      <3> QED
        BY <1>1, <3>1 DEF Start, LookUp, ListComments, AskModel, Recheck, PostAnswered,
                          GoTo, Seeing, TasksTyped
    <2>3. OnlyTasks
      BY <1>1 DEF Start, LookUp, ListComments, AskModel, Recheck, PostAnswered
    <2> QED
      BY ZenonT(60), <2>1, <2>2, <2>3
      DEF OnlyTasks, TypeOK, StoreTypeOK, storeVars, githubVars, poolVars, boundVars,
          TasksTyped, Busy, Holding, Settling, Calling
  <1>2. CASE PostComment(w) \/ PublishOutputs(w)
    <2>1. /\ HeadOf(w) \in PullRequests \X Shas
          /\ \E l \in {"posted", "complete"} : pc' = [pc EXCEPT ![w] = l]
      BY <1>2, StoreAssumption
      DEF PostComment, PublishOutputs, GoTo, HeadOf, Pull, TasksTyped, Seeing
    <2>2. /\ comments' \in [PullRequests \X Shas -> Nat]
          /\ checks' \in [PullRequests \X Shas -> Nat]
      BY <1>2, <2>1 DEF PostComment, PublishOutputs, TypeOK
    <2> QED
      BY <1>2, <2>1, <2>2
      DEF PostComment, PublishOutputs, TypeOK, StoreTypeOK, storeVars, poolVars,
          boundVars, TasksTyped, Busy, Holding, Settling, Calling, Seeing
  <1>3. CASE Settle(w)
    <2>1. StoreTypeOK'
      BY <1>3, TaskTransacts, TransactEffect DEF Settle, TypeOK
    <2> QED
      BY <1>3, <2>1
      DEF Settle, GoTo, TypeOK, githubVars, poolVars, boundVars, TasksTyped, Busy,
          Seeing, Settling
  <1>4. CASE Report(w)
    BY <1>4
    DEF Report, Leave, GoTo, TypeOK, StoreTypeOK, storeVars, githubVars, poolVars,
        boundVars, TasksTyped, Seeing
  <1>5. CASE CallFails(w)
    BY <1>5
    DEF CallFails, Raise, GoTo, OnlyTasks, TypeOK, StoreTypeOK, storeVars, githubVars,
        poolVars, boundVars, TasksTyped, Seeing, Calling, Busy, Holding, GivingUp
  <1>6. CASE GiveUp(w)
    <2>1. StoreTypeOK'
      BY <1>6, TaskTransacts, TransactEffect DEF GiveUp, TypeOK
    <2> QED
      BY <1>6, <2>1
      DEF GiveUp, Leave, GoTo, TypeOK, githubVars, poolVars, boundVars, TasksTyped, Seeing
  <1>7. CASE RequeueCancelled(w)
    <2>1. StoreTypeOK'
      BY <1>7, RequeueEffect DEF RequeueCancelled, TypeOK, TasksTyped
    <2> QED
      BY <1>7, <2>1
      DEF RequeueCancelled, Leave, GoTo, TypeOK, githubVars, poolVars, boundVars,
          TasksTyped, Seeing
  <1>8. ASSUME NEW d \in Deliveries, Claim(w, d)
        PROVE  Typed'
    BY <1>8
    DEF Claim, ClaimRow, GoTo, TypeOK, StoreTypeOK, EventStates, githubVars, poolVars,
        boundVars, TasksTyped, Seeing, Busy, Holding, Calling
  <1> QED
    BY <1>1, <1>2, <1>3, <1>4, <1>5, <1>6, <1>7, <1>8 DEF TaskStep

LEMMA TypedProcess ==
    ASSUME Typed, Process
    PROVE  Typed'
  <1> USE DEF Typed
  <1>1. CASE Stop \/ Drained \/ Exit
    <2>1. UNCHANGED <<storeVars, githubVars, taskVars, orphans, admin, moves>>
      BY <1>1 DEF Stop, Drained, Exit, boundVars
    <2>2. /\ loop' \in {"up", "drain", "cancelled", "stopped", "down"}
          /\ restarts' \in Nat
      BY <1>1 DEF Stop, Drained, Exit, boundVars, TypeOK
    <2>3. stop' \in BOOLEAN
      BY <1>1, Zenon DEF Stop, Drained, Exit, TypeOK
    <2> QED
      BY <2>1, <2>2, <2>3 DEF TypeOK, StoreTypeOK, storeVars, githubVars, taskVars, TasksTyped
  <1>2. CASE DrainTimeout
    <2> DEFINE inThread == {w \in Slots : pc[w] \in Settling \union GivingUp}
    <2>1. \A w \in inThread :
              LET o == [op |-> pc[w], event |-> job[w], sha |-> sha[w]]
              IN  o \in Orphans /\ (o.op \in NeedsHead => o.sha \in Shas)
      BY TaskTransacts DEF Orphans
    <2>2. \A o \in orphans' : o \in Orphans /\ (o.op \in NeedsHead => o.sha \in Shas)
      BY <1>2, <2>1 DEF DrainTimeout, TypeOK, TasksTyped
    <2> QED
      BY <1>2, <2>2
      DEF DrainTimeout, TypeOK, StoreTypeOK, storeVars, githubVars, boundVars,
          TasksTyped, Seeing, GivingUp
  <1>3. CASE Crash
    <2>1. stop' \in BOOLEAN
      BY <1>3, Zenon DEF Crash
    <2>2. TasksTyped'
      BY <1>3 DEF Crash, TasksTyped, Seeing
    <2>3. /\ UNCHANGED <<storeVars, githubVars, moves>>
          /\ loop' = "down"
          /\ pc' = [w \in Slots |-> "idle"]
          /\ job' = [w \in Slots |-> None]
          /\ sha' = [w \in Slots |-> None]
          /\ orphans' = {}
          /\ admin' = {}
          /\ restarts' = restarts + 1
      BY <1>3 DEF Crash
    <2> QED
      BY <2>1, <2>2, <2>3 DEF TypeOK, StoreTypeOK, storeVars, githubVars
  <1>4. CASE Boot
    BY <1>4
    DEF Boot, Recover, TypeOK, StoreTypeOK, EventStates, githubVars, taskVars, boundVars,
        TasksTyped
  <1>5. ASSUME NEW o \in orphans, OrphanEnds(o)
        PROVE  Typed'
    <2>1. /\ o.op \in Settling \union GivingUp
          /\ o.event \in Deliveries
          /\ o.sha \in Shas \union {None}
          /\ o.op \in NeedsHead => o.sha \in Shas
      BY <1>5 DEF TypeOK, Orphans, TasksTyped
    <2>2. StoreTypeOK'
      <3>1. CASE Transact(o.op, o.event, o.sha)
        BY <2>1, <3>1, TransactEffect DEF TypeOK
      <3>2. CASE UNCHANGED storeVars
        BY <3>2 DEF TypeOK, StoreTypeOK, storeVars
      <3> QED
        BY <1>5, <3>1, <3>2 DEF OrphanEnds
    <2> QED
      BY <1>5, <2>2 DEF OrphanEnds, TypeOK, githubVars, taskVars, boundVars, TasksTyped
  <1> QED
    BY <1>1, <1>2, <1>3, <1>4, <1>5 DEF Process

LEMMA TypedStep == Typed /\ [Next]_vars => Typed'
  <1> SUFFICES ASSUME Typed, [Next]_vars PROVE Typed'
    OBVIOUS
  <1>1. CASE UNCHANGED vars
    BY <1>1
    DEF vars, Typed, TypeOK, StoreTypeOK, storeVars, githubVars, taskVars, poolVars,
        boundVars, TasksTyped
  <1> QED
    BY <1>1, TypedEnvironment, TypedTask, TypedProcess DEF Next, Pool

\* Every variable keeps its type, and every task has the event and the head
\* that the next step of ReviewService.process needs.
THEOREM TypeCorrect == Spec => []TypeOK
  <1>1. Spec => []Typed
    BY TypedInit, TypedStep, PTL DEF Spec
  <1>2. Typed => TypeOK
    BY DEF Typed
  <1> QED
    BY <1>1, <1>2, PTL

-----------------------------------------------------------------------------
(* The claim is a lock.                                                    *)

LEMMA ClaimsInit == Init => Claims
  BY DEF Init, StoreInit, Claims, RunningIsUnique, ClaimIsKept, JobsDiffer,
         QuietAfterCancel, AllIdle, Holding, Settling, GivingUp, Calling

\* Steps that touch neither the running rows nor the tasks.
LEMMA ClaimsFrame ==
    ASSUME Typed, Claims, UNCHANGED <<pc, job, loop, orphans>>,
           \A d \in Deliveries : state'[d] = "running" <=> state[d] = "running"
    PROVE  Claims'
  <1>1. \A w \in Slots : pc[w] \in Holding => job[w] \in Deliveries
    BY DEF Typed, TasksTyped, Holding, Settling, GivingUp, Calling
  <1>2. RunningIsUnique' /\ ClaimIsKept'
    BY <1>1 DEF Claims, RunningIsUnique, ClaimIsKept
  <1> QED
    BY <1>2 DEF Claims, JobsDiffer, QuietAfterCancel, AllIdle

\* Steps of a task that keeps its claim.
LEMMA ClaimsMove ==
    ASSUME Typed, Claims, NEW w \in Slots, pc[w] \in Holding,
           NEW l \in Holding, pc' = [pc EXCEPT ![w] = l],
           UNCHANGED <<state, job, loop, orphans>>
    PROVE  Claims'
  <1>1. /\ \A v \in Slots : v # w => pc'[v] = pc[v]
        /\ pc'[w] = l
    BY DEF Typed, TypeOK
  <1>2. RunningIsUnique' /\ ClaimIsKept' /\ JobsDiffer'
    BY <1>1 DEF Claims, RunningIsUnique, ClaimIsKept, JobsDiffer
  <1>3. /\ loop \notin {"cancelled", "stopped", "down"}
        /\ l # "cancelled"
    BY DEF Claims, QuietAfterCancel, Holding, Settling, GivingUp, Calling
  <1> QED
    BY <1>1, <1>2, <1>3 DEF Claims, QuietAfterCancel

\* Steps of a task that gives its claim up, or ends.
LEMMA ClaimsEnd ==
    ASSUME Typed, Claims, NEW w \in Slots,
           \/ pc[w] \in Holding \union {"cancelled"}
           \/ pc[w] = "report" /\ UNCHANGED state,
           \A e \in Deliveries : state'[e] = "running" => state[e] = "running",
           \A e \in Deliveries :
                e # job[w] /\ state[e] = "running" => state'[e] = "running",
           pc'[w] = "idle" \/ (pc'[w] = "report" /\ pc[w] \in Holding),
           \A v \in Slots : v # w => pc'[v] = pc[v] /\ job'[v] = job[v],
           UNCHANGED <<loop, orphans>>
    PROVE  Claims'
  <1>1. pc'[w] \notin Holding \union {"cancelled"}
    BY DEF Holding, Settling, GivingUp, Calling
  <1>2. \A v \in Slots : v # w /\ pc[v] \in Holding => job[v] # job[w] \/ UNCHANGED state
    <2>1. CASE pc[w] \in Holding
      BY <2>1 DEF Claims, JobsDiffer
    <2>2. CASE pc[w] = "cancelled"
      BY <2>2 DEF Claims, QuietAfterCancel, Holding, Settling, GivingUp, Calling
    <2> QED
      BY <2>1, <2>2
  <1>3. \A v \in Slots : pc[v] \in Holding => job[v] \in Deliveries
    BY DEF Typed, TasksTyped, Holding, Settling, GivingUp, Calling
  <1>4. ClaimIsKept'
    BY <1>1, <1>2, <1>3 DEF Claims, ClaimIsKept
  <1>5. RunningIsUnique' /\ JobsDiffer'
    BY <1>1 DEF Claims, RunningIsUnique, JobsDiffer
  <1>6. QuietAfterCancel'
    <2>1. loop \notin {"stopped", "down"}
      BY DEF Claims, QuietAfterCancel, AllIdle, Holding, Settling, GivingUp, Calling
    <2>2. pc'[w] = "report" => loop # "cancelled"
      BY DEF Claims, QuietAfterCancel, Holding, Settling, GivingUp, Calling
    <2> QED
      BY <1>1, <2>1, <2>2 DEF Claims, QuietAfterCancel
  <1> QED
    BY <1>4, <1>5, <1>6 DEF Claims

LEMMA ClaimsTask ==
    ASSUME Typed, Claims, NEW w \in Slots, TaskStep(w)
    PROVE  Claims'
  <1>0. /\ StoreTypeOK
        /\ pc \in [Slots -> Busy \union {"idle", "cancelled"}]
        /\ job \in [Slots -> Deliveries \union {None}]
    BY DEF Typed, TypeOK
  <1>1. CASE \/ Start(w) \/ LookUp(w) \/ ListComments(w) \/ AskModel(w) \/ Recheck(w)
             \/ PostComment(w) \/ PostAnswered(w) \/ PublishOutputs(w) \/ CallFails(w)
    <2>1. pc[w] \in Holding /\ \E l \in Holding : pc' = [pc EXCEPT ![w] = l]
      BY <1>1
      DEF Start, LookUp, ListComments, AskModel, Recheck, PostComment, PostAnswered,
          PublishOutputs, CallFails, Raise, GoTo, Holding, Settling, GivingUp, Calling
    <2>2. UNCHANGED <<state, job, loop, orphans>>
      BY <1>1
      DEF Start, LookUp, ListComments, AskModel, Recheck, PostComment, PostAnswered,
          PublishOutputs, CallFails, OnlyTasks, storeVars, poolVars
    <2> QED
      BY <2>1, <2>2, ClaimsMove
  <1>2. CASE Settle(w)
    <2>1. /\ \A e \in Deliveries : state'[e] = "running" => state[e] = "running"
          /\ \A e \in Deliveries :
                e # job[w] /\ state[e] = "running" => state'[e] = "running"
      BY <1>0, <1>2, TaskTransacts, TransactEffect DEF Settle
    <2> QED
      BY <1>0, <1>2, <2>1, ClaimsEnd DEF Settle, GoTo, poolVars, Holding
  <1>3. CASE GiveUp(w)
    <2>1. /\ \A e \in Deliveries : state'[e] = "running" => state[e] = "running"
          /\ \A e \in Deliveries :
                e # job[w] /\ state[e] = "running" => state'[e] = "running"
      BY <1>0, <1>3, TaskTransacts, TransactEffect DEF GiveUp
    <2> QED
      BY <1>0, <1>3, <2>1, ClaimsEnd DEF GiveUp, Leave, GoTo, poolVars, Holding
  <1>4. CASE RequeueCancelled(w)
    <2>1. job[w] \in Deliveries
      BY <1>4 DEF RequeueCancelled, Typed, TasksTyped
    <2>2. /\ \A e \in Deliveries : state'[e] = "running" => state[e] = "running"
          /\ \A e \in Deliveries :
                e # job[w] /\ state[e] = "running" => state'[e] = "running"
      BY <1>0, <1>4, <2>1, RequeueEffect DEF RequeueCancelled
    <2> QED
      BY <1>0, <1>4, <2>2, ClaimsEnd DEF RequeueCancelled, Leave, GoTo, poolVars
  <1>5. CASE Report(w)
    BY <1>0, <1>5, ClaimsEnd DEF Report, Leave, GoTo, storeVars, poolVars
  <1> QED
    BY <1>1, <1>2, <1>3, <1>4, <1>5 DEF TaskStep

\* A claim adds a running row for a pull request that has none.
LEMMA ClaimsClaim ==
    ASSUME Typed, Claims, NEW w \in Slots, NEW d \in Deliveries, Claim(w, d)
    PROVE  Claims'
  <1>1. /\ loop = "up" /\ UNCHANGED <<loop, orphans>>
        /\ \A v \in Slots : v # w => pc'[v] = pc[v] /\ job'[v] = job[v]
        /\ pc'[w] = "start" /\ job'[w] = d
        /\ state'[d] = "running"
        /\ \A e \in Deliveries : e # d => state'[e] = state[e]
        /\ \A e \in Deliveries : state[e] = "running" => PrOf[e] # PrOf[d] /\ e # d
    BY DEF Claim, ClaimRow, Claimable, GoTo, poolVars, Typed, TypeOK, StoreTypeOK
  <1>2. \A v \in Slots : pc[v] \in Holding => job[v] \in Deliveries /\ job[v] # d
    <2>1. \A v \in Slots :
            pc[v] \in Holding => job[v] \in Deliveries /\ state[job[v]] = "running"
      BY DEF Typed, TasksTyped, Claims, ClaimIsKept, Holding, Settling, GivingUp, Calling
    <2> QED
      BY <1>1, <2>1
  <1>3. RunningIsUnique'
    BY <1>1 DEF Claims, RunningIsUnique
  <1>4. ClaimIsKept'
    BY <1>1, <1>2 DEF Claims, ClaimIsKept
  <1>5. JobsDiffer'
    BY <1>1, <1>2 DEF Claims, JobsDiffer
  <1>6. QuietAfterCancel'
    BY <1>1 DEF Claims, QuietAfterCancel
  <1> QED
    BY <1>3, <1>4, <1>5, <1>6 DEF Claims

LEMMA ClaimsProcess ==
    ASSUME Typed, Claims, Process
    PROVE  Claims'
  <1> USE DEF Claims
  <1>1. CASE Stop \/ Drained \/ Exit
    <2>1. UNCHANGED <<state, pc, job, orphans>>
      BY <1>1 DEF Stop, Drained, Exit, storeVars, taskVars, poolVars
    <2>2. \/ loop' = loop
          \/ loop = "up" /\ loop' = "drain"
          \/ AllIdle /\ loop' = "stopped" /\ loop \in {"drain", "cancelled"}
          \/ loop = "stopped" /\ loop' = "down" /\ orphans = {}
      BY <1>1 DEF Stop, Drained, Exit
    <2>3. QuietAfterCancel'
      BY <2>1, <2>2 DEF QuietAfterCancel, AllIdle
    <2> QED
      BY <2>1, <2>3 DEF RunningIsUnique, ClaimIsKept, JobsDiffer
  <1>2. CASE DrainTimeout
    <2>1. /\ loop' = "cancelled" /\ UNCHANGED state
          /\ \A w \in Slots : pc'[w] \in {"idle", "cancelled"}
      BY <1>2 DEF DrainTimeout, storeVars
    <2> QED
      BY <2>1 DEF RunningIsUnique, ClaimIsKept, JobsDiffer, QuietAfterCancel, Holding,
                  Settling, GivingUp, Calling
  <1>3. CASE Crash
    <2>1. /\ loop' = "down" /\ UNCHANGED state /\ orphans' = {}
          /\ \A w \in Slots : pc'[w] = "idle"
      BY <1>3 DEF Crash, storeVars
    <2> QED
      BY <2>1 DEF RunningIsUnique, ClaimIsKept, JobsDiffer, QuietAfterCancel, AllIdle,
                  Holding, Settling, GivingUp, Calling
  <1>4. CASE Boot
    <2>1. /\ loop' = "up" /\ UNCHANGED <<pc, orphans>> /\ loop = "down"
          /\ \A d \in Deliveries : state'[d] # "running"
      BY <1>4 DEF Boot, Recover, taskVars
    <2> QED
      BY <2>1 DEF RunningIsUnique, ClaimIsKept, JobsDiffer, QuietAfterCancel, AllIdle,
                  Holding, Settling, GivingUp, Calling
  <1>5. ASSUME NEW o \in orphans, OrphanEnds(o)
        PROVE  Claims'
    <2>1. /\ o.op \in Settling \union GivingUp
          /\ o.event \in Deliveries
          /\ o.sha \in Shas \union {None}
          /\ o.op \in NeedsHead => o.sha \in Shas
          /\ StoreTypeOK
      BY DEF Typed, TypeOK, Orphans, TasksTyped
    <2>2. \A e \in Deliveries : state'[e] = "running" => state[e] = "running"
      BY <1>5, <2>1, TransactEffect DEF OrphanEnds, storeVars
    <2>3. /\ UNCHANGED <<pc, job, loop>>
          /\ orphans' \subseteq orphans
      BY <1>5 DEF OrphanEnds, taskVars
    <2>4. \A w \in Slots : pc[w] \notin Holding
      BY <1>5 DEF QuietAfterCancel, AllIdle, Holding, Settling, GivingUp, Calling
    <2>5. RunningIsUnique' /\ ClaimIsKept' /\ JobsDiffer'
      BY <2>2, <2>3, <2>4 DEF RunningIsUnique, ClaimIsKept, JobsDiffer
    <2> QED
      BY <2>3, <2>5 DEF QuietAfterCancel, AllIdle
  <1> QED
    BY <1>1, <1>2, <1>3, <1>4, <1>5 DEF Process

LEMMA ClaimsStep == Typed /\ Claims /\ [Next]_vars => Claims'
  <1> SUFFICES ASSUME Typed, Claims, [Next]_vars PROVE Claims'
    OBVIOUS
  <1>1. CASE Environment
    <2>1. UNCHANGED <<pc, job, loop, orphans>>
      BY <1>1
      DEF Environment, Push, SetStatus, Webhook, ReplayCheck, ManualCheck, AdminEnqueue,
          ClockTick, taskVars, poolVars
    <2>2. \A d \in Deliveries : state'[d] = "running" <=> state[d] = "running"
      BY <1>1, EnqueueEffect
      DEF Environment, Push, SetStatus, Webhook, ReplayCheck, ManualCheck, AdminEnqueue,
          ClockTick, BecomeDue, storeVars, Typed, TypeOK
    <2> QED
      BY <2>1, <2>2, ClaimsFrame
  <1>2. CASE UNCHANGED vars
    BY <1>2, ClaimsFrame DEF vars, storeVars, taskVars, poolVars
  <1> QED
    BY <1>1, <1>2, ClaimsTask, ClaimsClaim, ClaimsProcess DEF Next, Pool

LEMMA ClaimsHold == Spec => [](Typed /\ Claims)
  BY TypedInit, TypedStep, ClaimsInit, ClaimsStep, PTL DEF Spec

\* Two tasks never work on one pull request at a time.
THEOREM ClaimIsALock == Spec => []OneWorkerPerPull
  <1>1. Typed /\ Claims => OneWorkerPerPull
    <2> SUFFICES ASSUME Typed, Claims PROVE OneWorkerPerPull
      OBVIOUS
    <2>1. \A w \in Slots :
            pc[w] \in Holding => job[w] \in Deliveries /\ state[job[w]] = "running"
      BY DEF Typed, TasksTyped, Claims, ClaimIsKept, Holding, Settling, GivingUp, Calling
    <2> QED
      BY <2>1 DEF Claims, RunningIsUnique, JobsDiffer, OneWorkerPerPull, Pull
  <1> QED
    BY <1>1, ClaimsHold, PTL

\* The event a task works on stays its own until the task gives it up: no
\* store call of another task, late ones included, touches its row.
THEOREM RowStaysClaimed == Spec => []ClaimIsKept
  <1>1. Claims => ClaimIsKept
    BY DEF Claims
  <1> QED
    BY <1>1, ClaimsHold, PTL

-----------------------------------------------------------------------------
(* No claim is left behind.                                                *)

\* The running rows that no task will settle, fail or put back.
Abandoned ==
    {d \in Deliveries :
        /\ state[d] = "running"
        /\ ~\E w \in Slots : pc[w] \in Holding \union {"cancelled"} /\ job[w] = d}

\* Steps that start no row and take no task from the row it works on.
LEMMA AbandonedFrame ==
    ASSUME \A d \in Deliveries : state'[d] = "running" => state[d] = "running",
           \A d \in Deliveries, w \in Slots :
                /\ state'[d] = "running"
                /\ pc[w] \in Holding \union {"cancelled"} /\ job[w] = d
                => pc'[w] \in Holding \union {"cancelled"} /\ job'[w] = d
    PROVE  Abandoned' \subseteq Abandoned
  BY DEF Abandoned

LEMMA AbandonedTask ==
    ASSUME Typed, NEW w \in Slots, TaskStep(w)
    PROVE  Abandoned' \subseteq Abandoned
  <1>0. /\ StoreTypeOK
        /\ pc \in [Slots -> Busy \union {"idle", "cancelled"}]
        /\ job \in [Slots -> Deliveries \union {None}]
    BY DEF Typed, TypeOK
  <1>1. CASE \/ Start(w) \/ LookUp(w) \/ ListComments(w) \/ AskModel(w) \/ Recheck(w)
             \/ PostComment(w) \/ PostAnswered(w) \/ PublishOutputs(w) \/ CallFails(w)
    <2>1. \E l \in Holding : pc' = [pc EXCEPT ![w] = l]
      BY <1>1
      DEF Start, LookUp, ListComments, AskModel, Recheck, PostComment, PostAnswered,
          PublishOutputs, CallFails, Raise, GoTo, Holding, Settling, GivingUp, Calling
    <2>2. UNCHANGED <<state, job>>
      BY <1>1
      DEF Start, LookUp, ListComments, AskModel, Recheck, PostComment, PostAnswered,
          PublishOutputs, CallFails, OnlyTasks, storeVars
    <2> QED
      BY <1>0, <2>1, <2>2, AbandonedFrame
  <1>2. CASE Settle(w) \/ GiveUp(w)
    <2>1. /\ pc[w] \in Settling \union GivingUp
          /\ Transact(pc[w], job[w], sha[w])
          /\ \A v \in Slots : v # w => pc'[v] = pc[v] /\ job'[v] = job[v]
      BY <1>0, <1>2 DEF Settle, GiveUp, Leave, GoTo
    <2>2. /\ state'[job[w]] # "running"
          /\ \A e \in Deliveries : state'[e] = "running" => state[e] = "running"
      BY <1>0, <2>1, TaskTransacts, TransactEffect
    <2> QED
      BY <2>1, <2>2, AbandonedFrame
  <1>3. CASE RequeueCancelled(w)
    <2>1. /\ job[w] \in Deliveries
          /\ \A v \in Slots : v # w => pc'[v] = pc[v] /\ job'[v] = job[v]
      BY <1>0, <1>3 DEF RequeueCancelled, Leave, GoTo, Typed, TasksTyped
    <2>2. /\ state'[job[w]] # "running"
          /\ \A e \in Deliveries : state'[e] = "running" => state[e] = "running"
      BY <1>0, <1>3, <2>1
      DEF RequeueCancelled, RequeueIfRunning, storeVars, StoreTypeOK
    <2> QED
      BY <2>1, <2>2, AbandonedFrame
  <1>4. CASE Report(w)
    <2>1. /\ pc[w] \notin Holding \union {"cancelled"} /\ UNCHANGED state
          /\ \A v \in Slots : v # w => pc'[v] = pc[v] /\ job'[v] = job[v]
      BY <1>0, <1>4
      DEF Report, Leave, GoTo, storeVars, Holding, Settling, GivingUp, Calling
    <2> QED
      BY <2>1, AbandonedFrame
  <1> QED
    BY <1>1, <1>2, <1>3, <1>4 DEF TaskStep

\* While the tasks run, no step leaves a claim without its task; the start of
\* the process frees whatever claim a crash has left.
LEMMA AbandonedStep ==
    ASSUME Typed, [Next]_vars, loop' \in {"up", "drain"}
    PROVE  \/ loop \in {"up", "drain"} /\ Abandoned' \subseteq Abandoned
           \/ Abandoned' = {}
  <1>0. StoreTypeOK /\ pc \in [Slots -> Busy \union {"idle", "cancelled"}]
        /\ job \in [Slots -> Deliveries \union {None}]
    BY DEF Typed, TypeOK
  <1>1. CASE Environment \/ UNCHANGED vars
    <2>1. UNCHANGED <<pc, job, loop>>
      BY <1>1
      DEF Environment, Push, SetStatus, Webhook, ReplayCheck, ManualCheck, AdminEnqueue,
          ClockTick, taskVars, poolVars, vars
    <2>2. \A d \in Deliveries : state'[d] = "running" => state[d] = "running"
      BY <1>0, <1>1, EnqueueEffect
      DEF Environment, Push, SetStatus, Webhook, ReplayCheck, ManualCheck, AdminEnqueue,
          ClockTick, BecomeDue, storeVars, vars
    <2> QED
      BY <2>1, <2>2, AbandonedFrame
  <1>2. ASSUME NEW w \in Slots, TaskStep(w)
        PROVE  loop' = loop /\ Abandoned' \subseteq Abandoned
    <2>1. loop' = loop
      BY <1>2
      DEF TaskStep, Start, LookUp, ListComments, AskModel, Recheck, PostComment,
          PostAnswered, PublishOutputs, Settle, Report, CallFails, GiveUp,
          RequeueCancelled, OnlyTasks, poolVars
    <2> QED
      BY <1>2, <2>1, AbandonedTask
  <1>3. ASSUME NEW w \in Slots, NEW d \in Deliveries, Claim(w, d)
        PROVE  loop' = loop /\ Abandoned' \subseteq Abandoned
    <2>1. /\ loop' = loop /\ pc[w] = "idle" /\ pc'[w] = "start" /\ job'[w] = d
          /\ \A v \in Slots : v # w => pc'[v] = pc[v] /\ job'[v] = job[v]
          /\ \A e \in Deliveries : e # d => state'[e] = state[e]
      BY <1>0, <1>3 DEF Claim, ClaimRow, GoTo, poolVars, StoreTypeOK
    <2>2. "idle" \notin Holding \union {"cancelled"} /\ "start" \in Holding
      BY DEF Holding, Settling, GivingUp, Calling
    <2> QED
      BY <2>1, <2>2 DEF Abandoned
  <1>4. CASE Process
    <2>1. CASE Stop
      BY <2>1, AbandonedFrame DEF Stop, storeVars, taskVars
    <2>2. CASE DrainTimeout \/ Drained \/ Exit \/ Crash
      BY <2>2 DEF DrainTimeout, Drained, Exit, Crash
    <2>3. CASE Boot
      <3>1. \A d \in Deliveries : state'[d] # "running"
        BY <2>3 DEF Boot, Recover
      <3> QED
        BY <3>1 DEF Abandoned
    <2>4. ASSUME NEW o \in orphans, OrphanEnds(o)
          PROVE  loop' = loop /\ Abandoned' \subseteq Abandoned
      <3>1. /\ o.op \in Settling \union GivingUp
            /\ o.event \in Deliveries
            /\ o.sha \in Shas \union {None}
            /\ o.op \in NeedsHead => o.sha \in Shas
        BY DEF Typed, TypeOK, Orphans, TasksTyped
      <3>2. \A e \in Deliveries : state'[e] = "running" => state[e] = "running"
        BY <1>0, <2>4, <3>1, TransactEffect DEF OrphanEnds, storeVars
      <3> QED
        BY <2>4, <3>2, AbandonedFrame DEF OrphanEnds, taskVars
    <2> QED
      BY <1>4, <2>1, <2>2, <2>3, <2>4 DEF Process
  <1> QED
    BY <1>1, <1>2, <1>3, <1>4 DEF Next, Pool

\* As long as no shutdown cancels the tasks, a running row has a task that
\* works on it: whatever fails or ends, no pull request stays locked.
NoneAbandoned == loop \in {"up", "drain"} => Abandoned = {}

THEOREM NoClaimLeaks == Spec => []NoLeakedClaim
  <1>1. Init => NoneAbandoned
    BY DEF Init, StoreInit, NoneAbandoned, Abandoned
  <1>2. Typed /\ NoneAbandoned /\ [Next]_vars => NoneAbandoned'
    BY AbandonedStep DEF NoneAbandoned
  <1>3. Claims /\ NoneAbandoned => NoLeakedClaim
    BY DEF Claims, QuietAfterCancel, NoneAbandoned, Abandoned, NoLeakedClaim
  <1>4. Spec => []NoneAbandoned
    BY <1>1, <1>2, TypedInit, TypedStep, PTL DEF Spec
  <1> QED
    BY <1>3, <1>4, ClaimsHold, PTL

-----------------------------------------------------------------------------
(* One comment per commit, and no review on record without it.             *)

LEMMA PublishedInit == Init => Published
  BY DEF Init, StoreInit, Published, ReviewedOnce, ReviewIsPublished, TaskKnows,
         OrphansRecordComments

LEMMA HeadTyped ==
    ASSUME Typed, NEW w \in Slots, pc[w] \in Seeing
    PROVE  HeadOf(w) \in PullRequests \X Shas
  <1>1. job[w] \in Deliveries /\ sha[w] \in Shas
    BY DEF Typed, TasksTyped, Seeing
  <1> QED
    BY <1>1, StoreAssumption DEF HeadOf, Pull

\* While w holds its claim, no other task knows anything about the head of w.
LEMMA HeadsDiffer ==
    ASSUME Typed, Claims, NEW v \in Slots, NEW w \in Slots, v # w,
           pc[v] \in Holding, pc[w] \in Holding
    PROVE  HeadOf(v) # HeadOf(w)
  <1>1. /\ job[v] \in Deliveries /\ state[job[v]] = "running"
        /\ job[w] \in Deliveries /\ state[job[w]] = "running"
    BY DEF Typed, TasksTyped, Claims, ClaimIsKept, Holding, Settling, GivingUp, Calling
  <1>2. Pull(v) # Pull(w)
    BY <1>1 DEF Claims, JobsDiffer, RunningIsUnique, Pull
  <1> QED
    BY <1>2 DEF HeadOf

\* Steps that publish nothing and record no review.
LEMMA PublishedFrame ==
    ASSUME Published, UNCHANGED <<comments, checks, reviews>>, orphans' \subseteq orphans,
           \A w \in Slots : TaskKnows(w)'
    PROVE  Published'
  BY DEF Published, ReviewedOnce, ReviewIsPublished, OrphansRecordComments

\* A step of w leaves what the others know, as long as it publishes nothing.
LEMMA OthersKnow ==
    ASSUME Typed, Published, NEW w \in Slots, UNCHANGED <<comments, checks>>,
           \A v \in Slots : v # w => /\ pc'[v] = pc[v]
                                    /\ job'[v] = job[v]
                                    /\ sha'[v] = sha[v],
           TaskKnows(w)'
    PROVE  \A v \in Slots : TaskKnows(v)'
  BY DEF Published, TaskKnows, HeadOf, Pull

LEMMA PublishedTask ==
    ASSUME Typed, Claims, Published, NEW w \in Slots, TaskStep(w)
    PROVE  Published'
  <1>0. /\ pc \in [Slots -> Busy \union {"idle", "cancelled"}]
        /\ job \in [Slots -> Deliveries \union {None}]
        /\ sha \in [Slots -> Shas \union {None}]
        /\ comments \in [PullRequests \X Shas -> Nat]
        /\ checks \in [PullRequests \X Shas -> Nat]
        /\ StoreTypeOK
    BY DEF Typed, TypeOK
  <1>1. CASE Start(w) \/ LookUp(w) \/ CallFails(w)
    <2>1. /\ UNCHANGED <<comments, checks, reviews, orphans, job>>
          /\ \E l \in {"skip", "lookup", "comments", "retry", "fail"} :
                pc' = [pc EXCEPT ![w] = l]
          /\ \A v \in Slots : v # w => sha'[v] = sha[v]
      BY <1>0, <1>1
      DEF Start, LookUp, CallFails, Raise, GoTo, OnlyTasks, storeVars, githubVars, poolVars
    <2>2. TaskKnows(w)'
      BY <1>0, <2>1 DEF TaskKnows
    <2> QED
      BY <1>0, <2>1, <2>2, OthersKnow, PublishedFrame
  <1>2. CASE ListComments(w)
    <2>1. /\ UNCHANGED <<comments, checks, reviews, orphans, job, sha>>
          /\ pc' = [pc EXCEPT ![w] = IF comments[HeadOf(w)] > 0 THEN "adopt" ELSE "model"]
          /\ pc[w] = "comments"
      BY <1>2 DEF ListComments, GoTo, OnlyTasks, storeVars, githubVars, poolVars
    <2>2. comments[HeadOf(w)] \in Nat
      BY <1>0, <2>1, HeadTyped DEF Seeing
    <2>3. TaskKnows(w)'
      BY <1>0, <2>1, <2>2 DEF TaskKnows, HeadOf, Pull
    <2> QED
      BY <1>0, <2>1, <2>3, OthersKnow, PublishedFrame
  <1>3. CASE AskModel(w) \/ PostAnswered(w)
    <2>1. /\ UNCHANGED <<comments, checks, reviews, orphans, job, sha>>
          /\ \/ pc[w] = "model" /\ pc' = [pc EXCEPT ![w] = "recheck"]
             \/ pc[w] = "posted" /\ pc' = [pc EXCEPT ![w] = "outputs"]
      BY <1>3 DEF AskModel, PostAnswered, GoTo, OnlyTasks, storeVars, githubVars, poolVars
    <2>2. TaskKnows(w)'
      BY <1>0, <2>1 DEF Published, TaskKnows, HeadOf, Pull
    <2> QED
      BY <1>0, <2>1, <2>2, OthersKnow, PublishedFrame
  <1>4. CASE Recheck(w)
    <2>1. /\ UNCHANGED <<comments, checks, reviews, orphans, job>>
          /\ pc[w] = "recheck"
          /\ \/ pc' = [pc EXCEPT ![w] = "skip"] /\ sha' = sha
             \/ /\ pc' = [pc EXCEPT ![w] = "supersede"]
                /\ sha' = [sha EXCEPT ![w] = head[Pull(w)]]
             \/ pc' = [pc EXCEPT ![w] = "post"] /\ sha' = sha
      BY <1>4 DEF Recheck, GoTo, OnlyTasks, storeVars, githubVars, poolVars
    <2>2. TaskKnows(w)'
      BY <1>0, <2>1 DEF Published, TaskKnows, HeadOf, Pull
    <2> QED
      BY <1>0, <2>1, <2>2, OthersKnow, PublishedFrame
  <1>5. CASE PostComment(w)
    <2>1. /\ UNCHANGED <<checks, reviews, orphans, job, sha>>
          /\ pc[w] = "post" /\ pc' = [pc EXCEPT ![w] = "posted"]
          /\ comments' = [comments EXCEPT ![HeadOf(w)] = @ + 1]
      BY <1>5 DEF PostComment, GoTo, storeVars, poolVars
    <2>2. /\ HeadOf(w) \in PullRequests \X Shas
          /\ comments[HeadOf(w)] = 0
          /\ checks[HeadOf(w)] \in Nat /\ checks[HeadOf(w)] <= 0
      BY <1>0, <2>1, HeadTyped DEF Seeing, Published, TaskKnows, ReviewedOnce
    <2>3. \A h \in PullRequests \X Shas :
              comments'[h] = IF h = HeadOf(w) THEN 1 ELSE comments[h]
      BY <1>0, <2>1, <2>2
    <2>4. TaskKnows(w)'
      BY <1>0, <2>1, <2>2, <2>3 DEF TaskKnows, HeadOf, Pull
    <2>5. ASSUME NEW v \in Slots, v # w
          PROVE  TaskKnows(v)'
      <3>1. CASE pc[v] \in {"model", "recheck", "post", "posted", "outputs", "adopt", "complete"}
        <4>1. HeadOf(v) # HeadOf(w) /\ HeadOf(v) \in PullRequests \X Shas
          BY <2>1, <2>5, <3>1, HeadsDiffer, HeadTyped DEF Seeing, Holding, Calling, Settling
        <4>2. comments'[HeadOf(v)] = comments[HeadOf(v)] /\ HeadOf(v)' = HeadOf(v)
          BY <2>1, <2>3, <4>1 DEF HeadOf, Pull
        <4> QED
          BY <1>0, <2>1, <2>5, <4>2 DEF Published, TaskKnows
      <3> QED
        BY <1>0, <2>1, <2>5, <3>1 DEF TaskKnows
    <2>6. ReviewedOnce'
      BY <2>1, <2>2, <2>3 DEF Published, ReviewedOnce
    <2>7. ReviewIsPublished'
      BY <1>0, <2>1, <2>3 DEF Published, ReviewIsPublished, StoreTypeOK
    <2>8. OrphansRecordComments'
      <3>1. \A o \in orphans : o.op \in {"adopt", "complete"} =>
                <<PrOf[o.event], o.sha>> \in PullRequests \X Shas
        BY StoreAssumption DEF Typed, TypeOK, TasksTyped, Orphans, NeedsHead
      <3> QED
        BY <2>1, <2>3, <3>1 DEF Published, OrphansRecordComments
    <2> QED
      BY <2>4, <2>5, <2>6, <2>7, <2>8 DEF Published
  <1>6. CASE PublishOutputs(w)
    <2>1. /\ UNCHANGED <<comments, reviews, orphans, job, sha>>
          /\ pc[w] = "outputs" /\ pc' = [pc EXCEPT ![w] = "complete"]
      BY <1>6 DEF PublishOutputs, GoTo, storeVars, poolVars
    <2>2. PICK created \in {0, 1} : checks' = [checks EXCEPT ![HeadOf(w)] = @ + created]
      BY <1>6 DEF PublishOutputs
    <2>3. /\ HeadOf(w) \in PullRequests \X Shas
          /\ comments[HeadOf(w)] = 1 /\ checks[HeadOf(w)] = 0
      BY <2>1, HeadTyped DEF Seeing, Published, TaskKnows
    <2>4. \A h \in PullRequests \X Shas :
              checks'[h] = IF h = HeadOf(w) THEN created ELSE checks[h]
      BY <1>0, <2>2, <2>3
    <2>5. TaskKnows(w)'
      BY <1>0, <2>1, <2>3 DEF TaskKnows, HeadOf, Pull
    <2>6. ASSUME NEW v \in Slots, v # w
          PROVE  TaskKnows(v)'
      <3>1. CASE pc[v] \in {"posted", "outputs"}
        <4>1. HeadOf(v) # HeadOf(w) /\ HeadOf(v) \in PullRequests \X Shas
          BY <2>1, <2>6, <3>1, HeadsDiffer, HeadTyped DEF Seeing, Holding, Calling
        <4>2. checks'[HeadOf(v)] = checks[HeadOf(v)] /\ HeadOf(v)' = HeadOf(v)
          BY <2>1, <2>4, <4>1 DEF HeadOf, Pull
        <4> QED
          BY <1>0, <2>1, <2>6, <4>2 DEF Published, TaskKnows
      <3> QED
        BY <1>0, <2>1, <2>6, <3>1 DEF Published, TaskKnows, HeadOf, Pull
    <2>7. ReviewedOnce'
      BY <2>1, <2>3, <2>4 DEF Published, ReviewedOnce
    <2> QED
      BY <2>1, <2>5, <2>6, <2>7 DEF Published, ReviewIsPublished, OrphansRecordComments
  <1>7. CASE Settle(w)
    <2>1. /\ UNCHANGED <<comments, checks, orphans, job, sha>>
          /\ pc[w] \in Settling /\ pc' = [pc EXCEPT ![w] = "report"]
          /\ Transact(pc[w], job[w], sha[w])
      BY <1>7 DEF Settle, GoTo, githubVars, poolVars
    <2>2. reviews' = IF pc[w] \in {"adopt", "complete"}
                     THEN reviews \union {HeadOf(w)} ELSE reviews
      BY <1>0, <2>1, TaskTransacts, TransactEffect DEF HeadOf, Pull
    <2>3. ReviewIsPublished'
      BY <2>1, <2>2 DEF Published, ReviewIsPublished, TaskKnows
    <2>4. TaskKnows(w)'
      BY <1>0, <2>1 DEF TaskKnows
    <2>5. \A v \in Slots : TaskKnows(v)'
      BY <1>0, <2>1, <2>4, OthersKnow
    <2> QED
      BY <2>1, <2>3, <2>5 DEF Published, ReviewedOnce, OrphansRecordComments
  <1>8. CASE GiveUp(w) \/ Report(w) \/ RequeueCancelled(w)
    <2>1. /\ UNCHANGED <<comments, checks, orphans>>
          /\ pc' = [pc EXCEPT ![w] = "idle"]
          /\ job' = [job EXCEPT ![w] = None]
          /\ sha' = [sha EXCEPT ![w] = None]
      BY <1>8 DEF GiveUp, Report, RequeueCancelled, Leave, GoTo, githubVars, poolVars
    <2>2. UNCHANGED reviews
      <3>1. CASE GiveUp(w)
        <4>1. pc[w] \in GivingUp /\ Transact(pc[w], job[w], sha[w])
          BY <3>1 DEF GiveUp
        <4> QED
          BY <1>0, <4>1, TaskTransacts, TransactEffect DEF GivingUp
      <3>2. CASE Report(w)
        BY <3>2 DEF Report, storeVars
      <3>3. CASE RequeueCancelled(w)
        BY <3>3 DEF RequeueCancelled, RequeueIfRunning, storeVars
      <3> QED
        BY <1>8, <3>1, <3>2, <3>3
    <2>3. TaskKnows(w)'
      BY <1>0, <2>1 DEF TaskKnows
    <2> QED
      BY <1>0, <2>1, <2>2, <2>3, OthersKnow, PublishedFrame
  <1> QED
    BY <1>1, <1>2, <1>3, <1>4, <1>5, <1>6, <1>7, <1>8 DEF TaskStep

LEMMA PublishedProcess ==
    ASSUME Typed, Published, Process
    PROVE  Published'
  <1>1. CASE Stop \/ Drained \/ Exit \/ Boot
    <2>1. UNCHANGED <<comments, checks, reviews, orphans, pc, job, sha>>
      BY <1>1
      DEF Stop, Drained, Exit, Boot, Recover, storeVars, githubVars, taskVars, poolVars
    <2>2. \A w \in Slots : TaskKnows(w)'
      BY <2>1 DEF Published, TaskKnows, HeadOf, Pull
    <2> QED
      BY <2>1, <2>2, PublishedFrame
  <1>2. CASE DrainTimeout
    <2>1. /\ UNCHANGED <<comments, checks, reviews>>
          /\ \A w \in Slots : pc'[w] \in {"idle", "cancelled"}
      BY <1>2 DEF DrainTimeout, storeVars, githubVars
    <2>2. \A w \in Slots : pc[w] \in {"adopt", "complete"} =>
              comments[<<PrOf[job[w]], sha[w]>>] > 0
      BY DEF Published, TaskKnows, HeadOf, Pull
    <2>3. OrphansRecordComments'
      BY <1>2, <2>1, <2>2 DEF DrainTimeout, Published, OrphansRecordComments
    <2>4. \A w \in Slots : TaskKnows(w)'
      BY <2>1 DEF TaskKnows
    <2> QED
      BY <2>1, <2>3, <2>4 DEF Published, ReviewedOnce, ReviewIsPublished
  <1>3. CASE Crash
    <2>1. /\ UNCHANGED <<comments, checks, reviews>> /\ orphans' = {}
          /\ \A w \in Slots : pc'[w] = "idle"
      BY <1>3 DEF Crash, storeVars, githubVars
    <2>2. \A w \in Slots : TaskKnows(w)'
      BY <2>1 DEF TaskKnows
    <2> QED
      BY <2>1, <2>2, PublishedFrame
  <1>4. ASSUME NEW o \in orphans, OrphanEnds(o)
        PROVE  Published'
    <2>1. /\ o.op \in Settling \union GivingUp
          /\ o.event \in Deliveries
          /\ o.sha \in Shas \union {None}
          /\ o.op \in NeedsHead => o.sha \in Shas
          /\ StoreTypeOK
      BY DEF Typed, TypeOK, Orphans, TasksTyped
    <2>2. /\ UNCHANGED <<comments, checks, pc, job, sha>>
          /\ orphans' \subseteq orphans
      BY <1>4 DEF OrphanEnds, githubVars, taskVars
    <2>3. reviews' = reviews \/ (/\ o.op \in {"adopt", "complete"}
                                /\ reviews' = reviews \union {<<PrOf[o.event], o.sha>>})
      BY <1>4, <2>1, TransactEffect DEF OrphanEnds, storeVars
    <2>4. ReviewIsPublished'
      BY <2>2, <2>3 DEF Published, ReviewIsPublished, OrphansRecordComments
    <2>5. \A w \in Slots : TaskKnows(w)'
      BY <2>2 DEF Published, TaskKnows, HeadOf, Pull
    <2> QED
      BY <2>2, <2>4, <2>5 DEF Published, ReviewedOnce, OrphansRecordComments
  <1> QED
    BY <1>1, <1>2, <1>3, <1>4 DEF Process

LEMMA PublishedStep == Typed /\ Claims /\ Published /\ [Next]_vars => Published'
  <1> SUFFICES ASSUME Typed, Claims, Published, [Next]_vars PROVE Published'
    OBVIOUS
  <1>1. CASE Environment \/ UNCHANGED vars
    <2>1. UNCHANGED <<comments, checks, pc, job, sha, orphans>>
      BY <1>1
      DEF Environment, Push, SetStatus, Webhook, ReplayCheck, ManualCheck, AdminEnqueue,
          ClockTick, taskVars, poolVars, githubVars, vars
    <2>2. UNCHANGED reviews
      BY <1>1
      DEF Environment, Push, SetStatus, Webhook, ReplayCheck, ManualCheck, AdminEnqueue,
          ClockTick, Enqueue, BecomeDue, storeVars, vars
    <2>3. \A w \in Slots : TaskKnows(w)'
      BY <2>1 DEF Published, TaskKnows, HeadOf, Pull
    <2> QED
      BY <2>1, <2>2, <2>3, PublishedFrame
  <1>2. ASSUME NEW w \in Slots, NEW d \in Deliveries, Claim(w, d)
        PROVE  Published'
    <2>1. /\ UNCHANGED <<comments, checks, reviews, orphans, sha>>
          /\ pc'[w] = "start"
          /\ \A v \in Slots : v # w => pc'[v] = pc[v] /\ job'[v] = job[v]
      BY <1>2 DEF Claim, ClaimRow, GoTo, githubVars, poolVars, Typed, TypeOK
    <2>2. TaskKnows(w)'
      BY <2>1 DEF TaskKnows
    <2> QED
      BY <2>1, <2>2, OthersKnow, PublishedFrame
  <1> QED
    BY <1>1, <1>2, PublishedTask, PublishedProcess DEF Next, Pool

LEMMA PublishedHolds == Spec => []Published
  BY TypedInit, TypedStep, ClaimsInit, ClaimsStep, PublishedInit, PublishedStep, PTL
  DEF Spec

\* A commit is commented on once and gets one check run at most: over retries,
\* lost answers, crashes, restarts, cancelled tasks and repeated requests.
THEOREM CommentedOnce == Spec => []ReviewedOnce
  <1>1. Published => ReviewedOnce
    BY DEF Published
  <1> QED
    BY <1>1, PublishedHolds, PTL

\* What is on record as reviewed has its comment, so the review that has_review
\* makes the service skip exists.
THEOREM RecordedIsPublished == Spec => []ReviewIsPublished
  <1>1. Published => ReviewIsPublished
    BY DEF Published
  <1> QED
    BY <1>1, PublishedHolds, PTL

-----------------------------------------------------------------------------
(* The retry budget.                                                       *)

LEMMA BudgetedInit == Init => Budgeted
  BY BotAssumption
  DEF Init, StoreInit, Budgeted, AttemptsBounded, Lives

\* Steps that add no attempt, queue only what is within the budget, and bring
\* no task to the decision to retry.
LEMMA BudgetedFrame ==
    ASSUME Typed, Typed', Budgeted, UNCHANGED <<loop, restarts>>,
           \A d \in Deliveries : attempts'[d] = attempts[d] \/ attempts'[d] = 0,
           \A d \in Deliveries : state'[d] = "absent" => state[d] = "absent",
           \A d \in Deliveries : state'[d] = "running" => state[d] = "running",
           \A d \in Deliveries : state'[d] = "queued" =>
                \/ state[d] \in {"queued", "absent"}
                \/ attempts'[d] <= MaxRetries + Lives,
           \A w \in Slots : pc'[w] = "retry" =>
                \/ pc[w] = "retry" /\ job'[w] = job[w]
                \/ attempts'[job'[w]] <= MaxRetries
    PROVE  Budgeted'
  <1>1. /\ attempts \in [Deliveries -> Nat] /\ attempts' \in [Deliveries -> Nat]
        /\ restarts \in Nat /\ MaxRetries \in Nat /\ Lives \in Nat /\ Lives' = Lives
    BY BotAssumption DEF Typed, TypeOK, StoreTypeOK, Lives
  <1>2. \A w \in Slots : pc'[w] = "retry" => job'[w] \in Deliveries
    BY DEF Typed, TasksTyped
  <1>3. AttemptsBounded'
    BY <1>1 DEF Budgeted, AttemptsBounded
  <1>4. \A d \in Deliveries :
            /\ state'[d] = "absent" => attempts'[d] = 0
            /\ state'[d] = "queued" => attempts'[d] <= MaxRetries + Lives
    BY <1>1 DEF Budgeted
  <1>5. loop' = "down" => \A d \in Deliveries :
            state'[d] = "running" => attempts'[d] <= MaxRetries + restarts
    BY <1>1 DEF Budgeted
  <1>6. \A w \in Slots : pc'[w] = "retry" => attempts'[job'[w]] <= MaxRetries
    BY <1>1, <1>2 DEF Budgeted
  <1> QED
    BY <1>1, <1>3, <1>4, <1>5, <1>6 DEF Budgeted

LEMMA BudgetedTask ==
    ASSUME Typed, Typed', Claims, Budgeted, NEW w \in Slots, TaskStep(w)
    PROVE  Budgeted'
  <1>0. /\ pc \in [Slots -> Busy \union {"idle", "cancelled"}]
        /\ job \in [Slots -> Deliveries \union {None}]
        /\ attempts \in [Deliveries -> Nat]
        /\ StoreTypeOK
    BY DEF Typed, TypeOK, StoreTypeOK
  <1>1. UNCHANGED <<loop, restarts>>
    BY DEF TaskStep, Start, LookUp, ListComments, AskModel, Recheck, PostComment,
           PostAnswered, PublishOutputs, Settle, Report, CallFails, GiveUp,
           RequeueCancelled, OnlyTasks, poolVars, boundVars
  <1>2. CASE \/ Start(w) \/ LookUp(w) \/ ListComments(w) \/ AskModel(w) \/ Recheck(w)
             \/ PostComment(w) \/ PostAnswered(w) \/ PublishOutputs(w)
    <2>1. /\ UNCHANGED <<state, attempts, job>>
          /\ \E l \in {"skip", "lookup", "comments", "adopt", "model", "recheck",
                      "supersede", "post", "posted", "outputs", "complete"} :
                pc' = [pc EXCEPT ![w] = l]
      BY <1>2
      DEF Start, LookUp, ListComments, AskModel, Recheck, PostComment, PostAnswered,
          PublishOutputs, GoTo, OnlyTasks, storeVars
    <2> QED
      BY <1>0, <1>1, <2>1, BudgetedFrame
  <1>3. CASE CallFails(w)
    <2>1. /\ UNCHANGED <<state, attempts, job>>
          /\ \/ /\ attempts[job[w]] <= MaxRetries
                /\ pc' = [pc EXCEPT ![w] = "retry"]
             \/ pc' = [pc EXCEPT ![w] = "fail"]
      BY <1>3 DEF CallFails, Raise, GoTo, OnlyTasks, storeVars
    <2> QED
      BY <1>0, <1>1, <2>1, BudgetedFrame
  <1>4. CASE Settle(w) \/ GiveUp(w)
    <2>1. /\ pc[w] \in Settling \union GivingUp
          /\ Transact(pc[w], job[w], sha[w])
          /\ pc'[w] \in {"report", "idle"}
          /\ \A v \in Slots : v # w => pc'[v] = pc[v] /\ job'[v] = job[v]
      BY <1>0, <1>4 DEF Settle, GiveUp, Leave, GoTo
    <2>2. /\ \A e \in Deliveries : state'[e] = "running" => state[e] = "running"
          /\ \A e \in Deliveries : attempts'[e] = attempts[e] \/ attempts'[e] = 0
          /\ \A e \in Deliveries :
                state'[e] = "queued" =>
                    \/ state[e] = "queued"
                    \/ attempts'[e] = 0
                    \/ e = job[w] /\ pc[w] = "retry"
      BY <1>0, <2>1, TaskTransacts, TransactEffect
    <2>3. \A e \in Deliveries : state'[e] = "absent" => state[e] = "absent"
      BY <1>0, <2>1, TaskTransacts, TransactKeepsRows
    <2>4. \A e \in Deliveries : state'[e] = "queued" =>
                \/ state[e] \in {"queued", "absent"}
                \/ attempts'[e] <= MaxRetries + Lives
      <3>1. MaxRetries \in Nat /\ Lives \in Nat
        BY BotAssumption DEF Typed, TypeOK, Lives
      <3>2. pc[w] = "retry" => attempts[job[w]] <= MaxRetries
        BY DEF Budgeted
      <3> QED
        BY <1>0, <2>2, <3>1, <3>2
    <2> QED
      BY <1>1, <2>1, <2>2, <2>3, <2>4, BudgetedFrame
  <1>5. CASE Report(w)
    <2>1. /\ UNCHANGED <<state, attempts>>
          /\ pc'[w] = "idle"
          /\ \A v \in Slots : v # w => pc'[v] = pc[v] /\ job'[v] = job[v]
      BY <1>0, <1>5 DEF Report, Leave, GoTo, storeVars
    <2> QED
      BY <1>1, <2>1, BudgetedFrame
  <1>6. CASE RequeueCancelled(w)
    <2>1. /\ UNCHANGED attempts
          /\ pc'[w] = "idle"
          /\ \A v \in Slots : v # w => pc'[v] = pc[v] /\ job'[v] = job[v]
          /\ loop = "cancelled"
      BY <1>0, <1>6 DEF RequeueCancelled, RequeueIfRunning, storeVars, Leave, GoTo, Claims,
                        QuietAfterCancel
    <2>2. job[w] \in Deliveries
      BY <1>6 DEF RequeueCancelled, Typed, TasksTyped
    <2>3. /\ \A e \in Deliveries : state'[e] = "running" => state[e] = "running"
          /\ \A e \in Deliveries : state'[e] = "absent" => state[e] = "absent"
      BY <1>0, <1>6, <2>2 DEF RequeueCancelled, RequeueIfRunning, storeVars, StoreTypeOK
    <2>4. \A e \in Deliveries : attempts'[e] <= MaxRetries + Lives
      <3>1. MaxRetries \in Nat /\ restarts \in Nat
        BY BotAssumption DEF Typed, TypeOK
      <3> QED
        BY <1>0, <2>1, <3>1 DEF Budgeted, AttemptsBounded, Lives
    <2> QED
      BY <1>1, <2>1, <2>3, <2>4, BudgetedFrame
  <1> QED
    BY <1>2, <1>3, <1>4, <1>5, <1>6 DEF TaskStep

\* A claim spends one attempt of a queued row.
LEMMA BudgetedClaim ==
    ASSUME Typed, Claims, Budgeted, NEW w \in Slots, NEW d \in Deliveries, Claim(w, d)
    PROVE  Budgeted'
  <1>1. /\ loop = "up" /\ UNCHANGED <<loop, restarts>>
        /\ state[d] = "queued" /\ state'[d] = "running"
        /\ attempts'[d] = attempts[d] + 1
        /\ \A e \in Deliveries : e # d => state'[e] = state[e] /\ attempts'[e] = attempts[e]
        /\ pc'[w] = "start"
        /\ \A v \in Slots : v # w => pc'[v] = pc[v] /\ job'[v] = job[v]
    BY DEF Claim, ClaimRow, Claimable, GoTo, poolVars, boundVars, Typed, TypeOK, StoreTypeOK
  <1>2. /\ attempts \in [Deliveries -> Nat] /\ restarts \in Nat /\ MaxRetries \in Nat
        /\ \A v \in Slots : pc[v] = "retry" => job[v] \in Deliveries
    BY BotAssumption DEF Typed, TypeOK, StoreTypeOK, TasksTyped
  <1>3. AttemptsBounded'
    BY <1>1, <1>2 DEF Budgeted, AttemptsBounded, Lives
  <1>4. \A v \in Slots : pc'[v] = "retry" => attempts'[job'[v]] <= MaxRetries
    <2> SUFFICES ASSUME NEW v \in Slots, pc'[v] = "retry"
                 PROVE  attempts'[job'[v]] <= MaxRetries
      OBVIOUS
    <2>1. pc[v] = "retry" /\ job'[v] = job[v] /\ job[v] \in Deliveries
      BY <1>1, <1>2
    <2>2. CASE job[v] # d
      BY <1>1, <2>1, <2>2 DEF Budgeted
    <2>3. CASE job[v] = d
      BY <1>1, <2>1, <2>3 DEF Claims, ClaimIsKept, Holding, GivingUp
    <2> QED
      BY <2>2, <2>3
  <1> QED
    BY <1>1, <1>2, <1>3, <1>4 DEF Budgeted, Lives

LEMMA BudgetedProcess ==
    ASSUME Typed, Typed', Claims, Budgeted, Process
    PROVE  Budgeted'
  <1>0. /\ attempts \in [Deliveries -> Nat]
        /\ restarts \in Nat /\ MaxRetries \in Nat
    BY BotAssumption DEF Typed, TypeOK, StoreTypeOK
  <1>1. CASE Stop \/ Drained \/ DrainTimeout
    <2>1. /\ UNCHANGED <<state, attempts, restarts>>
          /\ loop # "down" /\ loop' # "down"
          /\ loop \in {"cancelled", "stopped"} => loop' \in {"cancelled", "stopped"}
          /\ \A w \in Slots : pc'[w] = "retry" => pc[w] = "retry" /\ job'[w] = job[w]
      BY <1>1
      DEF Stop, Drained, DrainTimeout, storeVars, taskVars, boundVars, GivingUp
    <2>2. /\ Lives \in Nat /\ Lives' \in Nat /\ Lives <= Lives'
      BY <1>0, <2>1 DEF Lives
    <2>3. \A d \in Deliveries : state'[d] = "queued" => attempts'[d] <= MaxRetries + Lives'
      BY <1>0, <2>1, <2>2 DEF Budgeted
    <2> QED
      BY <2>1, <2>3 DEF Budgeted, AttemptsBounded
  <1>2. CASE Exit \/ Crash
    <2>1. /\ UNCHANGED <<state, attempts>>
          /\ loop # "down" /\ loop' = "down" /\ restarts' = restarts + 1
          /\ \A w \in Slots : pc'[w] = "idle"
      <3>1. CASE Exit
        BY <3>1 DEF Exit, storeVars, taskVars, Claims, QuietAfterCancel, AllIdle
      <3>2. CASE Crash
        BY <3>2 DEF Crash, storeVars
      <3> QED
        BY <1>2, <3>1, <3>2
    <2>2. \A d \in Deliveries : attempts[d] <= MaxRetries + restarts'
      BY <1>0, <2>1 DEF Budgeted, AttemptsBounded
    <2>3. AttemptsBounded'
      BY <1>0, <2>1, <2>2 DEF AttemptsBounded
    <2> QED
      BY <2>1, <2>2, <2>3 DEF Budgeted, Lives
  <1>3. CASE Boot
    <2>1. /\ loop = "down" /\ loop' = "up" /\ UNCHANGED <<attempts, restarts, pc, job>>
          /\ \A d \in Deliveries :
                state'[d] = IF state[d] = "running" THEN "queued" ELSE state[d]
      BY <1>3 DEF Boot, Recover, taskVars, boundVars
    <2> QED
      BY <1>0, <2>1 DEF Budgeted, AttemptsBounded, Lives
  <1>4. ASSUME NEW o \in orphans, OrphanEnds(o)
        PROVE  Budgeted'
    <2>1. /\ o.op \in Settling \union GivingUp
          /\ o.event \in Deliveries
          /\ o.sha \in Shas \union {None}
          /\ o.op \in NeedsHead => o.sha \in Shas
          /\ StoreTypeOK
      BY DEF Typed, TypeOK, Orphans, TasksTyped
    <2>2. /\ UNCHANGED <<pc, job, loop, restarts>>
          /\ loop \in {"cancelled", "stopped"}
      BY <1>4 DEF OrphanEnds, taskVars, boundVars, Claims, QuietAfterCancel
    <2>3. /\ \A e \in Deliveries : state'[e] = "running" => state[e] = "running"
          /\ \A e \in Deliveries : state'[e] = "absent" => state[e] = "absent"
          /\ \A e \in Deliveries : attempts'[e] = attempts[e] \/ attempts'[e] = 0
      <3>1. CASE UNCHANGED storeVars
        BY <3>1 DEF storeVars
      <3>2. CASE Transact(o.op, o.event, o.sha)
        BY <2>1, <3>2, TransactEffect, TransactKeepsRows
      <3> QED
        BY <1>4, <3>1, <3>2 DEF OrphanEnds
    <2>4. \A e \in Deliveries : attempts'[e] <= MaxRetries + Lives
      BY <1>0, <2>2, <2>3 DEF Budgeted, AttemptsBounded, Lives
    <2> QED
      BY <2>2, <2>3, <2>4, BudgetedFrame
  <1> QED
    BY <1>1, <1>2, <1>3, <1>4 DEF Process

LEMMA BudgetedStep ==
    Typed /\ Typed' /\ Claims /\ Budgeted /\ [Next]_vars => Budgeted'
  <1> SUFFICES ASSUME Typed, Typed', Claims, Budgeted, [Next]_vars PROVE Budgeted'
    OBVIOUS
  <1>1. CASE Environment \/ UNCHANGED vars
    <2>1. UNCHANGED <<loop, restarts, pc, job>>
      BY <1>1
      DEF Environment, Push, SetStatus, Webhook, ReplayCheck, ManualCheck, AdminEnqueue,
          ClockTick, taskVars, poolVars, boundVars, vars
    <2>2. /\ UNCHANGED attempts
          /\ \A d \in Deliveries : state'[d] = "absent" => state[d] = "absent"
          /\ \A d \in Deliveries : state'[d] = "running" => state[d] = "running"
          /\ \A d \in Deliveries :
                state'[d] = "queued" => state[d] \in {"queued", "absent"}
      BY <1>1
      DEF Environment, Push, SetStatus, Webhook, ReplayCheck, ManualCheck, AdminEnqueue,
          ClockTick, Enqueue, BecomeDue, storeVars, vars, Typed, TypeOK, StoreTypeOK
    <2> QED
      BY <2>1, <2>2, BudgetedFrame
  <1> QED
    BY <1>1, BudgetedTask, BudgetedClaim, BudgetedProcess DEF Next, Pool

\* However its failures, restarts and shutdowns interleave, an event is tried
\* at most once more per life of the process than max_retries allows.
THEOREM RetriesAreBounded == Spec => []AttemptsBounded
  <1>1. Spec => [](Typed /\ Claims /\ Budgeted)
    BY TypedInit, TypedStep, ClaimsInit, ClaimsStep, BudgetedInit, BudgetedStep, PTL
    DEF Spec
  <1>2. Budgeted => AttemptsBounded
    BY DEF Budgeted
  <1> QED
    BY <1>1, <1>2, PTL
=============================================================================
