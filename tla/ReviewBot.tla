------------------------------ MODULE ReviewBot ------------------------------
(***************************************************************************)
(* The PR-review service: the webhook and admin routes that fill the       *)
(* queue, the WorkerPool that empties it, ReviewService.process as the     *)
(* body of each worker task, and what these do to GitHub.                  *)
(*                                                                         *)
(* A task is a coroutine: every `await` is a place where the other tasks,  *)
(* the routes, GitHub and the operating system may act.  pc[w] is the      *)
(* await that the task in slot w has reached:                              *)
(*                                                                         *)
(*   start ---> lookup -> comments -> model -> recheck -> post -> posted   *)
(*     |          |          |                   |  |               |      *)
(*     |          |        adopt                 |  supersede    outputs   *)
(*     +--skip <--+--------- | ------------------+     |            |      *)
(*         |                 |                         |        complete   *)
(*         +-----------------+--> report <-------------+------------+      *)
(*                                                                         *)
(* skip, adopt, supersede and complete are the transactions that settle    *)
(* the event, retry and fail the two that record an exception, and a task  *)
(* that shutdown cancels is "cancelled" until it has run its handler.      *)
(*                                                                         *)
(* The store is assumed to work here; module ReviewFaults lets it fail.    *)
(***************************************************************************)
EXTENDS QueueStore

CONSTANTS
    Slots,          \* max_concurrency worker tasks
    Hooks,          \* deliveries that pass the filters of /webhook/github
    Replays,        \* delivery ids of admin replays ...
    ReplayOf,       \* ... and the delivery each of them replays
    Manuals,        \* delivery ids of admin reviews of a pull request
    Ignored,        \* deliveries that process() skips without a look at GitHub
    None,           \* no delivery, no sha
    MaxRetries,     \* settings.max_retries
    MaxMoves,       \* bound: changes of pull requests by their authors
    MaxRestarts     \* bound: crashes and shutdowns of the process

ASSUME BotAssumption ==
    /\ Hooks \subseteq Deliveries
    /\ Replays \subseteq Deliveries
    /\ Manuals \subseteq Deliveries
    /\ Ignored \subseteq Deliveries
    /\ ReplayOf \in [Replays -> Deliveries]
    /\ \A r \in Replays : PrOf[r] = PrOf[ReplayOf[r]]
    /\ None \notin Deliveries \union Shas
    /\ MaxRetries \in Nat
    /\ MaxMoves \in Nat
    /\ MaxRestarts \in Nat

VARIABLES
    head,           \* GitHub: the head commit of each pull request
    status,         \* GitHub: "open", "draft" or "closed"
    comments,       \* GitHub: how many comments carry the marker of a head
    checks,         \* GitHub: how many check runs of ours a head has
    loop,           \* WorkerPool.run: "up", "drain", "cancelled", "stopped"; or "down"
    stop,           \* stop_event
    pc,             \* the await each slot's task has reached, or "idle"
    job,            \* the delivery each slot's task works on
    sha,            \* the head it saw last
    orphans,        \* store calls whose task was cancelled while they ran
    admin,          \* admin requests that passed their check, not yet queued
    moves,          \* changes of pull requests so far
    restarts        \* crashes and shutdowns so far

githubVars == <<head, status, comments, checks>>
taskVars == <<pc, job, sha>>
poolVars == <<loop, stop, orphans>>
boundVars == <<moves, restarts>>
vars == <<storeVars, githubVars, taskVars, poolVars, admin, boundVars>>

\* The awaits at which a task holds the event it claimed.
Settling == {"skip", "adopt", "supersede", "complete"}
GivingUp == {"retry", "fail"}
Calling == {"start", "comments", "model", "recheck", "post", "posted"}
Holding == Settling \union GivingUp \union Calling \union {"lookup", "outputs"}
Busy == Holding \union {"report"}

Orphans == [op : Settling \union GivingUp, event : Deliveries, sha : Shas \union {None}]

\* The type of every variable.
TypeOK ==
    /\ StoreTypeOK
    /\ head \in [PullRequests -> Shas]
    /\ status \in [PullRequests -> {"open", "draft", "closed"}]
    /\ comments \in [PullRequests \X Shas -> Nat]
    /\ checks \in [PullRequests \X Shas -> Nat]
    /\ loop \in {"up", "drain", "cancelled", "stopped", "down"}
    /\ stop \in BOOLEAN
    /\ pc \in [Slots -> Busy \union {"idle", "cancelled"}]
    /\ job \in [Slots -> Deliveries \union {None}]
    /\ sha \in [Slots -> Shas \union {None}]
    /\ orphans \subseteq Orphans
    /\ admin \subseteq Deliveries
    /\ moves \in Nat
    /\ restarts \in Nat

Init ==
    /\ StoreInit
    /\ head \in [PullRequests -> Shas]
    /\ status = [p \in PullRequests |-> "open"]
    /\ comments = [h \in PullRequests \X Shas |-> 0]
    /\ checks = [h \in PullRequests \X Shas |-> 0]
    /\ loop = "up"
    /\ stop = FALSE
    /\ pc = [w \in Slots |-> "idle"]
    /\ job = [w \in Slots |-> None]
    /\ sha = [w \in Slots |-> None]
    /\ orphans = {}
    /\ admin = {}
    /\ moves = 0
    /\ restarts = 0

-----------------------------------------------------------------------------
(* What happens outside: authors move their pull requests, GitHub delivers *)
(* webhooks (at least once, in any order), an operator calls the admin API.*)

Push(p, s) ==
    /\ moves < MaxMoves
    /\ status[p] # "closed"
    /\ s # head[p]
    /\ head' = [head EXCEPT ![p] = s]
    /\ moves' = moves + 1
    /\ UNCHANGED <<storeVars, status, comments, checks, taskVars, poolVars, admin, restarts>>

SetStatus(p, st) ==
    /\ moves < MaxMoves
    /\ st # status[p]
    /\ status' = [status EXCEPT ![p] = st]
    /\ moves' = moves + 1
    /\ UNCHANGED <<storeVars, head, comments, checks, taskVars, poolVars, admin, restarts>>

\* The server answers requests from the end of `initialize` until shutdown.
Accepting == loop # "down" /\ ~stop

\* github_webhook, for a delivery that passes its filters.
Webhook(d) ==
    /\ Accepting
    /\ d \in Hooks
    /\ Enqueue(d)
    /\ UNCHANGED <<githubVars, taskVars, poolVars, admin, boundVars>>

\* replay_event reads the state of the event in one transaction ...
ReplayCheck(r) ==
    /\ Accepting
    /\ r \in Replays \ admin
    /\ state[ReplayOf[r]] \in {"failed", "skipped", "superseded"}
    /\ admin' = admin \union {r}
    /\ UNCHANGED <<storeVars, githubVars, taskVars, poolVars, boundVars>>

\* ... manual_review asks GitHub for the pull request ...
ManualCheck(m) ==
    /\ Accepting
    /\ m \in Manuals \ admin
    /\ status[PrOf[m]] = "open"
    /\ admin' = admin \union {m}
    /\ UNCHANGED <<storeVars, githubVars, taskVars, poolVars, boundVars>>

\* ... and each inserts its event in a later transaction.
AdminEnqueue(d) ==
    /\ d \in admin
    /\ Enqueue(d)
    /\ admin' = admin \ {d}
    /\ UNCHANGED <<githubVars, taskVars, poolVars, boundVars>>

ClockTick(d) ==
    /\ BecomeDue(d)
    /\ UNCHANGED <<githubVars, taskVars, poolVars, admin, boundVars>>

-----------------------------------------------------------------------------
(* The steps of a task.                                                    *)

Pull(w) == PrOf[job[w]]
HeadOf(w) == <<Pull(w), sha[w]>>

GoTo(w, label) == pc' = [pc EXCEPT ![w] = label]

\* The slot is free again: the coroutine and its locals are gone.
Leave(w) ==
    /\ GoTo(w, "idle")
    /\ job' = [job EXCEPT ![w] = None]
    /\ sha' = [sha EXCEPT ![w] = None]

\* Everything but the program counters and the heads the tasks saw.
OnlyTasks == UNCHANGED <<storeVars, githubVars, job, poolVars, admin, boundVars>>

\* WorkerPool.run claims an event and creates its task.  (A claim whose thread
\* is under way when stop_event is set commutes with setting it.)
Claim(w, d) ==
    /\ loop = "up"
    /\ pc[w] = "idle"
    /\ ClaimRow(d)
    /\ GoTo(w, "start")
    /\ job' = [job EXCEPT ![w] = d]
    /\ UNCHANGED <<githubVars, sha, poolVars, admin, boundVars>>

\* process: the filters, the first get_pull_request and the checks on it.
Start(w) ==
    /\ pc[w] = "start"
    /\ \/ /\ \/ job[w] \in Ignored
             \/ status[Pull(w)] # "open"
          /\ GoTo(w, "skip")
          /\ UNCHANGED sha
       \/ /\ job[w] \notin Ignored
          /\ status[Pull(w)] = "open"
          /\ sha' = [sha EXCEPT ![w] = head[Pull(w)]]
          /\ GoTo(w, "lookup")
    /\ OnlyTasks

\* process: has_review.
LookUp(w) ==
    /\ pc[w] = "lookup"
    /\ GoTo(w, IF HeadOf(w) \in reviews THEN "skip" ELSE "comments")
    /\ OnlyTasks
    /\ UNCHANGED sha

\* Mutant: the comments of the pull request are not consulted.
ListNothing(w) ==
    /\ pc[w] = "comments"
    /\ GoTo(w, "model")
    /\ OnlyTasks
    /\ UNCHANGED sha

\* process: the marker of the head among the comments of the pull request.
ListComments(w) ==
    /\ pc[w] = "comments"
    /\ GoTo(w, IF comments[HeadOf(w)] > 0 THEN "adopt" ELSE "model")
    /\ OnlyTasks
    /\ UNCHANGED sha

\* process: the changed files, the rules, the archive and the model's answer.
AskModel(w) ==
    /\ pc[w] = "model"
    /\ GoTo(w, "recheck")
    /\ OnlyTasks
    /\ UNCHANGED sha

\* process: the second get_pull_request and the checks on it.
Recheck(w) ==
    /\ pc[w] = "recheck"
    /\ \/ /\ status[Pull(w)] # "open"
          /\ GoTo(w, "skip")
          /\ UNCHANGED sha
       \/ /\ status[Pull(w)] = "open"
          /\ head[Pull(w)] # sha[w]
          /\ sha' = [sha EXCEPT ![w] = head[Pull(w)]]
          /\ GoTo(w, "supersede")
       \/ /\ status[Pull(w)] = "open"
          /\ head[Pull(w)] = sha[w]
          /\ GoTo(w, "post")
          /\ UNCHANGED sha
    /\ OnlyTasks

\* create_pull_request_comment reaches GitHub; its answer is a later step,
\* and may be lost.
PostComment(w) ==
    /\ pc[w] = "post"
    /\ comments' = [comments EXCEPT ![HeadOf(w)] = @ + 1]
    /\ GoTo(w, "posted")
    /\ UNCHANGED <<storeVars, head, status, checks, job, sha, poolVars, admin, boundVars>>

PostAnswered(w) ==
    /\ pc[w] = "posted"
    /\ GoTo(w, "outputs")
    /\ OnlyTasks
    /\ UNCHANGED sha

\* _publish_review_outputs: best effort, an exception only drops an output.
PublishOutputs(w) ==
    /\ pc[w] = "outputs"
    /\ \E created \in {0, 1} :
            checks' = [checks EXCEPT ![HeadOf(w)] = @ + created]
    /\ GoTo(w, "complete")
    /\ UNCHANGED <<storeVars, head, status, comments, job, sha, poolVars, admin, boundVars>>

\* The transaction `op` of a task that works on event d and saw head s.
Transact(op, d, s) ==
    \/ op = "skip" /\ SetEventState(d, "skipped")
    \/ op = "fail" /\ SetEventState(d, "failed")
    \/ op = "retry" /\ MarkRetry(d)
    \/ op \in {"adopt", "complete"} /\ CompleteReview(d, s)
    \/ op = "supersede" /\ SupersedeAndEnqueue(d, s)

\* process ends in one of the four transactions that settle the event.
Settle(w) ==
    /\ pc[w] \in Settling
    /\ Transact(pc[w], job[w], sha[w])
    /\ GoTo(w, "report")
    /\ UNCHANGED <<githubVars, job, sha, poolVars, admin, boundVars>>

\* _run_claimed reads the event back for the log, and the task ends.
Report(w) ==
    /\ pc[w] = "report"
    /\ Leave(w)
    /\ UNCHANGED <<storeVars, githubVars, poolVars, admin, boundVars>>

\* Mutant: the attempts are not compared with max_retries.
RaiseForever(w, retryable) == GoTo(w, IF retryable THEN "retry" ELSE "fail")

\* _run_claimed catches an exception of process and decides about a retry.
Raise(w, retryable) ==
    GoTo(w, IF retryable /\ attempts[job[w]] <= MaxRetries THEN "retry" ELSE "fail")

\* Mutant: a refused comment is swallowed, as a refused output is.
CallFailsQuietly(w) ==
    /\ pc[w] \in Calling
    /\ ~(pc[w] = "start" /\ job[w] \in Ignored)
    /\ IF pc[w] = "post" THEN GoTo(w, "outputs") ELSE Raise(w, FALSE)
    /\ OnlyTasks
    /\ UNCHANGED sha

\* A call to GitHub or to the model raises.  At "post" the request was
\* refused, at "posted" it was served and its answer lost.
CallFails(w) ==
    /\ pc[w] \in Calling
    /\ ~(pc[w] = "start" /\ job[w] \in Ignored)
    /\ \E retryable \in BOOLEAN : Raise(w, retryable)
    /\ OnlyTasks
    /\ UNCHANGED sha

\* Mutant: only the retry is written down.
GiveUpSilently(w) ==
    /\ pc[w] \in GivingUp
    /\ IF pc[w] = "retry" THEN MarkRetry(job[w]) ELSE UNCHANGED storeVars
    /\ Leave(w)
    /\ UNCHANGED <<githubVars, poolVars, admin, boundVars>>

\* The handler of an exception records it, and the task ends.
GiveUp(w) ==
    /\ pc[w] \in GivingUp
    /\ Transact(pc[w], job[w], sha[w])
    /\ Leave(w)
    /\ UNCHANGED <<githubVars, poolVars, admin, boundVars>>

\* The CancelledError handler of _run_claimed.
RequeueCancelled(w) ==
    /\ pc[w] = "cancelled"
    /\ RequeueIfRunning(job[w])
    /\ Leave(w)
    /\ UNCHANGED <<githubVars, poolVars, admin, boundVars>>

TaskStep(w) ==
    \/ Start(w) \/ LookUp(w) \/ ListComments(w) \/ AskModel(w) \/ Recheck(w)
    \/ PostComment(w) \/ PostAnswered(w) \/ PublishOutputs(w)
    \/ Settle(w) \/ Report(w)
    \/ CallFails(w) \/ GiveUp(w) \/ RequeueCancelled(w)

-----------------------------------------------------------------------------
(* Shutdown, crash and start of the process.                               *)

AllIdle == \A w \in Slots : pc[w] = "idle"

\* The lifespan of the app sets stop_event and the loop of the pool ends.
Stop ==
    /\ ~stop
    /\ loop # "down"
    /\ restarts < MaxRestarts
    /\ stop' = TRUE
    /\ loop' = IF loop = "up" THEN "drain" ELSE loop
    /\ UNCHANGED <<storeVars, githubVars, taskVars, orphans, admin, boundVars>>

\* _drain has waited shutdown_drain_seconds and cancels every task.  The
\* thread of a store call is not cancelled with the task that awaits it.  A
\* task cancelled inside its `except Exception` handler, or after its event
\* was settled, has no requeue left to do.
DrainTimeout ==
    LET inThread == {w \in Slots : pc[w] \in Settling \union GivingUp}
        ends == {w \in Slots : pc[w] \in GivingUp \union {"idle"}}
    IN  /\ loop = "drain"
        /\ ~AllIdle
        /\ loop' = "cancelled"
        /\ orphans' = orphans \union
               {[op |-> pc[w], event |-> job[w], sha |-> sha[w]] : w \in inThread}
        /\ pc' = [w \in Slots |-> IF w \in ends THEN "idle" ELSE "cancelled"]
        /\ job' = [w \in Slots |-> IF w \in ends THEN None ELSE job[w]]
        /\ sha' = [w \in Slots |-> None]
        /\ UNCHANGED <<storeVars, githubVars, stop, admin, boundVars>>

\* The thread of such a call commits after all, or the call had not started
\* and is dropped with its future, or its transaction finds nothing to do.
OrphanEnds(o) ==
    /\ o \in orphans
    /\ orphans' = orphans \ {o}
    /\ \/ Transact(o.op, o.event, o.sha)
       \/ UNCHANGED storeVars
    /\ UNCHANGED <<githubVars, taskVars, loop, stop, admin, boundVars>>

Drained ==
    /\ loop \in {"drain", "cancelled"}
    /\ AllIdle
    /\ loop' = "stopped"
    /\ UNCHANGED <<storeVars, githubVars, taskVars, stop, orphans, admin, boundVars>>

\* Mutant: nobody waits for the threads, and they outlive the restart.
ExitEarly ==
    /\ loop = "stopped"
    /\ stop
    /\ loop' = "down"
    /\ stop' = FALSE
    /\ restarts' = restarts + 1
    /\ UNCHANGED <<storeVars, githubVars, taskVars, orphans, admin, moves>>

\* The event loop closes once the threads of its executor have ended.
Exit ==
    /\ loop = "stopped"
    /\ stop
    /\ orphans = {}
    /\ admin = {}
    /\ loop' = "down"
    /\ stop' = FALSE
    /\ restarts' = restarts + 1
    /\ UNCHANGED <<storeVars, githubVars, taskVars, orphans, admin, moves>>

\* The process dies at any point: SQLite and GitHub keep what they have.
Crash ==
    /\ loop # "down"
    /\ restarts < MaxRestarts
    /\ loop' = "down"
    /\ stop' = FALSE
    /\ pc' = [w \in Slots |-> "idle"]
    /\ job' = [w \in Slots |-> None]
    /\ sha' = [w \in Slots |-> None]
    /\ orphans' = {}
    /\ admin' = {}
    /\ restarts' = restarts + 1
    /\ UNCHANGED <<storeVars, githubVars, moves>>

Boot ==
    /\ loop = "down"
    /\ Recover
    /\ loop' = "up"
    /\ UNCHANGED <<githubVars, taskVars, stop, orphans, admin, boundVars>>

-----------------------------------------------------------------------------
Environment ==
    \/ \E p \in PullRequests, s \in Shas : Push(p, s)
    \/ \E p \in PullRequests, st \in {"open", "draft", "closed"} : SetStatus(p, st)
    \/ \E d \in Deliveries : Webhook(d) \/ ReplayCheck(d) \/ ManualCheck(d)
    \/ \E d \in Deliveries : AdminEnqueue(d) \/ ClockTick(d)

Process ==
    \/ Stop \/ DrainTimeout \/ Drained \/ Exit \/ Crash \/ Boot
    \/ \E o \in orphans : OrphanEnds(o)

Pool ==
    \E w \in Slots : TaskStep(w) \/ \E d \in Deliveries : Claim(w, d)

Next == Environment \/ Process \/ Pool

Spec == Init /\ [][Next]_vars

(***************************************************************************)
(* Every call to GitHub, the model and SQLite has a timeout, so a task     *)
(* that waits moves on; the pool polls at least once a second; delays end; *)
(* and the supervisor starts the process again.  Nothing is assumed about  *)
(* authors, GitHub's deliveries, operators or crashes.                     *)
(***************************************************************************)
Fairness ==
    /\ \A w \in Slots : WF_vars(TaskStep(w))
    /\ WF_vars(\E w \in Slots, d \in Deliveries : Claim(w, d))
    /\ \A d \in Deliveries : WF_vars(AdminEnqueue(d)) /\ WF_vars(ClockTick(d))
    /\ WF_vars(\E o \in orphans : OrphanEnds(o))
    /\ WF_vars(DrainTimeout) /\ WF_vars(Drained) /\ WF_vars(Exit) /\ WF_vars(Boot)

FairSpec == Spec /\ Fairness
-----------------------------------------------------------------------------
(* Safety.                                                                 *)

\* Two tasks never work on events of one pull request at a time: the claim is
\* a lock on the pull request (storage.py claim_next, NOT EXISTS ... running).
OneWorkerPerPull ==
    \A v, w \in Slots :
        pc[v] \in Holding /\ pc[w] \in Holding /\ v # w => Pull(v) # Pull(w)

\* The event of a task stays "running" until that task gives it up: the
\* unconditional UPDATEs of mark_skipped, mark_failed and complete_review
\* never hit the row of another task.
ClaimIsKept ==
    \A w \in Slots : pc[w] \in Holding => state[job[w]] = "running"

\* While the pool runs, a running event has a task.  An event that nobody
\* works on would lock its pull request until the next start.
NoLeakedClaim ==
    loop = "up" =>
        \A d \in Deliveries : state[d] = "running" =>
            \E w \in Slots : pc[w] \in Holding /\ job[w] = d

\* A commit gets one review comment and at most one check run, over retries,
\* lost answers, crashes, cancelled tasks, replays and manual reviews.
ReviewedOnce ==
    \A h \in PullRequests \X Shas : comments[h] <= 1 /\ checks[h] <= comments[h]

\* has_review is right: a head recorded as reviewed has its comment.
ReviewIsPublished ==
    \A h \in reviews : comments[h] > 0

\* A life of the process adds one attempt to the retry budget at most: the
\* claim it was stopped in.
AttemptsBounded ==
    \A d \in Deliveries : attempts[d] <= MaxRetries + 1 + restarts

\* A settled event stays settled, late store calls of cancelled tasks
\* included, unless it is the refresh of a head that still lacks its review.
SettledStays ==
    [][\A d \in Deliveries :
         state[d] \in Terminal /\ state'[d] # state[d] =>
            /\ state'[d] = "queued"
            /\ attempts'[d] = 0
            /\ \E p \in PullRequests, s \in Shas :
                  d = RefreshId[<<p, s>>] /\ <<p, s>> \notin reviews]_vars

\* What README.md says of the service: a conclusion is published for the
\* newest commit of the pull request only.
NewestOnly ==
    [][\A p \in PullRequests, s \in Shas :
         comments'[<<p, s>>] # comments[<<p, s>>] => s = head[p]]_vars

-----------------------------------------------------------------------------
(* Liveness.                                                               *)

\* Every queued event is settled in the end.
QueuedSettles ==
    \A d \in Deliveries : state[d] = "queued" ~> state[d] \in Terminal

\* An event that waits, or whose task has yet to compare the heads, gets the
\* head of its open pull request reviewed, unless the pull request changes or
\* the event or the refresh of that head fails.  (A cancelled task's late
\* mark_skipped may still settle an event that shutdown put back.)
HeadReviewed ==
    \A d \in Deliveries \ Ignored, s \in Shas :
        LET p == PrOf[d]
            current == status[p] = "open" /\ head[p] = s
            pending == \/ state[d] = "queued" /\ orphans = {}
                       \/ \E w \in Slots :
                             job[w] = d /\ pc[w] \in {"start", "model", "recheck"}
        IN  (current /\ pending) ~>
                \/ <<p, s>> \in reviews
                \/ ~current
                \/ state[d] = "failed"
                \/ state[RefreshId[<<p, s>>]] = "failed"

-----------------------------------------------------------------------------
(* What the service promises, without its tasks: see ReviewPromise.        *)

PhaseOf(st) ==
    CASE st = "absent" -> "unknown"
      [] st = "queued" -> "waiting"
      [] st = "running" -> "working"
      [] st \in Terminal -> "settled"

Promise == INSTANCE ReviewPromise WITH
    phase <- [d \in Deliveries |-> PhaseOf(state[d])],
    published <- comments

KeepsPromise == Promise!Spec
=============================================================================
