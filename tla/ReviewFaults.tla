---------------------------- MODULE ReviewFaults ----------------------------
(***************************************************************************)
(* The PR-review service when the store may raise: a connection that waits *)
(* 30 seconds for its lock, a full disk, an error of SQLite.  A call that  *)
(* raises commits nothing.  What it costs depends on who called:           *)
(*                                                                         *)
(*   process         the event fails, as no error of SQLite is retryable   *)
(*   get_event       the event is settled and is now marked failed         *)
(*   mark_failed     the task dies, its event stays "running"              *)
(*   requeue         the same, of a cancelled task                         *)
(*   claim_next      WorkerPool.run itself ends, and the app goes on       *)
(*                                                                         *)
(* Every other step is ReviewBot's.                                        *)
(***************************************************************************)
EXTENDS ReviewBot, FiniteSets

CONSTANT MaxFaults      \* bound: store calls that raise

ASSUME FaultAssumption == MaxFaults \in Nat

VARIABLE faults         \* store calls that raised so far

faultyVars == <<vars, faults>>

FaultyInit == Init /\ faults = 0

Fault ==
    /\ faults < MaxFaults
    /\ faults' = faults + 1

\* A call of process raises: has_review or a transaction that would have
\* settled the event.  _run_claimed finds the exception not retryable.
ProcessFails(w) ==
    /\ Fault
    /\ pc[w] \in Settling \union {"lookup"}
    /\ Raise(w, FALSE)
    /\ OnlyTasks
    /\ UNCHANGED sha

\* supersede_and_enqueue raises when its row is not running.  That costs no
\* fault of its own: the late mark_failed of ReportFails has ended the claim.
SupersedeRefused(w) ==
    /\ pc[w] = "supersede"
    /\ state[job[w]] # "running"
    /\ Raise(w, FALSE)
    /\ OnlyTasks
    /\ UNCHANGED <<sha, faults>>

\* get_event raises after process returned, inside the same `try`: the handler
\* calls mark_failed for an event this task no longer holds.  That call is kept
\* among the orphans, which gives the slot back a moment early.
ReportFails(w) ==
    /\ Fault
    /\ pc[w] = "report"
    /\ orphans' = orphans \union
           {[op |-> "fail", event |-> job[w], sha |-> None]}
    /\ Leave(w)
    /\ UNCHANGED <<storeVars, githubVars, loop, stop, admin, boundVars>>

\* mark_failed or requeue_if_running raises in a handler of _run_claimed: the
\* exception ends the task and is logged by _collect_finished.
HandlerFails(w) ==
    /\ Fault
    /\ pc[w] \in GivingUp \union {"cancelled"}
    /\ Leave(w)
    /\ UNCHANGED <<storeVars, githubVars, poolVars, admin, boundVars>>

\* claim_next raises in WorkerPool.run, which has no handler for it: the
\* `finally` drains the tasks and the coroutine ends.  Nobody awaits it before
\* shutdown, and nothing tells the app.
ClaimFails ==
    /\ Fault
    /\ loop = "up"
    /\ \E w \in Slots : pc[w] = "idle"
    /\ loop' = "drain"
    /\ UNCHANGED <<storeVars, githubVars, taskVars, stop, orphans, admin, boundVars>>

FaultyNext ==
    \/ Next /\ UNCHANGED faults
    \/ ClaimFails
    \/ \E w \in Slots :
            ProcessFails(w) \/ SupersedeRefused(w) \/ ReportFails(w) \/ HandlerFails(w)

FaultySpec == FaultyInit /\ [][FaultyNext]_faultyVars

\* The fairness of ReviewBot, for the steps that raise nothing.
Keeps(A) == A /\ UNCHANGED faults

FaultyFairness ==
    /\ \A w \in Slots : WF_faultyVars(Keeps(TaskStep(w)) \/ SupersedeRefused(w))
    /\ WF_faultyVars(Keeps(\E w \in Slots, d \in Deliveries : Claim(w, d)))
    /\ \A d \in Deliveries :
            WF_faultyVars(Keeps(AdminEnqueue(d))) /\ WF_faultyVars(Keeps(ClockTick(d)))
    /\ WF_faultyVars(Keeps(\E o \in orphans : OrphanEnds(o)))
    /\ WF_faultyVars(Keeps(DrainTimeout)) /\ WF_faultyVars(Keeps(Drained))
    /\ WF_faultyVars(Keeps(Exit)) /\ WF_faultyVars(Keeps(Boot))

FaultyFairSpec == FaultySpec /\ FaultyFairness
-----------------------------------------------------------------------------
\* A claim nobody works on, while the pool runs and may wait for it.
Stranded(d) ==
    /\ loop = "up"
    /\ state[d] = "running"
    /\ ~\E w \in Slots : pc[w] # "idle" /\ job[w] = d

\* The pool has ended although nobody asked it to, and the app accepts events.
PoolDead == loop = "stopped" /\ ~stop

\* One fault strands one claim at most, and the next start frees it.
FewStranded ==
    Cardinality({d \in Deliveries : Stranded(d)}) <= faults

\* A fault in one task does not stop the others (test_worker_pool.py,
\* test_one_failed_task_does_not_stop_other_tasks): an event waits for ever
\* only behind a claim of its own pull request, or when the pool is dead.
FaultIsIsolated ==
    \A d \in Deliveries :
        state[d] = "queued" ~>
            \/ state[d] \in Terminal
            \/ \E e \in Deliveries : PrOf[e] = PrOf[d] /\ Stranded(e)
            \/ PoolDead

\* What README.md says of the service, "after a pull request is created or
\* updated the robot publishes a review", for the queue: an event that waits
\* behind no stranded claim is worked on in the end.
PoolKeepsWorking ==
    \A d \in Deliveries :
        state[d] = "queued" ~>
            \/ state[d] \in Terminal
            \/ \E e \in Deliveries : PrOf[e] = PrOf[d] /\ Stranded(e)
=============================================================================
