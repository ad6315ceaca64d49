----------------------------- MODULE AgentQueue -----------------------------
(***************************************************************************)
(* The event queue of robomp: class WorkerPool of src/robomp/queue.py with *)
(* its slot pool, the cancellation hooks of cancellation.py, the routes    *)
(* and CLI commands that fill the queue, and the shutdown and restart of   *)
(* the process.                                                            *)
(*                                                                         *)
(* Two kinds of actors share the pool's fields.  Coroutines of the event   *)
(* loop (the dispatcher, a task per event, the routes, stop) interleave at *)
(* their awaits; pc[d] is the await that the task of delivery d is at:     *)
(*                                                                         *)
(*     slot -> prepare -> thread -> (end of run) -> reclaim -> release     *)
(*                                                                         *)
(* or "cancelled" when task.cancel() was called on it.  The thread of      *)
(* run_task interleaves anywhere, and outlives a task that is cancelled:   *)
(*                                                                         *)
(*     prep -> spawned -> arming -> agent -> (dead) -> ok, err             *)
(*                                                                         *)
(* One task and one thread per delivery is not assumed: the pool starts a  *)
(* task whenever the key is not in flight, and WorkspaceIsOwn says that    *)
(* nothing of that key is alive then.                                      *)
(***************************************************************************)
EXTENDS AgentEvents

CONSTANTS
    Slots,          \* the uids 2001, 2002, ...: max_concurrency of them
    Hooks,          \* deliveries of GitHub
    Manuals,        \* delivery ids of manual triages
    MaxReplays,     \* bound: replays and manual triages
    MaxRestarts     \* bound: crashes and shutdowns of the process

ASSUME QueueAssumption ==
    /\ Hooks \subseteq Deliveries
    /\ Manuals \subseteq Deliveries
    /\ None \notin Slots
    /\ MaxReplays \in Nat
    /\ MaxRestarts \in Nat

VARIABLES
    loop,           \* "up"; in stop() "drain", then "kill"; "stopped"; "down"
    disp,           \* the dispatcher: "idle", "claimed", "off", or "orphan"
    grabbed,        \* the row it has claimed and not yet started or put back
    inflight,       \* _inflight: the keys of live tasks
    free,           \* SlotPool._available
    pc,             \* the await each delivery's task has reached, or "none"
    slot,           \* slot_uid of each task
    th,             \* the thread of each delivery, or "none"
    hooks,          \* deliveries with an armed hook in _cancel_hooks
    firing,         \* hooks that were popped and are being run
    cancelled,      \* _cancelled
    interrupted,    \* _shutdown_cancelled
    todo,           \* still_running, as far as stop() has not come to it
    stopping,       \* the delivery whose hook stop() ran last
    triage,         \* how many manual triages of a delivery await GitHub
    replays,        \* replays and manual triages so far
    restarts        \* crashes and shutdowns so far

dispVars == <<disp, grabbed, inflight>>
taskVars == <<pc, slot, free>>
threadVars == <<th, hooks, firing>>
markVars == <<cancelled, interrupted>>
stopVars == <<loop, todo, stopping, restarts>>
operatorVars == <<triage, replays>>
vars == <<eventVars, dispVars, taskVars, threadVars, markVars, stopVars, operatorVars>>

\* key: row.issue_key or row.delivery_id
Key(d) == IF IssueOf[d] = None THEN d ELSE IssueOf[d]
Keys == {Key(d) : d \in Deliveries}

InRun == {"slot", "prepare", "thread"}
Ending == {"reclaim", "release"}
ThreadStates == {"prep", "spawned", "arming", "agent", "dead", "ok", "err"}

\* The type of every variable.
TypeOK ==
    /\ EventsTypeOK
    /\ loop \in {"up", "drain", "kill", "stopped", "down"}
    /\ disp \in {"idle", "claimed", "off", "orphan"}
    /\ grabbed \in Deliveries \union {None}
    /\ inflight \subseteq Keys
    /\ free \subseteq Slots
    /\ pc \in [Deliveries -> InRun \union Ending \union {"none", "cancelled"}]
    /\ slot \in [Deliveries -> Slots \union {None}]
    /\ th \in [Deliveries -> ThreadStates \union {"none"}]
    /\ hooks \subseteq Deliveries
    /\ firing \subseteq Deliveries
    /\ cancelled \subseteq Deliveries
    /\ interrupted \subseteq Deliveries
    /\ todo \subseteq Deliveries
    /\ stopping \in Deliveries \union {None}
    /\ triage \in [Deliveries -> Nat]
    /\ replays \in 0 .. MaxReplays
    /\ restarts \in 0 .. MaxRestarts

\* __init__ of WorkerPool and SlotPool.
Init ==
    /\ EventsInit
    /\ loop = "up"
    /\ disp = "idle"
    /\ grabbed = None
    /\ inflight = {}
    /\ free = Slots
    /\ pc = [d \in Deliveries |-> "none"]
    /\ slot = [d \in Deliveries |-> None]
    /\ th = [d \in Deliveries |-> "none"]
    /\ hooks = {}
    /\ firing = {}
    /\ cancelled = {}
    /\ interrupted = {}
    /\ todo = {}
    /\ stopping = None
    /\ triage = [d \in Deliveries |-> 0]
    /\ replays = 0
    /\ restarts = 0

-----------------------------------------------------------------------------
(* What fills the queue.  The server answers while loop = "up"; the CLI is *)
(* a process of its own and works at any time.                             *)

\* github_webhook: queued, or skipped (not routed, or over the rate limit).
Webhook(d) ==
    /\ loop = "up"
    /\ d \in Hooks
    /\ \E st \in {"queued", "skipped"} : RecordEvent(d, st)
    /\ UNCHANGED <<dispVars, taskVars, threadVars, markVars, stopVars, operatorVars>>

\* /replay, /api/trigger with mode "retry", and `robomp replay`.
Replay(d) ==
    /\ replays < MaxReplays
    /\ RequeueEvent(d, Inactive)
    /\ replays' = replays + 1
    /\ UNCHANGED <<dispVars, taskVars, threadVars, markVars, stopVars, triage>>

\* enqueue_manual_triage up to its await of GitHub (two requests may be there
\* at once) ...
StartTriage(d) ==
    /\ d \in Manuals
    /\ replays < MaxReplays
    /\ row[d] \notin {"queued", "running"}
    /\ triage' = [triage EXCEPT ![d] = @ + 1]
    /\ replays' = replays + 1
    /\ UNCHANGED <<eventVars, dispVars, taskVars, threadVars, markVars, stopVars>>

\* ... and from there on, unless GitHub refuses or the row is active by now.
EndTriage(d) ==
    /\ triage[d] > 0
    /\ triage' = [triage EXCEPT ![d] = @ - 1]
    /\ ReplaceEvent(d) \/ UNCHANGED eventVars
    /\ UNCHANGED <<dispVars, taskVars, threadVars, markVars, stopVars, replays>>

Due(d) ==
    /\ BecomeDue(d)
    /\ UNCHANGED <<dispVars, taskVars, threadVars, markVars, stopVars, operatorVars>>

-----------------------------------------------------------------------------
(* The dispatcher.  It holds _inflight_lock from the claim to the end of   *)
(* _claim_next_unique, so a task that wants to release its key waits.      *)

Claim(d) ==
    /\ disp = "idle"
    /\ ClaimRow(d)
    /\ disp' = "claimed"
    /\ grabbed' = d
    /\ UNCHANGED <<inflight, taskVars, threadVars, markVars, stopVars, operatorVars>>

\* Mutant: no look at _inflight.
IsInflightNever(d) == FALSE

IsInflight(d) == Key(d) \in inflight

\* The key is free: it is taken and the task created, with no await between.
Dispatch(d) ==
    /\ disp = "claimed"
    /\ grabbed = d
    /\ ~IsInflight(d)
    /\ inflight' = inflight \union {Key(d)}
    /\ pc' = [pc EXCEPT ![d] = "slot"]
    /\ disp' = "idle"
    /\ grabbed' = None
    /\ UNCHANGED <<eventVars, slot, free, threadVars, markVars, stopVars, operatorVars>>

\* Mutant: the row is dropped instead of being put back.
BounceDrops(d) ==
    /\ disp = "claimed"
    /\ grabbed = d
    /\ IsInflight(d)
    /\ disp' = "idle"
    /\ grabbed' = None
    /\ UNCHANGED <<eventVars, inflight, taskVars, threadVars, markVars, stopVars, operatorVars>>

\* A task of the same key is still at its end: the row goes back.
Bounce(d) ==
    /\ disp = "claimed"
    /\ grabbed = d
    /\ IsInflight(d)
    /\ RequeueEvent(d, {"running"})
    /\ disp' = "idle"
    /\ grabbed' = None
    /\ UNCHANGED <<inflight, taskVars, threadVars, markVars, stopVars, operatorVars>>

\* The claim of a dispatcher that was cancelled while its thread ran: the
\* thread may still find a row, and nobody starts it.
OrphanClaim ==
    /\ disp = "orphan"
    /\ disp' = "off"
    /\ UNCHANGED eventVars \/ \E d \in Deliveries : ClaimRow(d)
    /\ UNCHANGED <<grabbed, inflight, taskVars, threadVars, markVars, stopVars, operatorVars>>

-----------------------------------------------------------------------------
(* _run_event: one task per event.                                         *)

AcquireSlot(d, s) ==
    /\ pc[d] = "slot"
    /\ s \in free
    /\ free' = free \ {s}
    /\ slot' = [slot EXCEPT ![d] = s]
    /\ pc' = [pc EXCEPT ![d] = "prepare"]
    /\ UNCHANGED <<eventVars, dispVars, threadVars, markVars, stopVars, operatorVars>>

\* The handler has its workspace and hands over to run_task.
StartThread(d) ==
    /\ pc[d] = "prepare"
    /\ pc' = [pc EXCEPT ![d] = "thread"]
    /\ th' = [th EXCEPT ![d] = "prep"]
    /\ UNCHANGED <<eventVars, dispVars, slot, free, hooks, firing, markVars, stopVars, operatorVars>>

\* Mutants: the slot is released although it was not acquired; it is not
\* released; the mark of a cancellation stays.
FinallyUnchecked(d) ==
    /\ cancelled' = cancelled \ {d}
    /\ interrupted' = interrupted \ {d}
    /\ hooks' = hooks \ {d}
    /\ free' = free \union {slot[d]}
    /\ slot' = [slot EXCEPT ![d] = None]
    /\ pc' = [pc EXCEPT ![d] = IF loop = "up" THEN "reclaim" ELSE "release"]

FinallyKeepsSlot(d) ==
    /\ cancelled' = cancelled \ {d}
    /\ interrupted' = interrupted \ {d}
    /\ hooks' = hooks \ {d}
    /\ slot' = [slot EXCEPT ![d] = None]
    /\ pc' = [pc EXCEPT ![d] = IF loop = "up" THEN "reclaim" ELSE "release"]
    /\ UNCHANGED free

FinallyKeepsMark(d) ==
    /\ interrupted' = interrupted \ {d}
    /\ hooks' = hooks \ {d}
    /\ free' = free \union ({slot[d]} \ {None})
    /\ slot' = [slot EXCEPT ![d] = None]
    /\ pc' = [pc EXCEPT ![d] = IF loop = "up" THEN "reclaim" ELSE "release"]
    /\ UNCHANGED cancelled

\* The finally clause up to its first await: the caches of the workspace are
\* reclaimed unless the pool is shutting down.
Finally(d) ==
    /\ cancelled' = cancelled \ {d}
    /\ interrupted' = interrupted \ {d}
    /\ hooks' = hooks \ {d}
    /\ free' = free \union ({slot[d]} \ {None})
    /\ slot' = [slot EXCEPT ![d] = None]
    /\ pc' = [pc EXCEPT ![d] = IF loop = "up" THEN "reclaim" ELSE "release"]

\* Mutant: a handler that returns is done, cancelled or not.
SucceedAnyway(d) == MarkEvent(d, "done")

\* _dispatch_and_mark, when the handler returns.
Succeed(d) == MarkEvent(d, IF d \in cancelled THEN "failed" ELSE "done")

\* Mutant: the exception path without its first branch.
FailAtShutdown(d) ==
    \/ /\ d \in cancelled
       /\ MarkEvent(d, "failed")
    \/ /\ d \notin cancelled
       /\ attempts[d] <= MaxRetries
       /\ ScheduleRetry(d)
    \/ /\ d \notin cancelled
       /\ attempts[d] > MaxRetries
       /\ MarkEvent(d, "failed")

\* The exception path of _run_event: interrupted by stop(), cancelled by the
\* operator, worth a retry, or failed for good.
Fail(d) ==
    \/ /\ d \in interrupted
       /\ UNCHANGED eventVars
    \/ /\ d \in cancelled \ interrupted
       /\ MarkEvent(d, "failed")
    \/ /\ d \notin cancelled \union interrupted
       /\ attempts[d] <= MaxRetries
       /\ ScheduleRetry(d)
    \/ /\ d \notin cancelled \union interrupted
       /\ attempts[d] > MaxRetries
       /\ MarkEvent(d, "failed")

\* The handler ends without an agent: nothing to do, or an exception.
EndEarly(d) ==
    /\ pc[d] = "prepare"
    /\ Succeed(d) \/ Fail(d)
    /\ Finally(d)
    /\ UNCHANGED <<dispVars, th, firing, stopVars, operatorVars>>

\* The thread is back: it raised, or what the handler does next may raise.
EndRun(d) ==
    /\ pc[d] = "thread"
    /\ \/ th[d] = "ok" /\ Succeed(d)
       \/ th[d] \in {"ok", "err"} /\ Fail(d)
    /\ Finally(d)
    /\ th' = [th EXCEPT ![d] = "none"]
    /\ UNCHANGED <<dispVars, firing, stopVars, operatorVars>>

\* CancelledError is no Exception: only the finally clause runs.
EndCancelled(d) ==
    /\ pc[d] = "cancelled"
    /\ Finally(d)
    /\ UNCHANGED <<eventVars, dispVars, th, firing, stopVars, operatorVars>>

Reclaim(d) ==
    /\ pc[d] = "reclaim"
    /\ pc' = [pc EXCEPT ![d] = "release"]
    /\ UNCHANGED <<eventVars, dispVars, slot, free, threadVars, markVars, stopVars, operatorVars>>

\* _release, under _inflight_lock.
Release(d) ==
    /\ pc[d] = "release"
    /\ disp # "claimed"
    /\ inflight' = inflight \ {Key(d)}
    /\ pc' = [pc EXCEPT ![d] = "none"]
    /\ UNCHANGED <<eventVars, disp, grabbed, slot, free, threadVars, markVars, stopVars, operatorVars>>

-----------------------------------------------------------------------------
(* _run_rpc_blocking, on its thread.                                       *)

\* Dependencies and environment are ready; RpcClient starts omp, or fails.
Spawn(d) ==
    /\ th[d] = "prep"
    /\ \E next \in {"spawned", "err"} : th' = [th EXCEPT ![d] = next]
    /\ UNCHANGED <<eventVars, dispVars, taskVars, hooks, firing, markVars, stopVars, operatorVars>>

\* _arm_cancel looks for a mark; if there is one, it runs the hook itself ...
CheckMark(d) ==
    /\ th[d] = "spawned"
    /\ th' = [th EXCEPT ![d] = IF d \in cancelled THEN "dead" ELSE "arming"]
    /\ UNCHANGED <<eventVars, dispVars, taskVars, hooks, firing, markVars, stopVars, operatorVars>>

\* ... and otherwise installs it.  Nothing keeps the loop out in between.
Arm(d) ==
    /\ th[d] = "arming"
    /\ th' = [th EXCEPT ![d] = "agent"]
    /\ hooks' = hooks \union {d}
    /\ UNCHANGED <<eventVars, dispVars, taskVars, firing, markVars, stopVars, operatorVars>>

\* The agent finishes, fails, aborts itself, is killed by a hook or by the
\* hard timeout; _disarm_cancel follows.  A hook that still runs does nothing.
AgentEnds(d) ==
    /\ th[d] \in {"agent", "dead"}
    /\ \E next \in {"ok", "err"} : th' = [th EXCEPT ![d] = next]
    /\ hooks' = hooks \ {d}
    /\ firing' = firing \ {d}
    /\ UNCHANGED <<eventVars, dispVars, taskVars, markVars, stopVars, operatorVars>>

\* The result of a thread that no task waits for.
ThreadDropped(d) ==
    /\ th[d] \in {"ok", "err"}
    /\ pc[d] # "thread"
    /\ th' = [th EXCEPT ![d] = "none"]
    /\ UNCHANGED <<eventVars, dispVars, taskVars, hooks, firing, markVars, stopVars, operatorVars>>

-----------------------------------------------------------------------------
(* Cancellation.                                                           *)

\* api_cancel and cancel_event up to the await of the hook.
Cancel(d) ==
    /\ loop = "up"
    /\ row[d] = "running"
    /\ cancelled' = cancelled \union {d}
    /\ firing' = firing \union (hooks \intersect {d})
    /\ hooks' = hooks \ {d}
    /\ UNCHANGED <<eventVars, dispVars, taskVars, th, interrupted, stopVars, operatorVars>>

\* A hook that cancel_event or stop() popped kills omp.
FireHook(d) ==
    /\ d \in firing
    /\ firing' = firing \ {d}
    /\ th' = [th EXCEPT ![d] = IF @ = "agent" THEN "dead" ELSE @]
    /\ UNCHANGED <<eventVars, dispVars, taskVars, hooks, markVars, stopVars, operatorVars>>

-----------------------------------------------------------------------------
(* stop(), exit, crash and restart.                                        *)

\* stop() cancels the dispatcher, wherever it is.  A thread it has started
\* goes on: it may claim a row, and put back one it was told to.
Stop ==
    /\ loop = "up"
    /\ restarts < MaxRestarts
    /\ restarts' = restarts + 1
    /\ loop' = "drain"
    /\ grabbed' = None
    /\ \/ /\ disp = "idle"
          /\ disp' \in {"off", "orphan"}
          /\ UNCHANGED eventVars
       \/ /\ disp = "claimed"
          /\ disp' = "off"
          /\ \/ UNCHANGED eventVars
             \/ IsInflight(grabbed) /\ RequeueEvent(grabbed, {"running"})
    /\ UNCHANGED <<inflight, taskVars, threadVars, markVars, todo, stopping, operatorVars>>

Live == {d \in Deliveries : pc[d] # "none"}

DrainDone ==
    /\ loop = "drain"
    /\ Live = {}
    /\ loop' = "stopped"
    /\ UNCHANGED <<eventVars, dispVars, taskVars, threadVars, markVars, todo, stopping, restarts, operatorVars>>

DrainTimeout ==
    /\ loop = "drain"
    /\ Live # {}
    /\ loop' = "kill"
    /\ todo' = Live
    /\ UNCHANGED <<eventVars, dispVars, taskVars, threadVars, markVars, stopping, restarts, operatorVars>>

\* task.cancel().  A task that is releasing its key never does.
CancelTask(d) ==
    pc' = [pc EXCEPT ![d] = CASE @ \in InRun -> "cancelled"
                              [] @ \in Ending -> "none"
                              [] OTHER -> @]

\* Step 3 of stop() for one task: a hook is run, one after the other; a task
\* without a hook is cancelled.
Interrupt(d) ==
    /\ loop = "kill"
    /\ d \in todo
    /\ stopping \notin firing
    /\ todo' = todo \ {d}
    /\ \/ /\ pc[d] = "none"
          /\ UNCHANGED <<pc, hooks, firing, interrupted, stopping>>
       \/ /\ pc[d] # "none"
          /\ d \in hooks
          /\ interrupted' = interrupted \union {d}
          /\ hooks' = hooks \ {d}
          /\ firing' = firing \union {d}
          /\ stopping' = d
          /\ UNCHANGED pc
       \/ /\ pc[d] # "none"
          /\ d \notin hooks
          /\ interrupted' = interrupted \union {d}
          /\ CancelTask(d)
          /\ UNCHANGED <<hooks, firing, stopping>>
    /\ UNCHANGED <<eventVars, dispVars, slot, free, th, cancelled, loop, restarts, operatorVars>>

\* Step 4: the wait for the interrupted tasks ends, in time or not.
KillDone ==
    /\ loop = "kill"
    /\ todo = {}
    /\ stopping \notin firing
    /\ loop' = "stopped"
    /\ UNCHANGED <<eventVars, dispVars, taskVars, threadVars, markVars, todo, stopping, restarts, operatorVars>>

\* The end of asyncio.run cancels the tasks that are left ...
CancelLeft(d) ==
    /\ loop = "stopped"
    /\ pc[d] \notin {"none", "cancelled"}
    /\ CancelTask(d)
    /\ UNCHANGED <<eventVars, dispVars, slot, free, threadVars, markVars, stopVars, operatorVars>>

\* The memory of the process is gone.
Forget ==
    /\ loop' = "down"
    /\ disp' = "off"
    /\ grabbed' = None
    /\ inflight' = {}
    /\ free' = Slots
    /\ pc' = [d \in Deliveries |-> "none"]
    /\ slot' = [d \in Deliveries |-> None]
    /\ th' = [d \in Deliveries |-> "none"]
    /\ hooks' = {}
    /\ firing' = {}
    /\ cancelled' = {}
    /\ interrupted' = {}
    /\ todo' = {}
    /\ stopping' = None
    /\ UNCHANGED eventVars

\* ... and waits for the threads.
Exit ==
    /\ loop = "stopped"
    /\ Live = {}
    /\ disp # "orphan"
    /\ \A d \in Deliveries : th[d] = "none"
    /\ Forget
    /\ UNCHANGED <<restarts, operatorVars>>

\* A crash, or a SIGKILL when the grace period of the container is over.
Crash ==
    /\ loop # "down"
    /\ restarts < MaxRestarts
    /\ restarts' = restarts + 1
    /\ Forget
    /\ UNCHANGED operatorVars

\* start(): slots and caches are swept, then the running rows are queued.
Boot ==
    /\ loop = "down"
    /\ loop' = "up"
    /\ disp' = "idle"
    /\ ResetStuckRunning
    /\ UNCHANGED <<grabbed, inflight, taskVars, threadVars, markVars, todo, stopping, restarts, operatorVars>>

-----------------------------------------------------------------------------
Next ==
    \/ \E d \in Deliveries :
        \/ Webhook(d) \/ Replay(d) \/ StartTriage(d) \/ EndTriage(d) \/ Due(d)
        \/ Claim(d) \/ Dispatch(d) \/ Bounce(d)
        \/ \E s \in Slots : AcquireSlot(d, s)
        \/ StartThread(d) \/ EndEarly(d) \/ EndRun(d) \/ EndCancelled(d)
        \/ Reclaim(d) \/ Release(d)
        \/ Spawn(d) \/ CheckMark(d) \/ Arm(d) \/ AgentEnds(d) \/ ThreadDropped(d)
        \/ Cancel(d) \/ FireHook(d)
        \/ Interrupt(d) \/ CancelLeft(d)
    \/ OrphanClaim \/ Stop \/ DrainDone \/ DrainTimeout \/ KillDone
    \/ Exit \/ Crash \/ Boot

Spec == Init /\ [][Next]_vars

TaskStep(d) ==
    \/ \E s \in Slots : AcquireSlot(d, s)
    \/ StartThread(d) \/ EndEarly(d) \/ EndRun(d) \/ EndCancelled(d) \/ Reclaim(d)

ThreadStep(d) ==
    Spawn(d) \/ CheckMark(d) \/ Arm(d) \/ AgentEnds(d) \/ ThreadDropped(d)

DispatcherStep ==
    \/ \E d \in Deliveries : Claim(d) \/ Dispatch(d) \/ Bounce(d)
    \/ OrphanClaim

StopStep ==
    \/ \E d \in Deliveries : Interrupt(d) \/ CancelLeft(d)
    \/ DrainDone \/ DrainTimeout \/ KillDone \/ Exit \/ Boot

\* The steps the process takes by itself: webhooks, operators, shutdowns and
\* crashes owe nothing.  A lost wakeup costs the dispatcher ten seconds; an
\* agent ends at its hard timeout; a process that is down is started again by
\* its supervisor.  _release gets the lock although the dispatcher takes it
\* again and again, because asyncio.Lock serves its waiters in turn.
Fairness ==
    /\ \A d \in Deliveries :
        /\ WF_vars(Due(d))
        /\ WF_vars(TaskStep(d))
        /\ SF_vars(Release(d))
        /\ WF_vars(ThreadStep(d))
        /\ WF_vars(FireHook(d))
    /\ WF_vars(DispatcherStep)
    /\ WF_vars(StopStep)

FairSpec == Spec /\ Fairness

-----------------------------------------------------------------------------
(* Properties.                                                             *)

\* Something that may touch the workspace of d is alive: its task, up to the
\* release of the key, or a thread whose task was cancelled.
Active(d) == pc[d] # "none" \/ th[d] # "none"

\* No two deliveries of an issue are worked on at once, the deletion of the
\* caches after a run and the threads of cancelled tasks included, and a row
\* the dispatcher is about to start finds its issue at rest.  The rows alone
\* do not give this: a row leaves "running" before its task is over.
WorkspaceIsOwn ==
    /\ \A d, e \in Deliveries :
        d # e /\ Active(d) /\ Active(e) => Key(d) # Key(e)
    /\ disp = "claimed" /\ ~IsInflight(grabbed) =>
        \A d \in Deliveries : Key(d) = Key(grabbed) => ~Active(d)

\* Until stop() interrupts tasks, a slot uid has one holder, a thread runs
\* under a slot its task holds, and no slot is lost.
SlotIsOwn ==
    loop \in {"up", "drain"} =>
        /\ \A d, e \in Deliveries : d # e /\ slot[d] # None => slot[d] # slot[e]
        /\ \A d \in Deliveries : slot[d] \notin free
        /\ \A d \in Deliveries : th[d] # "none" => slot[d] # None
        /\ \A s \in Slots : s \in free \/ \E d \in Deliveries : slot[d] = s

\* The row of a task is running until the task itself ends the run, and while
\* the server is up no row is running without a task or the dispatcher.
RowIsHeld ==
    /\ \A d \in Deliveries : pc[d] \in InRun => row[d] = "running"
    /\ loop = "up" =>
        \A d \in Deliveries : row[d] = "running" => pc[d] \in InRun \/ grabbed = d

\* The mark of a cancellation never outlives the run it was meant for: a row
\* that is over carries none into its replay.
MarksDie == \A d \in cancelled : row[d] \in {"queued", "running"}

\* A run that was cancelled ends in "failed", not done and not retried, unless
\* the process goes down first or stop() interrupts that run.
CancelIsFinal ==
    [][\A d \in cancelled :
        \/ d \in cancelled'
        \/ d \in interrupted
        \/ loop' = "down"
        \/ row'[d] = "failed"]_vars

\* A run that stop() interrupted, and no operator cancelled, is not failed and
\* spends no retry: it is finished, or waits as it is for the next start.
ShutdownKeepsWork ==
    [][\A d \in interrupted \ cancelled :
        row[d] = "running" => row'[d] \in {"running", "done"}]_vars

\* What the queue promises, without its tasks and threads: see AgentPromise.
\* A workspace is in use while something of its event is alive, and an operator
\* who asked for a cancellation is owed it until stop() interrupts the run.
Promise == INSTANCE AgentPromise WITH
    Issue <- [d \in Deliveries |-> Key(d)],
    state <- row,
    site <- {d \in Deliveries : Active(d)},
    asked <- cancelled \ interrupted,
    service <- IF loop = "up" THEN "open" ELSE "closed"

\* The queue implements its promise: rows, tasks, threads and marks agree with
\* one account of who works where, over bounces, cancellations and shutdowns.
KeepsPromise == Promise!Spec

\* Every queued event settles, over bounces, retries, shutdowns and crashes.
QueuedSettles == \A d \in Deliveries : row[d] = "queued" ~> row[d] \in Inactive

\* What the docstring of cancel_event says: a hook that is armed after the
\* request observes it.
LateHookObserves == cancelled \intersect hooks = {}
=============================================================================
