-------------------------- MODULE AgentQueueProofs --------------------------
(***************************************************************************)
(* Theorems about AgentQueue, for every number of deliveries, issues and   *)
(* slots, and every bound.                                                 *)
(*                                                                         *)
(* The inductive invariant is built in layers, each preserved under the    *)
(* ones before it:                                                         *)
(*                                                                         *)
(*   TypeOK     the types;                                                 *)
(*   Phased     what may still be alive in each phase of stop();           *)
(*   Exclusive  the keys in flight cover the live tasks, one per key;      *)
(*   Held       which rows are running, and for whom;                      *)
(*   Slotted    where every slot is.                                       *)
(***************************************************************************)
EXTENDS AgentQueue, TLAPS

\* Until stop() interrupts tasks, every thread has a task that waits for it
\* and no task is cancelled; afterwards every task that is in its run is one
\* that stop() has interrupted or is going to; nothing is alive in a process
\* that is down.
Phased ==
    /\ disp \in {"idle", "claimed"} <=> loop = "up"
    /\ IF disp = "claimed" THEN grabbed \in Deliveries ELSE grabbed = None
    /\ loop \in {"up", "drain"} => \A d \in Deliveries :
            /\ th[d] # "none" => pc[d] = "thread"
            /\ pc[d] # "cancelled"
    /\ loop \in {"up", "drain", "down"} => interrupted = {}
    /\ \A d \in Deliveries : pc[d] = "cancelled" => d \in interrupted
    /\ loop \in {"kill", "stopped"} =>
            \A d \in Deliveries : pc[d] \in InRun => d \in interrupted \union todo
    /\ loop # "kill" => todo = {}
    /\ loop = "down" => cancelled = {} /\ \A d \in Deliveries : ~Active(d)

Exclusive ==
    /\ \A d \in Deliveries : pc[d] # "none" => Key(d) \in inflight
    /\ \A d, e \in Deliveries : d # e /\ Active(d) /\ Active(e) => Key(d) # Key(e)

Held ==
    /\ RowIsHeld
    /\ MarksDie
    /\ disp = "claimed" => row[grabbed] = "running" /\ pc[grabbed] \notin InRun

\* A slot is free or held by one task, and a task in its run has one.
Slotted ==
    /\ \A d \in Deliveries :
        /\ slot[d] \notin free
        /\ pc[d] \in {"prepare", "thread"} => slot[d] # None
        /\ slot[d] # None => pc[d] \in {"prepare", "thread", "cancelled"}
    /\ \A d, e \in Deliveries : d # e /\ slot[d] # None => slot[d] # slot[e]
    /\ \A s \in Slots : s \in free \/ \E d \in Deliveries : slot[d] = s

IInv == TypeOK /\ Phased /\ Exclusive /\ Held /\ Slotted

-----------------------------------------------------------------------------
(* Types.                                                                  *)

USE DEF eventVars, dispVars, taskVars, threadVars, markVars, stopVars, operatorVars

LEMMA TypedInit == Init => TypeOK
  BY QueueAssumption, EventsAssumption
  DEF Init, EventsInit, TypeOK, EventsTypeOK, RowStates, AttemptCount

\* No step of the pool leaves the types.
LEMMA TypedStep ==
    ASSUME TypeOK, [Next]_vars
    PROVE  TypeOK'
  <1>1. ASSUME NEW d \in Deliveries, Webhook(d) PROVE TypeOK'
    <2>1. EventsTypeOK'
      BY ZenonT(60), <1>1
      DEF Webhook, RecordEvent, EventsTypeOK,
          RowStates, Inactive, AttemptCount, TypeOK
    <2> QED
      BY <1>1, <2>1, QueueAssumption
      DEF Webhook, TypeOK
  <1>2. ASSUME NEW d \in Deliveries, Replay(d) PROVE TypeOK'
    BY <1>2, QueueAssumption
        DEF Replay, RequeueEvent, RowStates, Inactive, TypeOK, EventsTypeOK
  <1>3. ASSUME NEW d \in Deliveries, StartTriage(d) PROVE TypeOK'
    BY <1>3, QueueAssumption
        DEF StartTriage, TypeOK, EventsTypeOK
  <1>4. ASSUME NEW d \in Deliveries, EndTriage(d) PROVE TypeOK'
    <2>1. 0 \in AttemptCount
      BY EventsAssumption DEF AttemptCount
    <2>2. ASSUME UNCHANGED eventVars PROVE EventsTypeOK'
      BY <2>2 DEF TypeOK, EventsTypeOK
    <2>3. ASSUME ReplaceEvent(d) PROVE EventsTypeOK'
      <3>1. "queued" \in RowStates
        BY DEF RowStates
      <3> QED
        BY <2>1, <2>3, <3>1 DEF ReplaceEvent, TypeOK, EventsTypeOK
    <2>4. EventsTypeOK'
      BY <1>4, <2>2, <2>3 DEF EndTriage
    <2> QED
      BY <1>4, <2>4, QueueAssumption
      DEF EndTriage, TypeOK
  <1>5. ASSUME NEW d \in Deliveries, Due(d) PROVE TypeOK'
    BY <1>5
        DEF Due, BecomeDue, TypeOK, EventsTypeOK
  <1>6. ASSUME NEW d \in Deliveries, Claim(d) PROVE TypeOK'
    BY <1>6, EventsAssumption
        DEF Claim, ClaimRow, Claimable, RowStates, Inactive, AttemptCount, TypeOK,
        EventsTypeOK
  <1>7. ASSUME NEW d \in Deliveries, Dispatch(d) PROVE TypeOK'
    BY <1>7
        DEF Dispatch, IsInflight, Keys, InRun, Ending, TypeOK, EventsTypeOK
  <1>8. ASSUME NEW d \in Deliveries, Bounce(d) PROVE TypeOK'
    BY <1>8
        DEF Bounce, RequeueEvent, RowStates, Inactive, TypeOK, EventsTypeOK
  <1>9. ASSUME NEW d \in Deliveries, NEW s \in Slots, AcquireSlot(d, s) PROVE TypeOK'
    BY <1>9
        DEF AcquireSlot, InRun, Ending, TypeOK, EventsTypeOK
  <1>10. ASSUME NEW d \in Deliveries, StartThread(d) PROVE TypeOK'
    BY <1>10
        DEF StartThread, InRun, Ending, ThreadStates, TypeOK, EventsTypeOK
  <1>11. ASSUME NEW d \in Deliveries, EndEarly(d) PROVE TypeOK'
    <2>1. EventsTypeOK'
      BY <1>11
      DEF EndEarly, Succeed, Fail, MarkEvent, ScheduleRetry, EventsTypeOK,
          RowStates, Inactive, AttemptCount, TypeOK
    <2> QED
      BY <1>11, <2>1, QueueAssumption
      DEF EndEarly, Finally, InRun, Ending, TypeOK
  <1>12. ASSUME NEW d \in Deliveries, EndRun(d) PROVE TypeOK'
    <2>1. EventsTypeOK'
      BY <1>12
      DEF EndRun, Succeed, Fail, MarkEvent, ScheduleRetry, EventsTypeOK,
          RowStates, Inactive, AttemptCount, TypeOK
    <2> QED
      BY <1>12, <2>1, QueueAssumption
      DEF EndRun, Finally, InRun, Ending, ThreadStates, TypeOK
  <1>13. ASSUME NEW d \in Deliveries, EndCancelled(d) PROVE TypeOK'
    BY <1>13
        DEF EndCancelled, Finally, InRun, Ending, TypeOK, EventsTypeOK
  <1>14. ASSUME NEW d \in Deliveries, Reclaim(d) PROVE TypeOK'
    BY <1>14
        DEF Reclaim, InRun, Ending, TypeOK, EventsTypeOK
  <1>15. ASSUME NEW d \in Deliveries, Release(d) PROVE TypeOK'
    BY <1>15
        DEF Release, InRun, Ending, TypeOK, EventsTypeOK
  <1>16. ASSUME NEW d \in Deliveries, Spawn(d) PROVE TypeOK'
    BY <1>16
        DEF Spawn, ThreadStates, TypeOK, EventsTypeOK
  <1>17. ASSUME NEW d \in Deliveries, CheckMark(d) PROVE TypeOK'
    BY <1>17
        DEF CheckMark, ThreadStates, TypeOK, EventsTypeOK
  <1>18. ASSUME NEW d \in Deliveries, Arm(d) PROVE TypeOK'
    BY <1>18
        DEF Arm, ThreadStates, TypeOK, EventsTypeOK
  <1>19. ASSUME NEW d \in Deliveries, AgentEnds(d) PROVE TypeOK'
    BY <1>19
        DEF AgentEnds, ThreadStates, TypeOK, EventsTypeOK
  <1>20. ASSUME NEW d \in Deliveries, ThreadDropped(d) PROVE TypeOK'
    BY <1>20
        DEF ThreadDropped, ThreadStates, TypeOK, EventsTypeOK
  <1>21. ASSUME NEW d \in Deliveries, Cancel(d) PROVE TypeOK'
    BY <1>21
        DEF Cancel, TypeOK, EventsTypeOK
  <1>22. ASSUME NEW d \in Deliveries, FireHook(d) PROVE TypeOK'
    BY <1>22
        DEF FireHook, ThreadStates, TypeOK, EventsTypeOK
  <1>23. ASSUME NEW d \in Deliveries, Interrupt(d) PROVE TypeOK'
    BY <1>23
        DEF Interrupt, CancelTask, InRun, Ending, TypeOK, EventsTypeOK
  <1>24. ASSUME NEW d \in Deliveries, CancelLeft(d) PROVE TypeOK'
    BY <1>24
        DEF CancelLeft, CancelTask, InRun, Ending, TypeOK, EventsTypeOK
  <1>25. CASE OrphanClaim
    BY <1>25, EventsAssumption
        DEF OrphanClaim, ClaimRow, Claimable, RowStates, Inactive, AttemptCount,
        TypeOK, EventsTypeOK
  <1>26. CASE Stop
    <2>1. EventsTypeOK'
      BY <1>26
      DEF Stop, RequeueEvent, EventsTypeOK,
          RowStates, Inactive, AttemptCount, TypeOK
    <2> QED
      BY <1>26, <2>1, QueueAssumption
      DEF Stop, TypeOK
  <1>27. CASE DrainDone
    BY <1>27
        DEF DrainDone, TypeOK, EventsTypeOK
  <1>28. CASE DrainTimeout
    BY <1>28
        DEF DrainTimeout, Live, TypeOK, EventsTypeOK
  <1>29. CASE KillDone
    BY <1>29
        DEF KillDone, TypeOK, EventsTypeOK
  <1>30. CASE Exit
    BY <1>30
        DEF Exit, Forget, Live, TypeOK, EventsTypeOK
  <1>31. CASE Crash
    BY <1>31, QueueAssumption
        DEF Crash, Forget, TypeOK, EventsTypeOK
  <1>32. CASE Boot
    <2>1. /\ row' \in [Deliveries -> RowStates]
          /\ due' \in [Deliveries -> BOOLEAN]
          /\ attempts' = attempts
      BY <1>32 DEF Boot, ResetStuckRunning, RowStates, TypeOK, EventsTypeOK
    <2>2. EventsTypeOK'
      BY <2>1 DEF TypeOK, EventsTypeOK
    <2> QED
      BY <1>32, <2>2
      DEF Boot, TypeOK
  <1>33. CASE UNCHANGED vars
    BY <1>33
        DEF vars, TypeOK, EventsTypeOK
  <1> QED
        BY <1>1, <1>2, <1>3, <1>4, <1>5, <1>6, <1>7, <1>8, <1>9, <1>10, <1>11, <1>12,
        <1>13, <1>14, <1>15, <1>16, <1>17, <1>18, <1>19, <1>20, <1>21, <1>22, <1>23,
        <1>24, <1>25, <1>26, <1>27, <1>28, <1>29, <1>30, <1>31, <1>32, <1>33 DEF Next

-----------------------------------------------------------------------------
(* Phases.                                                                 *)

\* No step starts what the phase of stop() forbids.
LEMMA PhasedStep ==
    ASSUME TypeOK, Phased, Exclusive, [Next]_vars
    PROVE  Phased'
  <1>1. ASSUME NEW d \in Deliveries, Webhook(d) PROVE Phased'
    BY <1>1
        DEF Webhook, RecordEvent, TypeOK, EventsTypeOK, Phased, Active, InRun
  <1>2. ASSUME NEW d \in Deliveries, Replay(d) PROVE Phased'
    BY <1>2
        DEF Replay, RequeueEvent, TypeOK, EventsTypeOK, Phased, Active, InRun
  <1>3. ASSUME NEW d \in Deliveries, StartTriage(d) PROVE Phased'
    BY <1>3
        DEF StartTriage, TypeOK, EventsTypeOK, Phased, Active, InRun
  <1>4. ASSUME NEW d \in Deliveries, EndTriage(d) PROVE Phased'
    BY <1>4
        DEF EndTriage, ReplaceEvent, TypeOK, EventsTypeOK, Phased, Active, InRun
  <1>5. ASSUME NEW d \in Deliveries, Due(d) PROVE Phased'
    BY <1>5
        DEF Due, BecomeDue, TypeOK, EventsTypeOK, Phased, Active, InRun
  <1>6. ASSUME NEW d \in Deliveries, Claim(d) PROVE Phased'
    BY <1>6
        DEF Claim, ClaimRow, Claimable, TypeOK, EventsTypeOK, Phased, Active, InRun
  <1>7. ASSUME NEW d \in Deliveries, Dispatch(d) PROVE Phased'
    BY <1>7
        DEF Dispatch, IsInflight, Exclusive, TypeOK, EventsTypeOK, Phased, Active,
        InRun
  <1>8. ASSUME NEW d \in Deliveries, Bounce(d) PROVE Phased'
    BY <1>8
        DEF Bounce, RequeueEvent, TypeOK, EventsTypeOK, Phased, Active, InRun
  <1>9. ASSUME NEW d \in Deliveries, NEW s \in Slots, AcquireSlot(d, s) PROVE Phased'
    BY <1>9
        DEF AcquireSlot, TypeOK, EventsTypeOK, Phased, Active, InRun
  <1>10. ASSUME NEW d \in Deliveries, StartThread(d) PROVE Phased'
    BY <1>10
        DEF StartThread, TypeOK, EventsTypeOK, Phased, Active, InRun
  <1>11. ASSUME NEW d \in Deliveries, EndEarly(d) PROVE Phased'
    BY <1>11
        DEF EndEarly, Succeed, Fail, Finally, MarkEvent, ScheduleRetry, TypeOK,
        EventsTypeOK, Phased, Active, InRun
  <1>12. ASSUME NEW d \in Deliveries, EndRun(d) PROVE Phased'
    BY <1>12
        DEF EndRun, Succeed, Fail, Finally, MarkEvent, ScheduleRetry, TypeOK,
        EventsTypeOK, Phased, Active, InRun
  <1>13. ASSUME NEW d \in Deliveries, EndCancelled(d) PROVE Phased'
    BY <1>13
        DEF EndCancelled, Finally, Ending, TypeOK, EventsTypeOK, Phased, Active, InRun
  <1>14. ASSUME NEW d \in Deliveries, Reclaim(d) PROVE Phased'
    BY <1>14
        DEF Reclaim, TypeOK, EventsTypeOK, Phased, Active, InRun
  <1>15. ASSUME NEW d \in Deliveries, Release(d) PROVE Phased'
    BY <1>15
        DEF Release, TypeOK, EventsTypeOK, Phased, Active, InRun
  <1>16. ASSUME NEW d \in Deliveries, Spawn(d) PROVE Phased'
    BY <1>16
        DEF Spawn, TypeOK, EventsTypeOK, Phased, Active, InRun
  <1>17. ASSUME NEW d \in Deliveries, CheckMark(d) PROVE Phased'
    BY <1>17
        DEF CheckMark, TypeOK, EventsTypeOK, Phased, Active, InRun
  <1>18. ASSUME NEW d \in Deliveries, Arm(d) PROVE Phased'
    BY <1>18
        DEF Arm, TypeOK, EventsTypeOK, Phased, Active, InRun
  <1>19. ASSUME NEW d \in Deliveries, AgentEnds(d) PROVE Phased'
    BY <1>19
        DEF AgentEnds, TypeOK, EventsTypeOK, Phased, Active, InRun
  <1>20. ASSUME NEW d \in Deliveries, ThreadDropped(d) PROVE Phased'
    BY <1>20
        DEF ThreadDropped, TypeOK, EventsTypeOK, Phased, Active, InRun
  <1>21. ASSUME NEW d \in Deliveries, Cancel(d) PROVE Phased'
    BY <1>21
        DEF Cancel, TypeOK, EventsTypeOK, Phased, Active, InRun
  <1>22. ASSUME NEW d \in Deliveries, FireHook(d) PROVE Phased'
    BY <1>22
        DEF FireHook, TypeOK, EventsTypeOK, Phased, Active, InRun
  <1>23. ASSUME NEW d \in Deliveries, Interrupt(d) PROVE Phased'
    BY <1>23
        DEF Interrupt, CancelTask, Ending, TypeOK, EventsTypeOK, Phased, Active, InRun
  <1>24. ASSUME NEW d \in Deliveries, CancelLeft(d) PROVE Phased'
    BY <1>24
        DEF CancelLeft, CancelTask, Ending, TypeOK, EventsTypeOK, Phased, Active,
        InRun
  <1>25. CASE OrphanClaim
    BY <1>25
        DEF OrphanClaim, ClaimRow, Claimable, TypeOK, EventsTypeOK, Phased, Active,
        InRun
  <1>26. CASE Stop
    BY <1>26
        DEF Stop, RequeueEvent, IsInflight, TypeOK, EventsTypeOK, Phased, Active,
        InRun
  <1>27. CASE DrainDone
    <2>1. \A d \in Deliveries : pc[d] = "none"
      BY <1>27 DEF DrainDone, Live
    <2> QED
      BY <1>27, <2>1 DEF DrainDone, TypeOK, Phased, Active, InRun
  <1>28. CASE DrainTimeout
    BY <1>28
        DEF DrainTimeout, Live, TypeOK, EventsTypeOK, Phased, Active, InRun
  <1>29. CASE KillDone
    BY <1>29
        DEF KillDone, TypeOK, EventsTypeOK, Phased, Active, InRun
  <1>30. CASE Exit
    BY <1>30
        DEF Exit, Forget, Live, TypeOK, EventsTypeOK, Phased, Active, InRun
  <1>31. CASE Crash
    BY <1>31
        DEF Crash, Forget, TypeOK, EventsTypeOK, Phased, Active, InRun
  <1>32. CASE Boot
    BY <1>32
        DEF Boot, ResetStuckRunning, TypeOK, EventsTypeOK, Phased, Active, InRun
  <1>33. CASE UNCHANGED vars
    BY <1>33
        DEF vars, TypeOK, EventsTypeOK, Phased, Active, InRun
  <1> QED
        BY <1>1, <1>2, <1>3, <1>4, <1>5, <1>6, <1>7, <1>8, <1>9, <1>10, <1>11, <1>12,
        <1>13, <1>14, <1>15, <1>16, <1>17, <1>18, <1>19, <1>20, <1>21, <1>22, <1>23,
        <1>24, <1>25, <1>26, <1>27, <1>28, <1>29, <1>30, <1>31, <1>32, <1>33 DEF Next

-----------------------------------------------------------------------------
(* Exclusion.                                                              *)

\* A new task finds its key at rest, and only the end of a task frees a key.
LEMMA ExclusiveStep ==
    ASSUME TypeOK, Phased, Exclusive, [Next]_vars
    PROVE  Exclusive'
  <1>1. ASSUME NEW d \in Deliveries, Webhook(d) PROVE Exclusive'
    BY <1>1
        DEF Webhook, RecordEvent, TypeOK, EventsTypeOK, Phased, Exclusive, Active
  <1>2. ASSUME NEW d \in Deliveries, Replay(d) PROVE Exclusive'
    BY <1>2
        DEF Replay, RequeueEvent, TypeOK, EventsTypeOK, Phased, Exclusive, Active
  <1>3. ASSUME NEW d \in Deliveries, StartTriage(d) PROVE Exclusive'
    BY <1>3
        DEF StartTriage, TypeOK, EventsTypeOK, Phased, Exclusive, Active
  <1>4. ASSUME NEW d \in Deliveries, EndTriage(d) PROVE Exclusive'
    BY <1>4
        DEF EndTriage, ReplaceEvent, TypeOK, EventsTypeOK, Phased, Exclusive, Active
  <1>5. ASSUME NEW d \in Deliveries, Due(d) PROVE Exclusive'
    BY <1>5
        DEF Due, BecomeDue, TypeOK, EventsTypeOK, Phased, Exclusive, Active
  <1>6. ASSUME NEW d \in Deliveries, Claim(d) PROVE Exclusive'
    BY <1>6
        DEF Claim, ClaimRow, Claimable, TypeOK, EventsTypeOK, Phased, Exclusive,
        Active
  <1>7. ASSUME NEW d \in Deliveries, Dispatch(d) PROVE Exclusive'
    BY <1>7
        DEF Dispatch, IsInflight, TypeOK, EventsTypeOK, Phased, Exclusive, Active
  <1>8. ASSUME NEW d \in Deliveries, Bounce(d) PROVE Exclusive'
    BY <1>8
        DEF Bounce, RequeueEvent, TypeOK, EventsTypeOK, Phased, Exclusive, Active
  <1>9. ASSUME NEW d \in Deliveries, NEW s \in Slots, AcquireSlot(d, s) PROVE Exclusive'
    BY <1>9
        DEF AcquireSlot, TypeOK, EventsTypeOK, Phased, Exclusive, Active
  <1>10. ASSUME NEW d \in Deliveries, StartThread(d) PROVE Exclusive'
    BY <1>10
        DEF StartThread, TypeOK, EventsTypeOK, Phased, Exclusive, Active
  <1>11. ASSUME NEW d \in Deliveries, EndEarly(d) PROVE Exclusive'
    BY <1>11
        DEF EndEarly, Succeed, Fail, Finally, MarkEvent, ScheduleRetry, TypeOK,
        EventsTypeOK, Phased, Exclusive, Active
  <1>12. ASSUME NEW d \in Deliveries, EndRun(d) PROVE Exclusive'
    BY <1>12
        DEF EndRun, Succeed, Fail, Finally, MarkEvent, ScheduleRetry, TypeOK,
        EventsTypeOK, Phased, Exclusive, Active
  <1>13. ASSUME NEW d \in Deliveries, EndCancelled(d) PROVE Exclusive'
    BY <1>13
        DEF EndCancelled, Finally, TypeOK, EventsTypeOK, Phased, Exclusive, Active
  <1>14. ASSUME NEW d \in Deliveries, Reclaim(d) PROVE Exclusive'
    BY <1>14
        DEF Reclaim, TypeOK, EventsTypeOK, Phased, Exclusive, Active
  <1>15. ASSUME NEW d \in Deliveries, Release(d) PROVE Exclusive'
    BY <1>15
        DEF Release, TypeOK, EventsTypeOK, Phased, Exclusive, Active
  <1>16. ASSUME NEW d \in Deliveries, Spawn(d) PROVE Exclusive'
    BY <1>16
        DEF Spawn, TypeOK, EventsTypeOK, Phased, Exclusive, Active
  <1>17. ASSUME NEW d \in Deliveries, CheckMark(d) PROVE Exclusive'
    BY <1>17
        DEF CheckMark, TypeOK, EventsTypeOK, Phased, Exclusive, Active
  <1>18. ASSUME NEW d \in Deliveries, Arm(d) PROVE Exclusive'
    BY <1>18
        DEF Arm, TypeOK, EventsTypeOK, Phased, Exclusive, Active
  <1>19. ASSUME NEW d \in Deliveries, AgentEnds(d) PROVE Exclusive'
    BY <1>19
        DEF AgentEnds, TypeOK, EventsTypeOK, Phased, Exclusive, Active
  <1>20. ASSUME NEW d \in Deliveries, ThreadDropped(d) PROVE Exclusive'
    BY <1>20
        DEF ThreadDropped, TypeOK, EventsTypeOK, Phased, Exclusive, Active
  <1>21. ASSUME NEW d \in Deliveries, Cancel(d) PROVE Exclusive'
    BY <1>21
        DEF Cancel, TypeOK, EventsTypeOK, Phased, Exclusive, Active
  <1>22. ASSUME NEW d \in Deliveries, FireHook(d) PROVE Exclusive'
    BY <1>22
        DEF FireHook, TypeOK, EventsTypeOK, Phased, Exclusive, Active
  <1>23. ASSUME NEW d \in Deliveries, Interrupt(d) PROVE Exclusive'
    BY <1>23
        DEF Interrupt, CancelTask, TypeOK, EventsTypeOK, Phased, Exclusive, Active
  <1>24. ASSUME NEW d \in Deliveries, CancelLeft(d) PROVE Exclusive'
    BY <1>24
        DEF CancelLeft, CancelTask, TypeOK, EventsTypeOK, Phased, Exclusive, Active
  <1>25. CASE OrphanClaim
    BY <1>25
        DEF OrphanClaim, ClaimRow, Claimable, TypeOK, EventsTypeOK, Phased, Exclusive,
        Active
  <1>26. CASE Stop
    BY <1>26
        DEF Stop, RequeueEvent, IsInflight, TypeOK, EventsTypeOK, Phased, Exclusive,
        Active
  <1>27. CASE DrainDone
    BY <1>27
        DEF DrainDone, TypeOK, EventsTypeOK, Phased, Exclusive, Active
  <1>28. CASE DrainTimeout
    BY <1>28
        DEF DrainTimeout, Live, TypeOK, EventsTypeOK, Phased, Exclusive, Active
  <1>29. CASE KillDone
    BY <1>29
        DEF KillDone, TypeOK, EventsTypeOK, Phased, Exclusive, Active
  <1>30. CASE Exit
    BY <1>30
        DEF Exit, Forget, Live, TypeOK, EventsTypeOK, Phased, Exclusive, Active
  <1>31. CASE Crash
    BY <1>31
        DEF Crash, Forget, TypeOK, EventsTypeOK, Phased, Exclusive, Active
  <1>32. CASE Boot
    BY <1>32
        DEF Boot, ResetStuckRunning, TypeOK, EventsTypeOK, Phased, Exclusive, Active
  <1>33. CASE UNCHANGED vars
    BY <1>33
        DEF vars, TypeOK, EventsTypeOK, Phased, Exclusive, Active
  <1> QED
        BY <1>1, <1>2, <1>3, <1>4, <1>5, <1>6, <1>7, <1>8, <1>9, <1>10, <1>11, <1>12,
        <1>13, <1>14, <1>15, <1>16, <1>17, <1>18, <1>19, <1>20, <1>21, <1>22, <1>23,
        <1>24, <1>25, <1>26, <1>27, <1>28, <1>29, <1>30, <1>31, <1>32, <1>33 DEF Next

-----------------------------------------------------------------------------
(* Rows and marks.                                                         *)

\* Rows, tasks and marks change together.
LEMMA HeldStep ==
    ASSUME TypeOK, Phased, Held, [Next]_vars
    PROVE  Held'
  <1>1. ASSUME NEW d \in Deliveries, Webhook(d) PROVE Held'
    BY <1>1
        DEF Webhook, RecordEvent, TypeOK, EventsTypeOK, Phased, Held, RowIsHeld,
        MarksDie, InRun
  <1>2. ASSUME NEW d \in Deliveries, Replay(d) PROVE Held'
    BY <1>2
        DEF Replay, RequeueEvent, Inactive, TypeOK, EventsTypeOK, Phased, Held,
        RowIsHeld, MarksDie, InRun
  <1>3. ASSUME NEW d \in Deliveries, StartTriage(d) PROVE Held'
    BY <1>3
        DEF StartTriage, TypeOK, EventsTypeOK, Phased, Held, RowIsHeld, MarksDie,
        InRun
  <1>4. ASSUME NEW d \in Deliveries, EndTriage(d) PROVE Held'
    BY <1>4
        DEF EndTriage, ReplaceEvent, Inactive, TypeOK, EventsTypeOK, Phased, Held,
        RowIsHeld, MarksDie, InRun
  <1>5. ASSUME NEW d \in Deliveries, Due(d) PROVE Held'
    BY <1>5
        DEF Due, BecomeDue, TypeOK, EventsTypeOK, Phased, Held, RowIsHeld, MarksDie,
        InRun
  <1>6. ASSUME NEW d \in Deliveries, Claim(d) PROVE Held'
    <2>1. row[d] = "queued" /\ row' = [row EXCEPT ![d] = "running"]
      BY <1>6 DEF Claim, ClaimRow, Claimable
    <2> QED
      BY <1>6, <2>1, EventsAssumption
      DEF Claim, TypeOK, EventsTypeOK, Phased, Held, RowIsHeld, MarksDie, InRun
  <1>7. ASSUME NEW d \in Deliveries, Dispatch(d) PROVE Held'
    BY <1>7
        DEF Dispatch, IsInflight, TypeOK, EventsTypeOK, Phased, Held, RowIsHeld,
        MarksDie, InRun
  <1>8. ASSUME NEW d \in Deliveries, Bounce(d) PROVE Held'
    BY <1>8
        DEF Bounce, RequeueEvent, TypeOK, EventsTypeOK, Phased, Held, RowIsHeld,
        MarksDie, InRun
  <1>9. ASSUME NEW d \in Deliveries, NEW s \in Slots, AcquireSlot(d, s) PROVE Held'
    BY <1>9
        DEF AcquireSlot, TypeOK, EventsTypeOK, Phased, Held, RowIsHeld, MarksDie,
        InRun
  <1>10. ASSUME NEW d \in Deliveries, StartThread(d) PROVE Held'
    BY <1>10
        DEF StartThread, TypeOK, EventsTypeOK, Phased, Held, RowIsHeld, MarksDie,
        InRun
  <1>11. ASSUME NEW d \in Deliveries, EndEarly(d) PROVE Held'
    BY <1>11
        DEF EndEarly, Succeed, Fail, Finally, MarkEvent, ScheduleRetry, TypeOK,
        EventsTypeOK, Phased, Held, RowIsHeld, MarksDie, InRun
  <1>12. ASSUME NEW d \in Deliveries, EndRun(d) PROVE Held'
    BY <1>12
        DEF EndRun, Succeed, Fail, Finally, MarkEvent, ScheduleRetry, TypeOK,
        EventsTypeOK, Phased, Held, RowIsHeld, MarksDie, InRun
  <1>13. ASSUME NEW d \in Deliveries, EndCancelled(d) PROVE Held'
    BY <1>13
        DEF EndCancelled, Finally, TypeOK, EventsTypeOK, Phased, Held, RowIsHeld,
        MarksDie, InRun
  <1>14. ASSUME NEW d \in Deliveries, Reclaim(d) PROVE Held'
    BY <1>14
        DEF Reclaim, TypeOK, EventsTypeOK, Phased, Held, RowIsHeld, MarksDie, InRun
  <1>15. ASSUME NEW d \in Deliveries, Release(d) PROVE Held'
    BY <1>15
        DEF Release, TypeOK, EventsTypeOK, Phased, Held, RowIsHeld, MarksDie, InRun
  <1>16. ASSUME NEW d \in Deliveries, Spawn(d) PROVE Held'
    BY <1>16
        DEF Spawn, TypeOK, EventsTypeOK, Phased, Held, RowIsHeld, MarksDie, InRun
  <1>17. ASSUME NEW d \in Deliveries, CheckMark(d) PROVE Held'
    BY <1>17
        DEF CheckMark, TypeOK, EventsTypeOK, Phased, Held, RowIsHeld, MarksDie, InRun
  <1>18. ASSUME NEW d \in Deliveries, Arm(d) PROVE Held'
    BY <1>18
        DEF Arm, TypeOK, EventsTypeOK, Phased, Held, RowIsHeld, MarksDie, InRun
  <1>19. ASSUME NEW d \in Deliveries, AgentEnds(d) PROVE Held'
    BY <1>19
        DEF AgentEnds, TypeOK, EventsTypeOK, Phased, Held, RowIsHeld, MarksDie, InRun
  <1>20. ASSUME NEW d \in Deliveries, ThreadDropped(d) PROVE Held'
    BY <1>20
        DEF ThreadDropped, TypeOK, EventsTypeOK, Phased, Held, RowIsHeld, MarksDie,
        InRun
  <1>21. ASSUME NEW d \in Deliveries, Cancel(d) PROVE Held'
    BY <1>21
        DEF Cancel, TypeOK, EventsTypeOK, Phased, Held, RowIsHeld, MarksDie, InRun
  <1>22. ASSUME NEW d \in Deliveries, FireHook(d) PROVE Held'
    BY <1>22
        DEF FireHook, TypeOK, EventsTypeOK, Phased, Held, RowIsHeld, MarksDie, InRun
  <1>23. ASSUME NEW d \in Deliveries, Interrupt(d) PROVE Held'
    BY <1>23
        DEF Interrupt, CancelTask, Ending, TypeOK, EventsTypeOK, Phased, Held,
        RowIsHeld, MarksDie, InRun
  <1>24. ASSUME NEW d \in Deliveries, CancelLeft(d) PROVE Held'
    BY <1>24
        DEF CancelLeft, CancelTask, Ending, TypeOK, EventsTypeOK, Phased, Held,
        RowIsHeld, MarksDie, InRun
  <1>25. CASE OrphanClaim
    <2>1. \/ row' = row
          \/ \E d \in Deliveries :
                row[d] = "queued" /\ row' = [row EXCEPT ![d] = "running"]
      BY <1>25 DEF OrphanClaim, ClaimRow, Claimable
    <2> QED
      BY <1>25, <2>1
      DEF OrphanClaim, TypeOK, EventsTypeOK, Phased, Held, RowIsHeld, MarksDie,
          InRun
  <1>26. CASE Stop
    BY <1>26
        DEF Stop, RequeueEvent, IsInflight, TypeOK, EventsTypeOK, Phased, Held,
        RowIsHeld, MarksDie, InRun
  <1>27. CASE DrainDone
    BY <1>27
        DEF DrainDone, TypeOK, EventsTypeOK, Phased, Held, RowIsHeld, MarksDie, InRun
  <1>28. CASE DrainTimeout
    BY <1>28
        DEF DrainTimeout, Live, TypeOK, EventsTypeOK, Phased, Held, RowIsHeld,
        MarksDie, InRun
  <1>29. CASE KillDone
    BY <1>29
        DEF KillDone, TypeOK, EventsTypeOK, Phased, Held, RowIsHeld, MarksDie, InRun
  <1>30. CASE Exit
    BY <1>30
        DEF Exit, Forget, Live, Active, TypeOK, EventsTypeOK, Phased, Held, RowIsHeld,
        MarksDie, InRun
  <1>31. CASE Crash
    BY <1>31
        DEF Crash, Forget, Active, TypeOK, EventsTypeOK, Phased, Held, RowIsHeld,
        MarksDie, InRun
  <1>32. CASE Boot
    BY <1>32
        DEF Boot, ResetStuckRunning, Active, TypeOK, EventsTypeOK, Phased, Held,
        RowIsHeld, MarksDie, InRun
  <1>33. CASE UNCHANGED vars
    BY <1>33
        DEF vars, TypeOK, EventsTypeOK, Phased, Held, RowIsHeld, MarksDie, InRun
  <1> QED
        BY <1>1, <1>2, <1>3, <1>4, <1>5, <1>6, <1>7, <1>8, <1>9, <1>10, <1>11, <1>12,
        <1>13, <1>14, <1>15, <1>16, <1>17, <1>18, <1>19, <1>20, <1>21, <1>22, <1>23,
        <1>24, <1>25, <1>26, <1>27, <1>28, <1>29, <1>30, <1>31, <1>32, <1>33 DEF Next

-----------------------------------------------------------------------------
(* Slots.                                                                  *)

\* A slot goes from the pool to one task and back.
LEMMA SlottedStep ==
    ASSUME TypeOK, Phased, Exclusive, Slotted, [Next]_vars
    PROVE  Slotted'
  <1>1. ASSUME NEW d \in Deliveries, Webhook(d) PROVE Slotted'
    BY <1>1
        DEF Webhook, RecordEvent, TypeOK, Slotted
  <1>2. ASSUME NEW d \in Deliveries, Replay(d) PROVE Slotted'
    BY <1>2
        DEF Replay, RequeueEvent, TypeOK, Slotted
  <1>3. ASSUME NEW d \in Deliveries, StartTriage(d) PROVE Slotted'
    BY <1>3
        DEF StartTriage, TypeOK, Slotted
  <1>4. ASSUME NEW d \in Deliveries, EndTriage(d) PROVE Slotted'
    BY <1>4
        DEF EndTriage, ReplaceEvent, TypeOK, Slotted
  <1>5. ASSUME NEW d \in Deliveries, Due(d) PROVE Slotted'
    BY <1>5
        DEF Due, BecomeDue, TypeOK, Slotted
  <1>6. ASSUME NEW d \in Deliveries, Claim(d) PROVE Slotted'
    BY <1>6
        DEF Claim, ClaimRow, Claimable, TypeOK, Slotted
  <1>7. ASSUME NEW d \in Deliveries, Dispatch(d) PROVE Slotted'
    BY <1>7
        DEF Dispatch, IsInflight, Exclusive, TypeOK, Slotted
  <1>8. ASSUME NEW d \in Deliveries, Bounce(d) PROVE Slotted'
    BY <1>8
        DEF Bounce, RequeueEvent, TypeOK, Slotted
  <1>9. ASSUME NEW d \in Deliveries, NEW s \in Slots, AcquireSlot(d, s) PROVE Slotted'
    BY <1>9, QueueAssumption
        DEF AcquireSlot, TypeOK, Slotted
  <1>10. ASSUME NEW d \in Deliveries, StartThread(d) PROVE Slotted'
    BY <1>10
        DEF StartThread, TypeOK, Slotted
  <1>11. ASSUME NEW d \in Deliveries, EndEarly(d) PROVE Slotted'
    BY <1>11, QueueAssumption
        DEF EndEarly, Succeed, Fail, Finally, MarkEvent, ScheduleRetry, TypeOK,
        Slotted
  <1>12. ASSUME NEW d \in Deliveries, EndRun(d) PROVE Slotted'
    BY <1>12, QueueAssumption
        DEF EndRun, Succeed, Fail, Finally, MarkEvent, ScheduleRetry, TypeOK, Slotted
  <1>13. ASSUME NEW d \in Deliveries, EndCancelled(d) PROVE Slotted'
    BY <1>13, QueueAssumption
        DEF EndCancelled, Finally, TypeOK, Slotted
  <1>14. ASSUME NEW d \in Deliveries, Reclaim(d) PROVE Slotted'
    BY <1>14
        DEF Reclaim, TypeOK, Slotted
  <1>15. ASSUME NEW d \in Deliveries, Release(d) PROVE Slotted'
    BY <1>15
        DEF Release, TypeOK, Slotted
  <1>16. ASSUME NEW d \in Deliveries, Spawn(d) PROVE Slotted'
    BY <1>16
        DEF Spawn, TypeOK, Slotted
  <1>17. ASSUME NEW d \in Deliveries, CheckMark(d) PROVE Slotted'
    BY <1>17
        DEF CheckMark, TypeOK, Slotted
  <1>18. ASSUME NEW d \in Deliveries, Arm(d) PROVE Slotted'
    BY <1>18
        DEF Arm, TypeOK, Slotted
  <1>19. ASSUME NEW d \in Deliveries, AgentEnds(d) PROVE Slotted'
    BY <1>19
        DEF AgentEnds, TypeOK, Slotted
  <1>20. ASSUME NEW d \in Deliveries, ThreadDropped(d) PROVE Slotted'
    BY <1>20
        DEF ThreadDropped, TypeOK, Slotted
  <1>21. ASSUME NEW d \in Deliveries, Cancel(d) PROVE Slotted'
    BY <1>21
        DEF Cancel, TypeOK, Slotted
  <1>22. ASSUME NEW d \in Deliveries, FireHook(d) PROVE Slotted'
    BY <1>22
        DEF FireHook, TypeOK, Slotted
  <1>23. ASSUME NEW d \in Deliveries, Interrupt(d) PROVE Slotted'
    BY <1>23
        DEF Interrupt, CancelTask, InRun, Ending, TypeOK, Slotted
  <1>24. ASSUME NEW d \in Deliveries, CancelLeft(d) PROVE Slotted'
    BY <1>24
        DEF CancelLeft, CancelTask, InRun, Ending, TypeOK, Slotted
  <1>25. CASE OrphanClaim
    BY <1>25
        DEF OrphanClaim, ClaimRow, Claimable, TypeOK, Slotted
  <1>26. CASE Stop
    BY <1>26
        DEF Stop, RequeueEvent, IsInflight, TypeOK, Slotted
  <1>27. CASE DrainDone
    BY <1>27
        DEF DrainDone, TypeOK, Slotted
  <1>28. CASE DrainTimeout
    BY <1>28
        DEF DrainTimeout, Live, TypeOK, Slotted
  <1>29. CASE KillDone
    BY <1>29
        DEF KillDone, TypeOK, Slotted
  <1>30. CASE Exit
    BY <1>30, QueueAssumption
        DEF Exit, Forget, Live, TypeOK, Slotted
  <1>31. CASE Crash
    BY <1>31, QueueAssumption
        DEF Crash, Forget, TypeOK, Slotted
  <1>32. CASE Boot
    BY <1>32
        DEF Boot, ResetStuckRunning, TypeOK, Slotted
  <1>33. CASE UNCHANGED vars
    BY <1>33
        DEF vars, TypeOK, Slotted
  <1> QED
        BY <1>1, <1>2, <1>3, <1>4, <1>5, <1>6, <1>7, <1>8, <1>9, <1>10, <1>11, <1>12,
        <1>13, <1>14, <1>15, <1>16, <1>17, <1>18, <1>19, <1>20, <1>21, <1>22, <1>23,
        <1>24, <1>25, <1>26, <1>27, <1>28, <1>29, <1>30, <1>31, <1>32, <1>33 DEF Next

-----------------------------------------------------------------------------
(* The invariant.                                                          *)

LEMMA InvariantInit == Init => IInv
  <1> SUFFICES ASSUME Init PROVE IInv
    OBVIOUS
  <1>1. TypeOK
    BY TypedInit
  <1>2. Phased /\ Exclusive
    BY DEF Init, Phased, Exclusive, Active
  <1>3. Held
    BY DEF Init, EventsInit, Held, RowIsHeld, MarksDie, InRun
  <1>4. Slotted
    BY QueueAssumption DEF Init, Slotted
  <1> QED
    BY <1>1, <1>2, <1>3, <1>4 DEF IInv

LEMMA InvariantHolds == Spec => []IInv
  <1>1. IInv /\ [Next]_vars => IInv'
    BY TypedStep, PhasedStep, ExclusiveStep, HeldStep, SlottedStep DEF IInv
  <1> QED
    BY InvariantInit, <1>1, PTL DEF Spec

\* The variables of the pool have their types: no slot but a uid of the pool
\* is ever put back, in whatever place a task is cancelled.
THEOREM AgentTypeCorrect == Spec => []TypeOK
  <1>1. IInv => TypeOK
    BY DEF IInv
  <1> QED
    BY InvariantHolds, <1>1, PTL

\* One delivery of an issue is worked on at a time: _inflight guards the
\* workspace over the end of a run, the cancellation of tasks and shutdown.
THEOREM OneRunPerIssue == Spec => []WorkspaceIsOwn
  <1>1. IInv => WorkspaceIsOwn
    <2> SUFFICES ASSUME IInv PROVE WorkspaceIsOwn
      OBVIOUS
    <2>1. \A d, e \in Deliveries :
             d # e /\ Active(d) /\ Active(e) => Key(d) # Key(e)
      BY DEF IInv, Exclusive
    <2>2. ASSUME disp = "claimed", ~IsInflight(grabbed),
                 NEW d \in Deliveries, Key(d) = Key(grabbed)
          PROVE  ~Active(d)
      <3>1. pc[d] = "none"
        BY <2>2 DEF IInv, Exclusive, IsInflight
      <3>2. th[d] = "none"
        BY <2>2, <3>1 DEF IInv, Phased
      <3> QED
        BY <3>1, <3>2 DEF Active
    <2> QED
      BY <2>1, <2>2 DEF WorkspaceIsOwn
  <1> QED
    BY InvariantHolds, <1>1, PTL

\* Until stop() interrupts tasks, a slot uid has one holder and none is lost.
THEOREM OneHolderPerSlot == Spec => []SlotIsOwn
  <1>1. IInv => SlotIsOwn
    BY DEF IInv, Slotted, Phased, SlotIsOwn
  <1> QED
    BY InvariantHolds, <1>1, PTL

\* A running row has its task, or the dispatcher, for as long as the server is
\* up, and a task its running row.
THEOREM NoRowIsLost == Spec => []RowIsHeld
  <1>1. IInv => RowIsHeld
    BY DEF IInv, Held
  <1> QED
    BY InvariantHolds, <1>1, PTL

\* The mark of a cancellation dies with the run it was meant for.
THEOREM NoLateCancellation == Spec => []MarksDie
  <1>1. IInv => MarksDie
    BY DEF IInv, Held
  <1> QED
    BY InvariantHolds, <1>1, PTL

\* A run that was cancelled ends in "failed", unless the process goes down
\* first or stop() interrupts it: no mark is dropped on any other way.
THEOREM CancelledRunsFail == Spec => CancelIsFinal
  <1> DEFINE Final == \A d \in cancelled :
        d \in cancelled' \/ d \in interrupted \/ loop' = "down" \/ row'[d] = "failed"
  <1>1. ASSUME IInv, [Next]_vars PROVE Final
    <2> USE <1>1 DEF IInv, TypeOK, EventsTypeOK
    <2>1. CASE cancelled \subseteq cancelled'
      BY <2>1
    <2>2. CASE Exit \/ Crash
      BY <2>2 DEF Exit, Crash, Forget
    <2>3. ASSUME NEW d \in Deliveries, EndEarly(d) \/ EndRun(d) PROVE Final
      BY <2>3 DEF EndEarly, EndRun, Succeed, Fail, Finally, MarkEvent, ScheduleRetry
    <2>4. ASSUME NEW d \in Deliveries, EndCancelled(d) PROVE Final
      BY <2>4 DEF EndCancelled, Finally, Phased
    <2>5. \/ cancelled \subseteq cancelled'
          \/ Exit \/ Crash
          \/ \E d \in Deliveries : EndEarly(d) \/ EndRun(d) \/ EndCancelled(d)
      BY DEF Next, vars, Webhook, Replay, StartTriage, EndTriage, Due, Claim, Dispatch,
             Bounce, AcquireSlot, StartThread, Reclaim, Release, Spawn, CheckMark, Arm,
             AgentEnds, ThreadDropped, Cancel, FireHook, Interrupt, CancelLeft,
             OrphanClaim, Stop, DrainDone, DrainTimeout, KillDone, Boot
    <2> QED
      BY <2>1, <2>2, <2>3, <2>4, <2>5
  <1>2. IInv /\ [Next]_vars =>
          [\A d \in cancelled :
             \/ d \in cancelled'
             \/ d \in interrupted
             \/ loop' = "down"
             \/ row'[d] = "failed"]_vars
    BY <1>1
  <1> QED
    BY <1>2, InvariantHolds, PTL DEF Spec, CancelIsFinal

\* A run that stop() interrupted is not failed and spends no retry.
THEOREM ShutdownFailsNothing == Spec => ShutdownKeepsWork
  <1> DEFINE Kept == \A d \in interrupted \ cancelled :
        row[d] = "running" => row'[d] \in {"running", "done"}
  <1>1. ASSUME IInv, [Next]_vars PROVE Kept
    <2> USE <1>1 DEF IInv, TypeOK, EventsTypeOK
    <2>1. CASE row' = row
      BY <2>1
    <2>2. CASE loop \in {"up", "down"}
      BY <2>2 DEF Phased
    <2>3. ASSUME NEW d \in Deliveries, Replay(d) \/ EndTriage(d) PROVE Kept
      BY <2>3 DEF Replay, RequeueEvent, EndTriage, ReplaceEvent, Inactive
    <2>4. ASSUME NEW d \in Deliveries, EndEarly(d) \/ EndRun(d) PROVE Kept
      BY <2>4 DEF EndEarly, EndRun, Succeed, Fail, MarkEvent, ScheduleRetry
    <2>5. CASE OrphanClaim
      <3>1. row' = row \/ \E d \in Deliveries : row' = [row EXCEPT ![d] = "running"]
        BY <2>5 DEF OrphanClaim, ClaimRow
      <3> QED
        BY <3>1
    <2>6. \/ row' = row
          \/ loop \in {"up", "down"}
          \/ \E d \in Deliveries :
                Replay(d) \/ EndTriage(d) \/ EndEarly(d) \/ EndRun(d)
          \/ OrphanClaim
      <3>1. disp \in {"idle", "claimed"} => loop = "up"
        BY DEF Phased
      <3> QED
        BY <3>1
        DEF Next, vars, Webhook, StartTriage, Due, BecomeDue, Claim, Dispatch, Bounce,
            AcquireSlot, StartThread, EndCancelled, Reclaim, Release, Spawn, CheckMark,
            Arm, AgentEnds, ThreadDropped, Cancel, FireHook, Interrupt, CancelLeft, Stop,
            DrainDone, DrainTimeout, KillDone, Exit, Crash, Forget, Boot
    <2> QED
      BY <2>1, <2>2, <2>3, <2>4, <2>5, <2>6
  <1>2. IInv /\ [Next]_vars =>
          [\A d \in interrupted \ cancelled :
             row[d] = "running" => row'[d] \in {"running", "done"}]_vars
    BY <1>1
  <1> QED
    BY <1>2, InvariantHolds, PTL DEF Spec, ShutdownKeepsWork

-----------------------------------------------------------------------------
(* The promise.                                                            *)

\* Until stop() interrupts tasks a key in flight is that of a live task, so a
\* row is put back only if somebody is at its workspace.
KeysLive ==
    loop \in {"up", "drain", "down"} =>
        \A k \in inflight : \E d \in Deliveries : pc[d] # "none" /\ Key(d) = k

LEMMA KeysLiveStep ==
    ASSUME TypeOK, KeysLive, [Next]_vars
    PROVE  KeysLive'
  <1>1. ASSUME inflight' \subseteq inflight,
               \A d \in Deliveries : pc[d] # "none" => pc'[d] # "none",
               loop' \in {"up", "drain", "down"} => loop \in {"up", "drain", "down"}
        PROVE  KeysLive'
    BY <1>1 DEF KeysLive
  <1>2. ASSUME NEW d \in Deliveries, Dispatch(d) PROVE KeysLive'
    BY <1>2 DEF Dispatch, KeysLive, TypeOK
  <1>3. ASSUME NEW d \in Deliveries, Release(d) PROVE KeysLive'
    BY <1>3 DEF Release, KeysLive, TypeOK
  <1>4. ASSUME NEW d \in Deliveries, Interrupt(d) \/ CancelLeft(d) PROVE KeysLive'
    BY <1>4 DEF Interrupt, CancelLeft, KeysLive
  <1>5. CASE Exit \/ Crash
    BY <1>5 DEF Exit, Crash, Forget, KeysLive
  <1>6. ASSUME NEW d \in Deliveries, NEW s \in Slots,
               AcquireSlot(d, s) \/ StartThread(d) \/ Reclaim(d)
        PROVE  KeysLive'
    BY <1>1, <1>6 DEF AcquireSlot, StartThread, Reclaim, TypeOK
  <1>7. ASSUME NEW d \in Deliveries, EndEarly(d) \/ EndRun(d) \/ EndCancelled(d)
        PROVE  KeysLive'
    BY <1>1, <1>7 DEF EndEarly, EndRun, EndCancelled, Finally, TypeOK
  <1>8. ASSUME NEW d \in Deliveries, StartThread(d) \/ Reclaim(d)
        PROVE  KeysLive'
    BY <1>1, <1>8 DEF StartThread, Reclaim, TypeOK
  <1>9. CASE Stop \/ DrainDone \/ DrainTimeout \/ KillDone \/ Boot
    BY <1>1, <1>9 DEF Stop, DrainDone, DrainTimeout, KillDone, Boot
  <1>10. CASE UNCHANGED <<inflight, pc, loop>>
    BY <1>1, <1>10
  <1>11. \/ \E d \in Deliveries : \/ Dispatch(d) \/ Release(d) \/ Interrupt(d) \/ CancelLeft(d)
                                  \/ \E s \in Slots : AcquireSlot(d, s)
                                  \/ StartThread(d) \/ Reclaim(d)
                                  \/ EndEarly(d) \/ EndRun(d) \/ EndCancelled(d)
         \/ Exit \/ Crash \/ Stop \/ DrainDone \/ DrainTimeout \/ KillDone \/ Boot
         \/ UNCHANGED <<inflight, pc, loop>>
    BY DEF Next, vars, Webhook, Replay, StartTriage, EndTriage, Due, Claim, Bounce, Spawn,
           CheckMark, Arm, AgentEnds, ThreadDropped, Cancel, FireHook, OrphanClaim
  <1> QED
    BY <1>2, <1>3, <1>4, <1>5, <1>6, <1>7, <1>8, <1>9, <1>10, <1>11

\* What the variables of AgentPromise stand for.
Sites == {d \in Deliveries : Active(d)}
Owed == cancelled \ interrupted
Service == IF loop = "up" THEN "open" ELSE "closed"

Simulated == [Promise!Next]_<<row, Sites, Owed, Service>>

PInv == IInv /\ KeysLive

LEMMA SameSites ==
    ASSUME \A d \in Deliveries :
              pc'[d] # "none" \/ th'[d] # "none" <=> pc[d] # "none" \/ th[d] # "none"
    PROVE  Sites' = Sites
  BY DEF Sites, Active

LEMMA Stutters ==
    ASSUME UNCHANGED row, UNCHANGED Sites, UNCHANGED Owed, UNCHANGED Service
    PROVE  Simulated
  BY DEF Simulated

\* Steps that change one row and nothing else a client sees.
LEMMA RowSimulated ==
    ASSUME TypeOK, NEW d \in Deliveries, NEW st,
           row' = [row EXCEPT ![d] = st],
           UNCHANGED Sites, UNCHANGED Owed, UNCHANGED Service,
           \/ row[d] = "absent" /\ st \in {"queued", "skipped"}
           \/ row[d] \in Inactive /\ st = "queued"
           \/ /\ row[d] = "queued" /\ st = "running"
              /\ \A e \in Deliveries : row[e] = "running" => Key(e) # Key(d)
           \/ /\ row[d] = "running" /\ st = "queued"
              /\ \E e \in Sites : Key(e) = Key(d)
    PROVE  Simulated
  <1>1. UNCHANGED <<Sites, Owed, Service>>
    OBVIOUS
  <1>2. CASE row[d] = "absent" /\ st \in {"queued", "skipped"}
    <2>1. Promise!Accept(d)
      BY <1>1, <1>2 DEF Promise!Accept, Promise!Becomes, Sites, Owed, Service
    <2> QED
      BY <2>1 DEF Simulated, Promise!Next
  <1>3. CASE row[d] \in Inactive /\ st = "queued"
    <2>1. Promise!Renew(d)
      BY <1>1, <1>3 DEF Promise!Renew, Promise!Becomes, Promise!Over, Inactive, Sites, Owed, Service
    <2> QED
      BY <2>1 DEF Simulated, Promise!Next
  <1>4. CASE /\ row[d] = "queued" /\ st = "running"
             /\ \A e \in Deliveries : row[e] = "running" => Key(e) # Key(d)
    <2>1. Promise!Begin(d)
      BY <1>1, <1>4 DEF Promise!Begin, Promise!Becomes, Sites, Owed, Service
    <2> QED
      BY <2>1 DEF Simulated, Promise!Next
  <1>5. CASE /\ row[d] = "running" /\ st = "queued"
             /\ \E e \in Sites : Key(e) = Key(d)
    <2>1. Promise!PutBack(d)
      BY <1>1, <1>5 DEF Promise!PutBack, Promise!Becomes, Promise!Busy, Sites, Owed, Service
    <2> QED
      BY <2>1 DEF Simulated, Promise!Next
  <1> QED
    BY <1>2, <1>3, <1>4, <1>5

\* What fills the queue.
LEMMA FillSimulated ==
    ASSUME PInv, NEW d \in Deliveries,
           Webhook(d) \/ Replay(d) \/ StartTriage(d) \/ EndTriage(d) \/ Due(d)
    PROVE  Simulated
  <1>1. TypeOK
    BY DEF PInv, IInv
  <1>2. UNCHANGED <<pc, th, cancelled, interrupted, loop>>
    BY DEF Webhook, Replay, StartTriage, EndTriage, Due
  <1>3. UNCHANGED Sites /\ UNCHANGED Owed /\ UNCHANGED Service
    BY <1>2 DEF Sites, Active, Owed, Service
  <1>4. CASE UNCHANGED row
    BY <1>3, <1>4, Stutters
  <1>5. CASE \E st \in {"queued", "skipped"} : row[d] = "absent" /\ row' = [row EXCEPT ![d] = st]
    BY <1>1, <1>3, <1>5, RowSimulated
  <1>6. CASE row[d] \in Inactive /\ row' = [row EXCEPT ![d] = "queued"]
    BY <1>1, <1>3, <1>6, RowSimulated
  <1>7. \/ UNCHANGED row
        \/ \E st \in {"queued", "skipped"} : row[d] = "absent" /\ row' = [row EXCEPT ![d] = st]
        \/ row[d] \in Inactive /\ row' = [row EXCEPT ![d] = "queued"]
    BY DEF Webhook, Replay, StartTriage, EndTriage, Due, RecordEvent, RequeueEvent,
           ReplaceEvent, BecomeDue
  <1> QED
    BY <1>4, <1>5, <1>6, <1>7

\* A claim: the WHERE clause of claim_next_event looks at the rows of the issue.
LEMMA ClaimSimulated ==
    ASSUME TypeOK, NEW d \in Deliveries, ClaimRow(d),
           UNCHANGED Sites, UNCHANGED Owed, UNCHANGED Service
    PROVE  Simulated
  <1>1. row[d] = "queued" /\ row' = [row EXCEPT ![d] = "running"]
    BY DEF ClaimRow, Claimable
  <1>2. ASSUME NEW e \in Deliveries, row[e] = "running"
        PROVE  Key(e) # Key(d)
    <2>1. CASE IssueOf[d] = None
      BY <1>1, <1>2, <2>1, EventsAssumption DEF Key
    <2>2. CASE IssueOf[d] # None
      <3>1. IssueOf[e] # IssueOf[d]
        BY <1>2, <2>2 DEF ClaimRow, Claimable
      <3> QED
        BY <2>2, <3>1, EventsAssumption DEF Key
    <2> QED
      BY <2>1, <2>2
  <1> QED
    BY <1>1, <1>2, RowSimulated

\* Somebody is at the workspace of a key in flight.
LEMMA InflightIsBusy ==
    ASSUME PInv, loop \in {"up", "drain"}, NEW d \in Deliveries, IsInflight(d)
    PROVE  \E e \in Sites : Key(e) = Key(d)
  BY DEF PInv, KeysLive, IsInflight, Sites, Active

\* The dispatcher.
LEMMA DispatcherSimulated ==
    ASSUME PInv, NEW d \in Deliveries, Claim(d) \/ Dispatch(d) \/ Bounce(d)
    PROVE  Simulated
  <1>1. TypeOK /\ Phased /\ Exclusive /\ Held
    BY DEF PInv, IInv
  <1>2. UNCHANGED <<th, cancelled, interrupted, loop>> /\ loop = "up"
    BY <1>1 DEF Claim, Dispatch, Bounce, Phased
  <1>3. UNCHANGED Owed /\ UNCHANGED Service /\ Service = "open"
    BY <1>2 DEF Owed, Service
  <1>4. CASE Claim(d)
    <2>1. UNCHANGED Sites
      BY <1>2, <1>4 DEF Claim, Sites, Active
    <2> QED
      BY <1>1, <1>3, <1>4, <2>1, ClaimSimulated DEF Claim
  <1>5. CASE Bounce(d)
    <2>1. UNCHANGED Sites
      BY <1>2, <1>5 DEF Bounce, Sites, Active
    <2>2. row[d] = "running" /\ row' = [row EXCEPT ![d] = "queued"]
      BY <1>5 DEF Bounce, RequeueEvent
    <2>3. \E e \in Sites : Key(e) = Key(d)
      BY <1>2, <1>5, InflightIsBusy DEF Bounce
    <2> QED
      BY <1>1, <1>3, <2>1, <2>2, <2>3, RowSimulated
  <1>6. CASE Dispatch(d)
    <2>1. row[d] = "running" /\ UNCHANGED row
      BY <1>1, <1>6 DEF Dispatch, Held
    <2>2. \A e \in Sites : Key(e) # Key(d)
      <3>1. \A e \in Deliveries : pc[e] # "none" => Key(e) # Key(d)
        BY <1>1, <1>6 DEF Dispatch, IsInflight, Exclusive
      <3>2. \A e \in Deliveries : th[e] # "none" => pc[e] # "none"
        BY <1>1, <1>2 DEF Phased
      <3> QED
        BY <3>1, <3>2 DEF Sites, Active
    <2>3. Sites' = Sites \union {d}
      BY <1>1, <1>2, <1>6 DEF Dispatch, Sites, Active, TypeOK
    <2>4. Promise!Enter(d)
      BY <1>3, <2>1, <2>2, <2>3 DEF Promise!Enter, Promise!Busy, Sites, Owed, Service
    <2> QED
      BY <2>4 DEF Simulated, Promise!Next
  <1> QED
    BY <1>4, <1>5, <1>6

\* The end of a run, by the task itself.
LEMMA EndSimulated ==
    ASSUME PInv, NEW d \in Deliveries, EndEarly(d) \/ EndRun(d)
    PROVE  Simulated
  <1>1. TypeOK /\ Held
    BY DEF PInv, IInv
  <1>2. pc[d] \in InRun /\ row[d] = "running" /\ d \in Sites
    BY <1>1 DEF EndEarly, EndRun, Held, RowIsHeld, InRun, Sites, Active
  <1>3. /\ UNCHANGED loop
        /\ cancelled' = cancelled \ {d} /\ interrupted' = interrupted \ {d}
        /\ pc' = [pc EXCEPT ![d] = IF loop = "up" THEN "reclaim" ELSE "release"]
        /\ th' = [th EXCEPT ![d] = "none"] \/ UNCHANGED th
    BY DEF EndEarly, EndRun, Finally
  <1>4. UNCHANGED Sites
    BY <1>1, <1>2, <1>3, SameSites DEF TypeOK, InRun
  <1>5. UNCHANGED Service /\ Owed' = Owed \ {d}
    BY <1>3 DEF Service, Owed
  <1>6. \/ d \in interrupted /\ UNCHANGED row
        \/ \E st \in {"done", "failed", "queued"} :
              (d \in cancelled \ interrupted => st = "failed") /\ row' = [row EXCEPT ![d] = st]
    BY DEF EndEarly, EndRun, Succeed, Fail, MarkEvent, ScheduleRetry
  <1>7. CASE d \in interrupted /\ UNCHANGED row
    <2>1. UNCHANGED Owed
      BY <1>5, <1>7 DEF Owed
    <2> QED
      BY <1>4, <1>5, <1>7, <2>1, Stutters
  <1>8. CASE \E st \in {"done", "failed", "queued"} :
              (d \in cancelled \ interrupted => st = "failed") /\ row' = [row EXCEPT ![d] = st]
    <2>1. Promise!Conclude(d)
      BY <1>2, <1>4, <1>5, <1>8 DEF Promise!Conclude, Promise!Becomes, Sites, Owed, Service
    <2> QED
      BY <2>1 DEF Simulated, Promise!Next
  <1> QED
    BY <1>6, <1>7, <1>8

\* Who leaves a workspace.
LEMMA LeaveSimulated ==
    ASSUME PInv, NEW d \in Deliveries,
           Release(d) \/ ThreadDropped(d) \/ CancelLeft(d)
    PROVE  Simulated
  <1>1. TypeOK /\ Phased /\ Held
    BY DEF PInv, IInv
  <1>2. UNCHANGED <<row, cancelled, interrupted, loop>>
    BY DEF Release, ThreadDropped, CancelLeft
  <1>3. UNCHANGED Owed /\ UNCHANGED Service
    BY <1>2 DEF Owed, Service
  <1>4. \A e \in Deliveries : e # d => pc'[e] = pc[e] /\ th'[e] = th[e]
    BY <1>1 DEF Release, ThreadDropped, CancelLeft, CancelTask, TypeOK
  <1>5. d \in Sites
    BY DEF Release, ThreadDropped, CancelLeft, Sites, Active
  <1>6. Sites' = Sites \/ Sites' = Sites \ {d}
    BY <1>4, <1>5 DEF Sites, Active
  <1>7. loop = "up" => row[d] # "running"
    BY <1>1, EventsAssumption DEF Release, ThreadDropped, CancelLeft, Phased, Held, RowIsHeld, InRun
  <1>8. CASE Sites' = Sites
    BY <1>2, <1>3, <1>8, Stutters
  <1>9. CASE Sites' = Sites \ {d}
    <2>1. Promise!Leave(d)
      BY <1>2, <1>3, <1>5, <1>7, <1>9 DEF Promise!Leave, Sites, Owed, Service
    <2> QED
      BY <2>1 DEF Simulated, Promise!Next
  <1> QED
    BY <1>6, <1>8, <1>9

\* What nobody outside sees: slots, threads at their work, and the end of a task
\* that stop() has cancelled, which settles no row.
LEMMA HiddenSimulated ==
    ASSUME PInv, NEW d \in Deliveries,
           \/ \E s \in Slots : AcquireSlot(d, s)
           \/ StartThread(d) \/ Reclaim(d) \/ EndCancelled(d)
           \/ Spawn(d) \/ CheckMark(d) \/ Arm(d) \/ AgentEnds(d) \/ FireHook(d)
    PROVE  Simulated
  <1>1. TypeOK /\ Phased
    BY DEF PInv, IInv
  <1>2. UNCHANGED <<row, loop>>
    BY DEF AcquireSlot, StartThread, Reclaim, EndCancelled, Spawn, CheckMark, Arm, AgentEnds,
           FireHook
  <1>3. UNCHANGED Service
    BY <1>2 DEF Service
  <1>4. UNCHANGED Owed
    <2>1. CASE EndCancelled(d)
      <3>1. d \in interrupted
        BY <1>1, <2>1 DEF EndCancelled, Phased
      <3> QED
        BY <2>1, <3>1 DEF EndCancelled, Finally, Owed
    <2>2. CASE ~EndCancelled(d)
      <3>1. UNCHANGED <<cancelled, interrupted>>
        BY <2>2 DEF AcquireSlot, StartThread, Reclaim, Spawn, CheckMark, Arm, AgentEnds, FireHook
      <3> QED
        BY <3>1 DEF Owed
    <2> QED
      BY <2>1, <2>2
  <1>5. UNCHANGED Sites
    <2>1. CASE EndCancelled(d)
      BY <1>1, <2>1, SameSites DEF EndCancelled, Finally, TypeOK
    <2>2. CASE (\E s \in Slots : AcquireSlot(d, s)) \/ StartThread(d) \/ Reclaim(d)
      BY <1>1, <2>2, SameSites DEF AcquireSlot, StartThread, Reclaim, TypeOK
    <2>3. CASE Spawn(d) \/ CheckMark(d) \/ Arm(d) \/ AgentEnds(d) \/ FireHook(d)
      BY <1>1, <2>3, SameSites DEF Spawn, CheckMark, Arm, AgentEnds, FireHook, TypeOK
    <2> QED
      BY <2>1, <2>2, <2>3
  <1> QED
    BY <1>2, <1>3, <1>4, <1>5, Stutters

\* The route of a cancellation.
LEMMA CancelSimulated ==
    ASSUME PInv, NEW d \in Deliveries, Cancel(d)
    PROVE  Simulated
  <1>1. Phased
    BY DEF PInv, IInv
  <1>2. /\ loop = "up" /\ row[d] = "running" /\ cancelled' = cancelled \union {d}
        /\ UNCHANGED <<row, loop, pc, th, interrupted>>
    BY DEF Cancel
  <1>3. /\ UNCHANGED Sites /\ UNCHANGED Service /\ Service = "open"
        /\ Owed' = Owed \union {d}
    BY <1>1, <1>2 DEF Sites, Active, Service, Owed, Phased
  <1>4. Promise!Ask(d)
    BY <1>2, <1>3 DEF Promise!Ask, Sites, Owed, Service
  <1> QED
    BY <1>4 DEF Simulated, Promise!Next

\* stop() comes to a task.
LEMMA InterruptSimulated ==
    ASSUME PInv, NEW d \in Deliveries, Interrupt(d)
    PROVE  Simulated
  <1>1. TypeOK
    BY DEF PInv, IInv
  <1>2. /\ loop = "kill" /\ UNCHANGED <<row, loop, th, cancelled>>
        /\ UNCHANGED interrupted \/ interrupted' = interrupted \union {d}
        /\ \A e \in Deliveries : e # d => pc'[e] = pc[e]
    BY <1>1 DEF Interrupt, CancelTask, TypeOK
  <1>3. UNCHANGED Service /\ Service = "closed"
    BY <1>2 DEF Service
  <1>4. Sites' = Sites \/ Sites' = Sites \ {d}
    <2>1. pc[d] = "none" => pc'[d] = "none"
      BY <1>1 DEF Interrupt, TypeOK
    <2> QED
      BY <1>2, <2>1 DEF Sites, Active
  <1>5. Owed' = Owed \/ Owed' = Owed \ {d}
    BY <1>2 DEF Owed
  <1>6. d \notin interrupted' => UNCHANGED <<interrupted, pc>>
    BY DEF Interrupt
  <1>7. CASE Owed' = Owed \ {d}
    <2>1. Promise!Abandon(d)
      BY <1>2, <1>3, <1>4, <1>7 DEF Promise!Abandon, Sites, Owed, Service
    <2> QED
      BY <2>1 DEF Simulated, Promise!Next
  <1>8. CASE Owed' = Owed /\ d \notin Owed
    BY <1>7, <1>8
  <1>9. CASE Owed' = Owed /\ d \in Owed
    <2>1. d \notin interrupted'
      BY <1>9 DEF Owed
    <2>2. UNCHANGED <<interrupted, pc>>
      BY <1>6, <2>1
    <2>3. UNCHANGED Sites
      BY <1>2, <2>2 DEF Sites, Active
    <2> QED
      BY <1>2, <1>3, <1>9, <2>3, Stutters
  <1> QED
    BY <1>5, <1>7, <1>8, <1>9

\* The process as a whole.
LEMMA ProcessSimulated ==
    ASSUME PInv,
           \/ OrphanClaim \/ Stop \/ DrainDone \/ DrainTimeout \/ KillDone
           \/ Exit \/ Crash \/ Boot
    PROVE  Simulated
  <1>1. TypeOK /\ Phased /\ Held
    BY DEF PInv, IInv
  <1>2. CASE OrphanClaim
    <2>1. UNCHANGED Sites /\ UNCHANGED Owed /\ UNCHANGED Service
      BY <1>2 DEF OrphanClaim, Sites, Active, Owed, Service
    <2> QED
      BY <1>1, <1>2, <2>1, ClaimSimulated, Stutters DEF OrphanClaim
  <1>3. CASE Stop
    <2>1. UNCHANGED Sites /\ UNCHANGED Owed /\ Service = "open" /\ Service' = "closed"
      BY <1>3 DEF Stop, Sites, Active, Owed, Service
    <2>2. \/ UNCHANGED row
          \/ \E d \in Deliveries : /\ row[d] = "running" /\ row' = [row EXCEPT ![d] = "queued"]
                                   /\ \E e \in Sites : Key(e) = Key(d)
      <3>1. CASE UNCHANGED row
        BY <3>1
      <3>2. CASE disp = "claimed" /\ IsInflight(grabbed) /\ RequeueEvent(grabbed, {"running"})
        <4>1. grabbed \in Deliveries /\ loop = "up"
          BY <1>1, <3>2 DEF Phased
        <4>2. \E e \in Sites : Key(e) = Key(grabbed)
          BY <3>2, <4>1, InflightIsBusy
        <4> QED
          BY <3>2, <4>1, <4>2 DEF RequeueEvent
      <3> QED
        BY <1>3, <3>1, <3>2 DEF Stop
    <2>3. Promise!Close
      BY <2>1, <2>2 DEF Promise!Close, Promise!Busy, Promise!Becomes, Sites, Owed, Service
    <2> QED
      BY <2>3 DEF Simulated, Promise!Next
  <1>4. CASE DrainDone \/ DrainTimeout \/ KillDone
    <2>1. UNCHANGED row /\ UNCHANGED Sites /\ UNCHANGED Owed /\ UNCHANGED Service
      BY <1>4 DEF DrainDone, DrainTimeout, KillDone, Sites, Active, Owed, Service
    <2> QED
      BY <2>1, Stutters
  <1>5. CASE Exit \/ Crash
    <2>1. UNCHANGED row /\ Sites' = {} /\ Owed' = {} /\ Service' = "closed"
      BY <1>5 DEF Exit, Crash, Forget, Sites, Active, Owed, Service
    <2>2. Promise!Vanish
      BY <2>1 DEF Promise!Vanish, Sites, Owed, Service
    <2> QED
      BY <2>2 DEF Simulated, Promise!Next
  <1>6. CASE Boot
    <2>1. /\ Sites = {} /\ Owed = {} /\ Service = "closed" /\ Service' = "open"
          /\ UNCHANGED Sites /\ UNCHANGED Owed
      BY <1>1, <1>6 DEF Boot, Phased, Sites, Active, Owed, Service
    <2>2. row' = [d \in Deliveries |-> IF row[d] = "running" THEN "queued" ELSE row[d]]
      BY <1>6 DEF Boot, ResetStuckRunning
    <2>3. Promise!Open
      BY <2>1, <2>2 DEF Promise!Open, Sites, Owed, Service
    <2> QED
      BY <2>3 DEF Simulated, Promise!Next
  <1> QED
    BY <1>2, <1>3, <1>4, <1>5, <1>6

LEMMA EveryStepSimulated == PInv /\ [Next]_vars => Simulated
  <1> SUFFICES ASSUME PInv, [Next]_vars
               PROVE  Simulated
    OBVIOUS
  <1>1. CASE UNCHANGED vars
    <2>1. UNCHANGED row /\ UNCHANGED Sites /\ UNCHANGED Owed /\ UNCHANGED Service
      BY <1>1 DEF vars, Sites, Active, Owed, Service
    <2> QED
      BY <2>1, Stutters
  <1>2. CASE Next
    BY <1>2, FillSimulated, DispatcherSimulated, EndSimulated, LeaveSimulated, HiddenSimulated,
       CancelSimulated, InterruptSimulated, ProcessSimulated DEF Next
  <1> QED
    BY <1>1, <1>2

\* The queue does what AgentPromise says: the workspace of an issue is one
\* event's until its run and the remains of it are over, a run ends by its own
\* work, and a cancellation is honored unless the service closes first.
THEOREM ImplementsAgentPromise == Spec => KeepsPromise
  <1>1. Init => Promise!Init
    <2> SUFFICES ASSUME Init
                 PROVE  Promise!Init
      OBVIOUS
    <2>1. Sites = {} /\ Owed = {} /\ Service = "open"
      BY DEF Init, Sites, Active, Owed, Service
    <2> QED
      BY <2>1 DEF Init, EventsInit, Promise!Init, Sites, Owed, Service
  <1>2. Init => PInv
    BY InvariantInit DEF Init, KeysLive, PInv
  <1>3. PInv /\ [Next]_vars => PInv'
    BY TypedStep, PhasedStep, ExclusiveStep, HeldStep, SlottedStep, KeysLiveStep DEF IInv, PInv
  <1>4. PInv /\ [Next]_vars => [Promise!Next]_(Promise!vars)
    BY EveryStepSimulated DEF Simulated, Promise!vars, Sites, Owed, Service
  <1> QED
    BY <1>1, <1>2, <1>3, <1>4, PTL DEF Spec, KeepsPromise, Promise!Spec
=============================================================================
