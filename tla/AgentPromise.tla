---------------------------- MODULE AgentPromise ----------------------------
(***************************************************************************)
(* What the event queue of robomp promises to those who fill it, watch it  *)
(* and cancel what it does.  There are no tasks, threads, slots, hooks or  *)
(* locks here: an event is worked on at the workspace of its issue, which  *)
(* is one event's at a time until the work and what it leaves behind are   *)
(* over, and a cancelled event fails unless the service closes first.      *)
(***************************************************************************)

CONSTANTS
    Deliveries,
    Issue           \* whose workspace each delivery needs

VARIABLES
    state,          \* of each event, as the API shows it
    site,           \* the events that occupy the workspace of their issue
    asked,          \* the events an operator has cancelled
    service         \* "open" or "closed"

vars == <<state, site, asked, service>>

Init ==
    /\ state = [d \in Deliveries |-> "absent"]
    /\ site = {}
    /\ asked = {}
    /\ service = "open"

Over == {"done", "failed", "skipped"}

Busy(d) == \E e \in site : Issue[e] = Issue[d]

Becomes(d, st) == state' = [state EXCEPT ![d] = st]

-----------------------------------------------------------------------------
Accept(d) ==
    /\ state[d] = "absent"
    /\ Becomes(d, "queued") \/ Becomes(d, "skipped")
    /\ UNCHANGED <<site, asked, service>>

\* What is over starts again on demand only.
Renew(d) ==
    /\ state[d] \in Over
    /\ Becomes(d, "queued")
    /\ UNCHANGED <<site, asked, service>>

Begin(d) ==
    /\ state[d] = "queued"
    /\ \A e \in Deliveries : state[e] = "running" => Issue[e] # Issue[d]
    /\ Becomes(d, "running")
    /\ UNCHANGED <<site, asked, service>>

\* Work begins where nobody is, and not in a service that closes.
Enter(d) ==
    /\ service = "open"
    /\ state[d] = "running"
    /\ ~Busy(d)
    /\ site' = site \union {d}
    /\ UNCHANGED <<state, asked, service>>

\* An event that has begun is put back only if its workspace is occupied ...
PutBack(d) ==
    /\ state[d] = "running"
    /\ Busy(d)
    /\ Becomes(d, "queued")
    /\ UNCHANGED <<site, asked, service>>

\* ... and is otherwise over, or to be tried again, by its own work.
Conclude(d) ==
    /\ d \in site
    /\ state[d] = "running"
    /\ \E st \in {"done", "failed", "queued"} :
          /\ d \in asked => st = "failed"
          /\ Becomes(d, st)
    /\ asked' = asked \ {d}
    /\ UNCHANGED <<site, service>>

\* Nobody leaves unfinished work, unless the service closes.
Leave(d) ==
    /\ d \in site
    /\ service = "open" => state[d] # "running"
    /\ site' = site \ {d}
    /\ UNCHANGED <<state, asked, service>>

Ask(d) ==
    /\ service = "open"
    /\ state[d] = "running"
    /\ asked' = asked \union {d}
    /\ UNCHANGED <<state, site, service>>

-----------------------------------------------------------------------------
Close ==
    /\ service = "open"
    /\ service' = "closed"
    /\ \/ UNCHANGED state
       \/ \E d \in Deliveries : state[d] = "running" /\ Busy(d) /\ Becomes(d, "queued")
    /\ UNCHANGED <<site, asked>>

\* Work is interrupted, and with it what was asked about it is forgotten.
Abandon(d) ==
    /\ service = "closed"
    /\ asked' = asked \ {d}
    /\ site' \in {site, site \ {d}}
    /\ UNCHANGED <<state, service>>

\* The process ends, in whatever way.
Vanish ==
    /\ service' = "closed"
    /\ site' = {}
    /\ asked' = {}
    /\ UNCHANGED state

\* Unfinished work waits again.
Open ==
    /\ service = "closed"
    /\ site = {} /\ asked = {}
    /\ service' = "open"
    /\ state' = [d \in Deliveries |-> IF state[d] = "running" THEN "queued" ELSE state[d]]
    /\ UNCHANGED <<site, asked>>

Next ==
    \/ \E d \in Deliveries :
        \/ Accept(d) \/ Renew(d) \/ Begin(d) \/ Enter(d) \/ PutBack(d)
        \/ Conclude(d) \/ Leave(d) \/ Ask(d) \/ Abandon(d)
    \/ Close \/ Vanish \/ Open

Spec == Init /\ [][Next]_vars
=============================================================================
