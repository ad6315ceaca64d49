----------------------------- MODULE AgentEvents -----------------------------
(***************************************************************************)
(* The table `events` of robomp: class Database of src/robomp/db.py, over  *)
(* SQLite.  One connection behind one lock, and one statement or BEGIN     *)
(* IMMEDIATE per method, so every method is one atomic step here, and all  *)
(* of this module's variables survive a crash.  A command of the CLI is a  *)
(* second process on the same file.                                        *)
(*                                                                         *)
(* A row is keyed by its delivery id.  Its issue never changes: an id that *)
(* is inserted twice is a redelivery or "manual-<repository>-<number>".    *)
(* None stands for a NULL issue_key.                                       *)
(*                                                                         *)
(* Time: due[d] says that the clock has passed available_at (or that it is *)
(* NULL).  Claims are ordered by received_at; the order is left open here, *)
(* as no property depends on it.  attempts is only compared with           *)
(* MaxRetries, so it is counted to MaxRetries + 1 and no further.          *)
(***************************************************************************)
EXTENDS Naturals

CONSTANTS
    Deliveries,     \* the delivery ids a row can have
    IssueOf,        \* the issue_key of each delivery, or None
    None,           \* NULL
    MaxRetries      \* settings.event_max_retries

ASSUME EventsAssumption ==
    /\ None \notin Deliveries
    /\ DOMAIN IssueOf = Deliveries
    /\ \A d \in Deliveries : IssueOf[d] \notin Deliveries
    /\ MaxRetries \in Nat

VARIABLES
    row,            \* events.state, or "absent" while there is no row
    attempts,       \* events.attempts, up to MaxRetries + 1
    due             \* events.available_at <= now

eventVars == <<row, attempts, due>>

Inactive == {"done", "failed", "skipped"}
RowStates == {"absent", "queued", "running"} \union Inactive
AttemptCount == 0 .. MaxRetries + 1

EventsTypeOK ==
    /\ row \in [Deliveries -> RowStates]
    /\ attempts \in [Deliveries -> AttemptCount]
    /\ due \in [Deliveries -> BOOLEAN]

EventsInit ==
    /\ row = [d \in Deliveries |-> "absent"]
    /\ attempts = [d \in Deliveries |-> 0]
    /\ due = [d \in Deliveries |-> FALSE]

-----------------------------------------------------------------------------
\* record_event: INSERT OR IGNORE, queued or skipped.
RecordEvent(d, st) ==
    \/ /\ row[d] = "absent"
       /\ row' = [row EXCEPT ![d] = st]
       /\ due' = [due EXCEPT ![d] = TRUE]
       /\ UNCHANGED attempts
    \/ /\ row[d] # "absent"
       /\ UNCHANGED eventVars

\* The WHERE clause of claim_next_event.
Claimable(d) ==
    /\ row[d] = "queued"
    /\ due[d]
    /\ IssueOf[d] # None =>
         \A e \in Deliveries : row[e] = "running" => IssueOf[e] # IssueOf[d]

\* claim_next_event, when it finds a row.
ClaimRow(d) ==
    /\ Claimable(d)
    /\ row' = [row EXCEPT ![d] = "running"]
    /\ attempts' = [attempts EXCEPT ![d] = IF @ > MaxRetries THEN @ ELSE @ + 1]
    /\ UNCHANGED due

\* mark_event: names the row and not the state it must be in.
MarkEvent(d, outcome) ==
    /\ row' = [row EXCEPT ![d] = outcome]
    /\ UNCHANGED <<attempts, due>>

\* requeue_event, when the row is in one of the states: attempts are kept.
RequeueEvent(d, fromStates) ==
    /\ row[d] \in fromStates
    /\ row' = [row EXCEPT ![d] = "queued"]
    /\ due' = [due EXCEPT ![d] = TRUE]
    /\ UNCHANGED attempts

\* schedule_retry, for a row that is running: available_at lies ahead.
ScheduleRetry(d) ==
    /\ row[d] \in {"running", "failed"}
    /\ row' = [row EXCEPT ![d] = "queued"]
    /\ due' = [due EXCEPT ![d] = FALSE]
    /\ UNCHANGED attempts

\* The clock passes the available_at of a row.
BecomeDue(d) ==
    /\ row[d] = "queued"
    /\ ~due[d]
    /\ due' = [due EXCEPT ![d] = TRUE]
    /\ UNCHANGED <<row, attempts>>

\* Mutant: replace_event_if_state_in without its check.
ReplaceAlways(d) ==
    /\ row' = [row EXCEPT ![d] = "queued"]
    /\ attempts' = [attempts EXCEPT ![d] = 0]
    /\ due' = [due EXCEPT ![d] = TRUE]

\* replace_event_if_state_in, from an inactive state or no row: a fresh row.
ReplaceEvent(d) ==
    /\ row[d] \in Inactive \union {"absent"}
    /\ row' = [row EXCEPT ![d] = "queued"]
    /\ attempts' = [attempts EXCEPT ![d] = 0]
    /\ due' = [due EXCEPT ![d] = TRUE]

\* reset_stuck_running.
ResetStuckRunning ==
    LET stuck == {d \in Deliveries : row[d] = "running"}
    IN  /\ row' = [d \in Deliveries |-> IF d \in stuck THEN "queued" ELSE row[d]]
        /\ due' = [d \in Deliveries |-> d \in stuck \/ due[d]]
        /\ UNCHANGED attempts
=============================================================================
