----------------------------- MODULE QueueStore -----------------------------
(***************************************************************************)
(* The durable queue of the PR-review service: class QueueStore of         *)
(* src/reviewbot/storage.py, over SQLite.  Every method opens one          *)
(* connection and commits one transaction, so every method is one atomic   *)
(* step here, and all of this module's variables survive a crash.          *)
(*                                                                         *)
(* A row of table `events` is keyed by its delivery id.  The pull request  *)
(* of a row never changes, because every id that can be inserted twice     *)
(* either names the pull request ("refresh:", "manual:", "replay:") or is  *)
(* GitHub's delivery id or a digest of the body; it is the constant PrOf.  *)
(* A row of `reviews` is a pair <<pull request, head sha>>.                *)
(*                                                                         *)
(* Time: `available_at` is compared with the clock once, in claim_next.    *)
(* due[d] says that the clock has passed it.  The order of due rows is     *)
(* left open: the timestamps have a resolution of one second and ties are  *)
(* broken by the delivery id, which is arbitrary.                          *)
(*                                                                         *)
(* Left out: the text of errors; the metrics and audit tables, which no    *)
(* transaction reads back; the findings, which no task of the pool reads.  *)
(***************************************************************************)
EXTENDS Naturals

CONSTANTS
    Deliveries,     \* the delivery ids a row can have
    PullRequests,   \* the pull requests: a repository and a number
    Shas,           \* the commits that can be the head of a pull request
    PrOf,           \* the pull request of each delivery
    RefreshId       \* the delivery id "refresh:<repository>:<number>:<sha>"

ASSUME StoreAssumption ==
    /\ PrOf \in [Deliveries -> PullRequests]
    /\ RefreshId \in [PullRequests \X Shas -> Deliveries]
    /\ \A p \in PullRequests, s \in Shas : PrOf[RefreshId[<<p, s>>]] = p

VARIABLES
    state,          \* events.state, or "absent" while there is no row
    attempts,       \* events.attempts
    due,            \* events.available_at <= CURRENT_TIMESTAMP
    reviews         \* the rows of table reviews

storeVars == <<state, attempts, due, reviews>>

Terminal == {"succeeded", "failed", "skipped", "superseded"}
EventStates == {"absent", "queued", "running"} \union Terminal

StoreTypeOK ==
    /\ state \in [Deliveries -> EventStates]
    /\ attempts \in [Deliveries -> Nat]
    /\ due \in [Deliveries -> BOOLEAN]
    /\ reviews \subseteq PullRequests \X Shas

StoreInit ==
    /\ state = [d \in Deliveries |-> "absent"]
    /\ attempts = [d \in Deliveries |-> 0]
    /\ due = [d \in Deliveries |-> FALSE]
    /\ reviews = {}

-----------------------------------------------------------------------------
\* Mutant: enqueue with INSERT OR REPLACE.
EnqueueReplaces(d) ==
    /\ state' = [state EXCEPT ![d] = "queued"]
    /\ due' = [due EXCEPT ![d] = TRUE]
    /\ UNCHANGED <<attempts, reviews>>

\* enqueue: INSERT OR IGNORE, so a delivery that is already known is a no-op
\* whatever its state is.
Enqueue(d) ==
    \/ /\ state[d] = "absent"
       /\ state' = [state EXCEPT ![d] = "queued"]
       /\ due' = [due EXCEPT ![d] = TRUE]
       /\ UNCHANGED <<attempts, reviews>>
    \/ /\ state[d] # "absent"
       /\ UNCHANGED storeVars

\* Mutants: claim_next without NOT EXISTS, and without the pull request in it.
ClaimableUnlocked(d) == state[d] = "queued" /\ due[d]

ClaimableAlone(d) ==
    /\ state[d] = "queued"
    /\ due[d]
    /\ \A e \in Deliveries : state[e] # "running"

\* The WHERE clause of claim_next.
Claimable(d) ==
    /\ state[d] = "queued"
    /\ due[d]
    /\ \A e \in Deliveries : state[e] = "running" => PrOf[e] # PrOf[d]

\* claim_next, when it finds a row.
ClaimRow(d) ==
    /\ Claimable(d)
    /\ state' = [state EXCEPT ![d] = "running"]
    /\ attempts' = [attempts EXCEPT ![d] = @ + 1]
    /\ UNCHANGED <<due, reviews>>

\* _set_event_state, under mark_skipped; and mark_failed without a retry.
\* The UPDATE names the row and not the state it must be in.
SetEventState(d, outcome) ==
    /\ state' = [state EXCEPT ![d] = outcome]
    /\ UNCHANGED <<attempts, due, reviews>>

\* mark_failed with a retry: available_at lies in the future.
MarkRetry(d) ==
    /\ state' = [state EXCEPT ![d] = "queued"]
    /\ due' = [due EXCEPT ![d] = FALSE]
    /\ UNCHANGED <<attempts, reviews>>

\* The clock passes the available_at of a row.
BecomeDue(d) ==
    /\ state[d] = "queued"
    /\ ~due[d]
    /\ due' = [due EXCEPT ![d] = TRUE]
    /\ UNCHANGED <<state, attempts, reviews>>

\* Mutant: requeue_if_running without the condition on the state.
RequeueAlways(d) ==
    /\ state' = [state EXCEPT ![d] = "queued"]
    /\ due' = [due EXCEPT ![d] = TRUE]
    /\ UNCHANGED <<attempts, reviews>>

\* requeue_if_running.
RequeueIfRunning(d) ==
    \/ /\ state[d] = "running"
       /\ state' = [state EXCEPT ![d] = "queued"]
       /\ due' = [due EXCEPT ![d] = TRUE]
       /\ UNCHANGED <<attempts, reviews>>
    \/ /\ state[d] # "running"
       /\ UNCHANGED storeVars

\* Mutant: the review is recorded under the wrong key.
CompleteWrongKey(d, sha) ==
    /\ reviews' = reviews \union {<<d, sha>>}
    /\ state' = [state EXCEPT ![d] = "succeeded"]
    /\ UNCHANGED <<attempts, due>>

\* complete_review: the review row and the event in one transaction.
CompleteReview(d, sha) ==
    /\ reviews' = reviews \union {<<PrOf[d], sha>>}
    /\ state' = [state EXCEPT ![d] = "succeeded"]
    /\ UNCHANGED <<attempts, due>>

\* Mutant: the new head gets no refresh.
SupersedeOnly(d, sha) ==
    /\ state[d] = "running"
    /\ state' = [state EXCEPT ![d] = "superseded"]
    /\ UNCHANGED <<attempts, due, reviews>>

\* supersede_and_enqueue with _enqueue_refresh_event: d gives way to a refresh
\* of the head `sha`.  No refresh is queued for a head that has its review or
\* whose refresh is under way; any other refresh row starts afresh, the row of
\* d itself included, if d is the refresh of that same head.
SupersedeAndEnqueue(d, sha) ==
    LET refresh == RefreshId[<<PrOf[d], sha>>]
        superseded == [state EXCEPT ![d] = "superseded"]
        needless == \/ <<PrOf[d], sha>> \in reviews
                    \/ superseded[refresh] \in {"queued", "running"}
    IN  /\ state[d] = "running"
        /\ \/ /\ needless
              /\ state' = superseded
              /\ UNCHANGED <<attempts, due>>
           \/ /\ ~needless
              /\ state' = [superseded EXCEPT ![refresh] = "queued"]
              /\ attempts' = [attempts EXCEPT ![refresh] = 0]
              /\ due' = [due EXCEPT ![refresh] = TRUE]
        /\ UNCHANGED reviews

\* Mutant: a start leaves the running rows as they are.
RecoverNothing == UNCHANGED storeVars

\* initialize: what a start of the process finds running goes back to the
\* queue, its attempts kept.
Recover ==
    LET stranded == {d \in Deliveries : state[d] = "running"}
    IN  /\ state' = [d \in Deliveries |->
                        IF d \in stranded THEN "queued" ELSE state[d]]
        /\ due' = [d \in Deliveries |-> d \in stranded \/ due[d]]
        /\ UNCHANGED <<attempts, reviews>>
=============================================================================
