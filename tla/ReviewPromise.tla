---------------------------- MODULE ReviewPromise ----------------------------
(***************************************************************************)
(* What the PR-review service promises to those who send it events and     *)
(* read its comments.  Events are worked on one at a time per pull         *)
(* request, and a commit is commented on once, by the one event that is    *)
(* then being worked on.  There is no pool, no process and no crash here:  *)
(* what they cost is that an event may go back to waiting.                 *)
(***************************************************************************)
EXTENDS Naturals

CONSTANTS Deliveries, PullRequests, Shas, PrOf, RefreshId

VARIABLES
    phase,          \* "unknown", "waiting", "working" or "settled"
    published       \* the number of review comments on each commit

vars == <<phase, published>>

Init ==
    /\ phase = [d \in Deliveries |-> "unknown"]
    /\ published = [h \in PullRequests \X Shas |-> 0]

Accept(d) ==
    /\ phase[d] = "unknown"
    /\ phase' = [phase EXCEPT ![d] = "waiting"]
    /\ UNCHANGED published

Begin(d) ==
    /\ phase[d] = "waiting"
    /\ \A e \in Deliveries : phase[e] = "working" => PrOf[e] # PrOf[d]
    /\ phase' = [phase EXCEPT ![d] = "working"]
    /\ UNCHANGED published

Publish(d, s) ==
    /\ phase[d] = "working"
    /\ published[<<PrOf[d], s>>] = 0
    /\ published' = [published EXCEPT ![<<PrOf[d], s>>] = 1]
    /\ UNCHANGED phase

\* An event is settled by its work, or by the last write of work cut short.
Settle(d) ==
    /\ phase[d] \in {"working", "waiting"}
    /\ phase' = [phase EXCEPT ![d] = "settled"]
    /\ UNCHANGED published

\* The head moved: d is settled and the event of the new head waits.
Renew(d, s) ==
    LET r == RefreshId[<<PrOf[d], s>>]
    IN  /\ phase[d] = "working"
        /\ phase[r] \in {"unknown", "settled"} \/ r = d
        /\ phase' = [e \in Deliveries |->
                IF e = r THEN "waiting" ELSE IF e = d THEN "settled" ELSE phase[e]]
        /\ UNCHANGED published

\* Work that failed for now or was interrupted waits again.
GiveBack(D) ==
    /\ D # {}
    /\ \A d \in D : phase[d] = "working"
    /\ phase' = [d \in Deliveries |-> IF d \in D THEN "waiting" ELSE phase[d]]
    /\ UNCHANGED published

Next ==
    \/ \E d \in Deliveries : Accept(d) \/ Begin(d) \/ Settle(d)
    \/ \E d \in Deliveries, s \in Shas : Publish(d, s) \/ Renew(d, s)
    \/ \E D \in SUBSET Deliveries : GiveBack(D)

Spec == Init /\ [][Next]_vars
=============================================================================
