--------------------------- MODULE MCReviewFaults ---------------------------
(***************************************************************************)
(* Instances of ReviewFaults for TLC.                                      *)
(***************************************************************************)
EXTENDS ReviewFaults

CONSTANTS p1, p2, sA, sB, h1, h2, m1, fA, fB, gA, gB

\* Two pull requests with one commit each, a hook and a manual review.
TwoPulls == {p1, p2}
OneSha == {sA}
PairDeliveries == {h1, m1, fA, gA}
PairHook == {h1}
PairManual == {m1}
PairPr == [d \in PairDeliveries |-> IF d \in {h1, fA} THEN p1 ELSE p2]
PairRefresh == [h \in TwoPulls \X OneSha |-> IF h[1] = p1 THEN fA ELSE gA]

TwoShas == {sA, sB}

\* The head of the first alternates between two commits while the other rests, or
\* neither moves and the process may restart.
BothDeliveries == {h1, m1, fA, fB, gA, gB}
BothPr == [d \in BothDeliveries |-> IF d \in {h1, fA, fB} THEN p1 ELSE p2]
BothRefresh == [h \in TwoPulls \X TwoShas |->
                    IF h[1] = p1 THEN IF h[2] = sA THEN fA ELSE fB
                                 ELSE IF h[2] = sA THEN gA ELSE gB]

Resting(p) ==
    /\ head[p] = sA /\ status[p] = "open"
    /\ \A d \in Deliveries : PrOf[d] = p => state[d] = "absent" /\ d \notin admin

OneOrTheOther == moves = 0 \/ (restarts = 0 /\ ~stop /\ Resting(p2))

BothInit == FaultyInit /\ head = [p \in PullRequests |-> sA]
BothNext == FaultyNext /\ OneOrTheOther'
BothSpec == BothInit /\ [][BothNext]_faultyVars /\ FaultyFairness

NoReplay == [r \in {} |-> h1]
=============================================================================
