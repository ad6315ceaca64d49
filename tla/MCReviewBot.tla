---------------------------- MODULE MCReviewBot ----------------------------
(***************************************************************************)
(* Instances of ReviewBot for TLC.                                         *)
(***************************************************************************)
EXTENDS ReviewBot, TLC

CONSTANTS p1, sA, sB, h1, h2, x1, m1, fA, fB

\* One pull request whose head may alternate between two commits, one hook,
\* its replay and the two refresh events.
OnePull == {p1}
TwoShas == {sA, sB}
ReplayDeliveries == {h1, x1, fA, fB}
ReplayHooks == {h1}
TheReplay == {x1}
TheReplayOf == [r \in {x1} |-> h1]
ReplayPr == [d \in ReplayDeliveries |-> p1]
Refresh == [h \in OnePull \X TwoShas |-> IF h[2] = sA THEN fA ELSE fB]

NoReplay == [r \in {} |-> h1]

\* The same pull request with a manual review and a hook whose action is no
\* longer reviewed by the time it is worked on.
IgnoredDeliveries == {h2, m1, fA, fB}
LateHook == {h2}
OneManual == {m1}
NotReviewed == {h2}
IgnoredPr == [d \in IgnoredDeliveries |-> p1]

SlotSymmetry == Permutations(Slots)
=============================================================================
