---------------------------- MODULE MCPullReview ----------------------------
(***************************************************************************)
(* Two remarks on one incoming pull request, three tasks.                  *)
(***************************************************************************)
EXTENDS PullReview

CONSTANTS r1, r2

TwoRemarks == {r1, r2}
=============================================================================
