---------------------------- MODULE MCAutoclose ----------------------------
(***************************************************************************)
(* An instance of Autoclose for TLC: one question that is answered twice.  *)
(***************************************************************************)
EXTENDS Autoclose

CONSTANT q1

TwoAnswers == [i \in {q1} |-> 2]
=============================================================================
