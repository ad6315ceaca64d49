---------------------------- MODULE MCAgentQueue ----------------------------
(***************************************************************************)
(* An instance of AgentQueue for TLC: an issue with a webhook and a manual *)
(* triage, an event of no issue, and one slot for them.                    *)
(***************************************************************************)
EXTENDS AgentQueue

CONSTANTS h1, m1, h2, issue

ThreeDeliveries == {h1, m1, h2}
TwoHooks == {h1, h2}
OneManual == {m1}
TwoKeys == [d \in ThreeDeliveries |-> IF d = h2 THEN None ELSE issue]

\* The issue alone is interrupted twice, by replays, triages or restarts, and
\* once when the other event is there.  What leads outside is a webhook, a replay,
\* a shutdown or a crash, none of which has to happen: no fair step is cut.
FewInterruptions == replays + restarts <= IF row[h2] = "absent" THEN 2 ELSE 1

FewNext == Next /\ FewInterruptions'
FewSpec == Init /\ [][FewNext]_vars /\ Fairness
=============================================================================
