---------------------------- MODULE MCAgentWork ----------------------------
(***************************************************************************)
(* AgentWork with one more history variable, for TLC: which commits of     *)
(* other people the tasks of this issue fetched themselves.                *)
(***************************************************************************)
EXTENDS AgentWork

VARIABLE fetchedHere

HereInit == WorkInit /\ fetchedHere = {}

\* EnsureWorkspace is the step that takes a task from its setup to its agent.
HereNext ==
    /\ WorkNext
    /\ fetchedHere' =
          IF \E t \in DOMAIN threads : threads[t].phase = "setup" /\ threads'[t].phase = "agent"
          THEN fetchedHere \union AllForeign(remoteRefs) ELSE fetchedHere

HereSpec == HereInit /\ [][HereNext]_<<workVars, fetchedHere>>

-----------------------------------------------------------------------------
(* The docstring of git_ops.push says that the lease is "what the workspace*)
(* last fetched" and that the push "never clobbers work the bot didn't     *)
(* see".  So no push drops a commit that no task of this issue fetched.    *)
UnseenIsKept ==
    [][\A b \in Branches : Dropped(b) \subseteq fetchedHere]_<<workVars, fetchedHere>>
=============================================================================
