---------------------------- MODULE ReleaseTrain ----------------------------
(***************************************************************************)
(* robomp's release sentinel: verdicts of GitHub Actions on a release      *)
(* commit drive a row of releases; a failure starts a round in which an    *)
(* agent fixes the default branch and moves the tag to its fix.            *)
(*                                                                         *)
(* Commits of the default branch are numbered in order.  The events of one *)
(* repository share a key, so one task runs at a time; people push, tag    *)
(* and rerun workflows at any moment, and an event may be delivered late,  *)
(* again, or once more after the task it started died.                     *)
(***************************************************************************)
EXTENDS Naturals, FiniteSets

CONSTANTS
    Tags,           \* release tags
    MaxRounds,      \* settings.release_max_rounds
    MaxShas         \* bound: commits of the default branch

ASSUME ReleaseAssumption == MaxRounds \in Nat /\ MaxShas \in Nat

VARIABLES
    releases,       \* rows of releases: tag -> state, sha, failed, rounds
    tagSha,         \* GitHub: commit of each tag; 0 if there is none
    releaseOf,      \* GitHub: commit -> tag its message releases
    mainSha,        \* GitHub: head of the default branch
    verdicts,       \* GitHub: conclusions of the workflow runs of each commit
    sentinel,       \* the task: phase, tag, sha it works from, commit it made
    failedShas      \* history: commits whose failure started a round, per tag

releaseVars == <<releases, tagSha, releaseOf, mainSha, verdicts, sentinel,
                 failedShas>>
actions == <<tagSha, releaseOf, mainSha, verdicts>>

NoTag == "none"
Shas == 1 .. MaxShas
Conclusions == {"success", "failure", "action_required"}
Blocking == {"failure", "action_required"}  \* _BLOCKING_RELEASE_CONCLUSIONS
Terminal == {"green", "failed", "superseded"}
Asleep == [phase |-> "idle", tag |-> NoTag, sha |-> 0, fix |-> 0]

IsActive(row) == row.state \in {"awaiting_ci", "fixing"}

ReleaseTypeOK ==
    /\ releases \in [Tags -> [state : {"none", "awaiting_ci", "fixing"} \union Terminal,
                              sha : 0 .. MaxShas, failed : 0 .. MaxShas, rounds : Nat]]
    /\ Cardinality({t \in Tags : IsActive(releases[t])}) <= 1
    /\ tagSha \in [Tags -> 0 .. MaxShas]
    /\ releaseOf \in [Shas -> Tags \union {NoTag}]
    /\ mainSha \in 0 .. MaxShas
    /\ verdicts \in [Shas -> [done : SUBSET Conclusions, running : BOOLEAN]]
    /\ sentinel \in [phase : {"idle", "verdict", "workspace", "agent", "push", "record"},
                     tag : Tags \union {NoTag}, sha : 0 .. MaxShas, fix : 0 .. MaxShas]
    /\ failedShas \in [Tags -> SUBSET Shas]

ReleaseInit ==
    /\ releases = [t \in Tags |-> [state |-> "none", sha |-> 0, failed |-> 0, rounds |-> 0]]
    /\ tagSha = [t \in Tags |-> 0]
    /\ releaseOf = [s \in Shas |-> NoTag]
    /\ mainSha = 0
    /\ verdicts = [s \in Shas |-> [done |-> {}, running |-> TRUE]]
    /\ sentinel = Asleep
    /\ failedShas = [t \in Tags |-> {}]

-----------------------------------------------------------------------------
(* GitHub.                                                                 *)

\* A commit lands on the default branch; a maintainer's release commit also
\* gets a new tag, or the tag it repairs by hand.
PersonCommits(tag) ==
    /\ mainSha < MaxShas
    /\ mainSha' = mainSha + 1
    /\ releaseOf' = [releaseOf EXCEPT ![mainSha + 1] = tag]
    /\ tagSha' = [t \in Tags |-> IF t = tag THEN mainSha + 1 ELSE tagSha[t]]
    /\ UNCHANGED <<releases, verdicts, sentinel, failedShas>>

\* One of the two workflow runs of a release commit completes.
RunCompletes(s, c) ==
    /\ s <= mainSha /\ releaseOf[s] # NoTag
    /\ verdicts[s].running
    /\ verdicts' = [verdicts EXCEPT ![s] = [done |-> @.done \union {c}, running |-> @.done = {}]]
    /\ UNCHANGED <<releases, tagSha, releaseOf, mainSha, sentinel, failedShas>>

-----------------------------------------------------------------------------
(* The table releases.                                                     *)

SetState(t, st) == releases' = [releases EXCEPT ![t].state = st]

\* The rows as the handler of an event on commit s of tag t leaves them
\* before it looks at the conclusion: the row exists, the active release, of
\* which there is at most one, is superseded if it is another, and the row
\* knows its commit unless it is terminal.
RowsForEvent(t, s) ==
    [u \in Tags |->
        IF u # t THEN IF IsActive(releases[u]) THEN [releases[u] EXCEPT !.state = "superseded"]
                      ELSE releases[u]
        ELSE IF releases[t].state = "none"
             THEN [releases[t] EXCEPT !.state = "awaiting_ci", !.sha = s]
        ELSE IF releases[t].state \in Terminal THEN releases[t]
             ELSE [releases[t] EXCEPT !.sha = s]]

-----------------------------------------------------------------------------
(* handle_release_ci.                                                      *)

\* The event of a run is for the commit the tag is on now, or it is stale.
IsCurrent(s) == releaseOf[s] # NoTag /\ tagSha[releaseOf[s]] = s

\* A failure starts a round unless the round for this commit is under way.
RoundAnyEvent(row, s) == FALSE
RoundUnderWay(row, s) == row.state = "fixing" /\ row.failed = s

Sleep == sentinel' = Asleep
Wake(phase, t, s) == sentinel' = [phase |-> phase, tag |-> t, sha |-> s, fix |-> 0]

HandleReleaseCi(s, c) ==
    LET t == releaseOf[s]
        rows == RowsForEvent(t, s)
        row == rows[t] IN
    /\ sentinel.phase = "idle"
    /\ c \in verdicts[s].done
    /\ IsCurrent(s)
    /\ UNCHANGED actions
    /\ \/ /\ row.state \in Terminal
          /\ releases' = rows /\ UNCHANGED <<sentinel, failedShas>>
       \/ /\ row.state \notin Terminal /\ c = "success"
          /\ releases' = rows /\ Wake("verdict", t, s) /\ UNCHANGED failedShas
       \/ /\ row.state \notin Terminal /\ c = "action_required"
          /\ releases' = [rows EXCEPT ![t].state = "failed"]
          /\ UNCHANGED <<sentinel, failedShas>>
       \/ /\ row.state \notin Terminal /\ c = "failure" /\ RoundUnderWay(row, s)
          /\ releases' = rows /\ Wake("workspace", t, s) /\ UNCHANGED failedShas
       \/ /\ row.state \notin Terminal /\ c = "failure" /\ ~RoundUnderWay(row, s)
          /\ row.rounds >= MaxRounds
          /\ releases' = [rows EXCEPT ![t].state = "failed"]
          /\ UNCHANGED <<sentinel, failedShas>>
       \/ /\ row.state \notin Terminal /\ c = "failure" /\ ~RoundUnderWay(row, s)
          /\ row.rounds < MaxRounds
          /\ releases' = [rows EXCEPT ![t] =
                  [row EXCEPT !.state = "fixing", !.failed = s, !.rounds = @ + 1]]
          /\ Wake("workspace", t, s)
          /\ failedShas' = [failedShas EXCEPT ![t] = @ \union {s}]

\* After a success: every run of the commit has completed, none blocks, and
\* GitHub has the published release; the last two are looked up one by one.
Conclude(published) ==
    LET v == verdicts[sentinel.sha] IN
    /\ sentinel.phase = "verdict"
    /\ Sleep
    /\ IF v.running \/ v.done \intersect Blocking # {}
       THEN UNCHANGED releases
       ELSE SetState(sentinel.tag, IF published THEN "green" ELSE "failed")
    /\ UNCHANGED <<actions, failedShas>>

\* ensure_release_workspace resets to the default branch, which must still be
\* the failing commit.
EnsureReleaseWorkspace ==
    /\ sentinel.phase = "workspace"
    /\ IF mainSha = sentinel.sha
       THEN sentinel' = [sentinel EXCEPT !.phase = "agent"] /\ UNCHANGED releases
       ELSE Sleep /\ SetState(sentinel.tag, "failed")
    /\ UNCHANGED <<actions, failedShas>>

\* release_retag after its gates: the tag is still on the failing commit.
ReleaseRetag ==
    /\ sentinel.phase = "agent"
    /\ tagSha[sentinel.tag] = sentinel.sha
    /\ sentinel' = [sentinel EXCEPT !.phase = "push"]
    /\ UNCHANGED <<releases, actions, failedShas>>

\* push_release: branch and tag move together, the branch only forward, the
\* tag by force.
PushRelease ==
    LET fix == mainSha + 1 IN
    /\ sentinel.phase = "push"
    /\ mainSha = sentinel.sha /\ mainSha < MaxShas
    /\ mainSha' = fix
    /\ releaseOf' = [releaseOf EXCEPT ![fix] = sentinel.tag]
    /\ tagSha' = [tagSha EXCEPT ![sentinel.tag] = fix]
    /\ sentinel' = [sentinel EXCEPT !.phase = "record", !.fix = fix]
    /\ UNCHANGED <<releases, verdicts, failedShas>>

PushRefused ==
    /\ sentinel.phase = "push"
    /\ sentinel' = [sentinel EXCEPT !.phase = "agent"]
    /\ UNCHANGED <<releases, actions, failedShas>>

\* set_release_sha and set_release_state.
RecordRetag ==
    /\ sentinel.phase = "record"
    /\ releases' = [releases EXCEPT ![sentinel.tag] =
                        [@ EXCEPT !.sha = sentinel.fix, !.state = "awaiting_ci"]]
    /\ sentinel' = [sentinel EXCEPT !.phase = "agent"]
    /\ UNCHANGED <<actions, failedShas>>

\* The agent's turn ends: a round that did not move the tag has failed.
\* abort_task sets the same state first.
RoundEnds(aborted) ==
    /\ sentinel.phase = "agent"
    /\ Sleep
    /\ IF aborted \/ releases[sentinel.tag].state = "fixing"
       THEN SetState(sentinel.tag, "failed") ELSE UNCHANGED releases
    /\ UNCHANGED <<actions, failedShas>>

\* The task fails, is cancelled or dies with the process at any call.
SentinelDies ==
    /\ sentinel.phase # "idle"
    /\ Sleep
    /\ UNCHANGED <<releases, actions, failedShas>>

-----------------------------------------------------------------------------
ReleaseNext ==
    \/ \E t \in Tags \union {NoTag} : PersonCommits(t)
    \/ \E s \in Shas, c \in Conclusions : RunCompletes(s, c) \/ HandleReleaseCi(s, c)
    \/ \E p \in BOOLEAN : Conclude(p)
    \/ EnsureReleaseWorkspace \/ ReleaseRetag \/ PushRelease \/ PushRefused \/ RecordRetag
    \/ \E a \in BOOLEAN : RoundEnds(a)
    \/ SentinelDies

ReleaseSpec == ReleaseInit /\ [][ReleaseNext]_releaseVars

-----------------------------------------------------------------------------
(* A failing commit costs its release one round, however many of its runs  *)
(* fail, in whatever order their events come, and however often a task     *)
(* that died is started again: the rounds are the commits that failed.     *)
OneRoundPerFailure ==
    \A t \in Tags : releases[t].rounds = Cardinality(failedShas[t])
=============================================================================
