----------------------------- MODULE AgentWork -----------------------------
(***************************************************************************)
(* What robomp's tasks do to one issue: the handlers of tasks.py set up the*)
(* issue's row and its workspace, run_task gives an agent the host tools,  *)
(* and the tools classify the issue, push its branch and open a pull       *)
(* request, on GitHub and in the database.                                 *)
(*                                                                         *)
(* The queue runs one event per key at a time.  Events of a pull request   *)
(* the row does not know yet carry the key of the pull request, so two     *)
(* tasks can work in the same workspace: thread "issue" and thread "pull". *)
(* The agent is a program outside this code: it may call any tool at any   *)
(* time and commit what it likes.  A refused tool call changes nothing and *)
(* has no action.                                                          *)
(*                                                                         *)
(* A commit is known by what distinguishes it here: whether the bot's work *)
(* is in it, and the commits of other people it contains.  A ref is the set*)
(* of the commit it names, empty when there is no such ref.                *)
(***************************************************************************)
EXTENDS Naturals, FiniteSets

CONSTANTS
    Foreigners,     \* commits other people may push
    MaxStarts,      \* bound: tasks started
    MaxPulls        \* bound: pull requests

ASSUME WorkAssumption == MaxStarts \in Nat

VARIABLES
    issueRow,       \* the row of issues: state, branch, pull, class
    checkout,       \* branch checked out in the worktree; NoBranch if there is none
    localRefs,      \* refs/heads of the pool clone
    originRefs,     \* refs/remotes/origin of the pool clone
    remoteRefs,     \* refs/heads on GitHub
    pulls,          \* GitHub: pull requests of the bot
    authorized,     \* events holds one that authorizes the implementation
    threads,        \* the two tasks that can run
    starts,         \* tasks started, for the bound
    firstClass,     \* history: the first classification
    fetched         \* history: foreign commits that fetches of the pool clone
                    \* brought, whichever task fetched

workVars == <<issueRow, checkout, localRefs, originRefs, remoteRefs, pulls,
              authorized, threads, starts, firstClass, fetched>>
git == <<checkout, localRefs, originRefs, remoteRefs, fetched>>
onGitHub == <<remoteRefs, pulls>>

NoBranch == "none"
NoPull == 0
Branches == {"titled", "renamed"}       \* make_branch; the slug of classify_issue
PullIds == 1 .. MaxPulls
Classes == {"bug", "proposal"}
AutoPrClasses == {"bug"}                \* _AUTO_PR_CLASSIFICATIONS
\* Handlers and tools tell three kinds of state apart: there is no row, the
\* row is "reproducing", "opened" or "needs_info", or it is finalized:
\* "merged", "closed" or "abandoned".
IssueStates == {"untriaged", "active", "finalized"}
Directives == {"none", "plain", "impl"}
Commit == [own : BOOLEAN, foreign : SUBSET Foreigners]
Base == [own |-> FALSE, foreign |-> {}]
IdleTask == [phase |-> "idle", kind |-> "none", branch |-> NoBranch,
             pull |-> NoPull, directive |-> "none"]

ForeignIn(ref) == UNION {c.foreign : c \in ref}
AllForeign(refs) == UNION {ForeignIn(refs[b]) : b \in Branches}

WorkTypeOK ==
    /\ issueRow \in [state : IssueStates, branch : Branches \union {NoBranch},
                     pull : PullIds \union {NoPull}, class : Classes \union {"none"}]
    /\ checkout \in Branches \union {NoBranch}
    /\ \A refs \in {localRefs, originRefs, remoteRefs} :
          /\ refs \in [Branches -> SUBSET Commit]
          /\ \A b \in Branches : Cardinality(refs[b]) <= 1
    /\ pulls \in [PullIds -> [head : Branches \union {NoBranch}, open : BOOLEAN]]
    /\ authorized \in BOOLEAN
    /\ \A t \in {"issue", "pull"} :
          threads[t] \in [phase : {"idle", "setup", "agent", "push", "open",
                                   "create", "record", "cleanup"},
                          kind : {"none", "triage", "comment", "review",
                                  "conversation"},
                          branch : Branches \union {NoBranch},
                          pull : PullIds \union {NoPull}, directive : Directives]
    /\ starts \in 0 .. MaxStarts
    /\ firstClass \in Classes \union {"none"}
    /\ fetched \subseteq Foreigners

WorkInit ==
    /\ issueRow = [state |-> "untriaged", branch |-> NoBranch, pull |-> NoPull, class |-> "none"]
    /\ checkout = NoBranch
    /\ localRefs = [b \in Branches |-> {}]
    /\ originRefs = [b \in Branches |-> {}]
    /\ remoteRefs = [b \in Branches |-> {}]
    /\ pulls = [n \in PullIds |-> [head |-> NoBranch, open |-> FALSE]]
    /\ authorized = FALSE
    /\ threads = [t \in {"issue", "pull"} |-> IdleTask]
    /\ starts = 0
    /\ firstClass = "none"
    /\ fetched = {}

-----------------------------------------------------------------------------
(* The row.  upsert_issue keeps the columns it is not given (COALESCE): the*)
(* branch and the pull request of an issue survive its reopening.          *)

Upsert(state, branch) ==
    issueRow' = [issueRow EXCEPT !.state = state,
                                 !.branch = IF branch = NoBranch THEN @ ELSE branch]

Known == issueRow.state # "untriaged"

\* find_issue_by_pr, then find_issue_by_branch of the head branch.
RowOfPull(n) == Known /\ (issueRow.pull = n \/ issueRow.branch = pulls[n].head)

\* The key the webhook gives to events of pull request n decides the thread.
ThreadOfPull(n) == IF Known /\ issueRow.pull = n THEN "issue" ELSE "pull"

-----------------------------------------------------------------------------
(* Handlers: from the event to the workspace.                              *)

\* An event is recorded with its directive before it is queued.  One on an
\* issue that needs no authorization changes nothing.
RecordDirective == /\ ~authorized
                   /\ issueRow.class \notin AutoPrClasses
                   /\ authorized' = TRUE
                   /\ UNCHANGED <<issueRow, git, pulls, threads, starts, firstClass>>

StartTask(t, kind, branch, n, directive) ==
    /\ threads[t].phase = "idle"
    /\ starts < MaxStarts
    /\ starts' = starts + 1
    /\ threads' = [threads EXCEPT ![t] = [phase |-> "setup", kind |-> kind, branch |-> branch,
                                          pull |-> n, directive |-> directive]]
    /\ directive = "impl" => authorized \/ t = "pull"
    /\ UNCHANGED <<localRefs, originRefs, onGitHub, fetched, authorized, firstClass>>

\* remove_workspace: the worktree goes, the branch stays in the pool clone.
RemoveIfFinalized ==
    checkout' = IF issueRow.state = "finalized" THEN NoBranch ELSE checkout

\* triage_issue; a first triage is skipped if a pull request closes the issue.
TriageIssue ==
    /\ StartTask("issue", "triage", NoBranch, NoPull, "none")
    /\ RemoveIfFinalized
    /\ Upsert("active", NoBranch)

\* handle_comment: an unknown or finalized issue needs a directive.
HandleComment(directive) ==
    LET fresh == ~Known \/ issueRow.state = "finalized" IN
    /\ fresh => directive # "none"
    /\ StartTask("issue", IF fresh THEN "triage" ELSE "comment",
                 IF fresh THEN NoBranch ELSE issueRow.branch, NoPull, directive)
    /\ RemoveIfFinalized
    /\ IF fresh THEN Upsert("active", NoBranch) ELSE UNCHANGED issueRow

\* _resolve_issue_row_for_pr repairs the row's pull request when it found the
\* row by the branch.
Resolved(n) == [issueRow EXCEPT !.pull = n]

HandleReview(n) ==
    /\ RowOfPull(n)
    /\ issueRow.branch # NoBranch
    /\ StartTask(ThreadOfPull(n), "review", issueRow.branch, n, "none")
    /\ issueRow' = Resolved(n)
    /\ UNCHANGED checkout

HandlePrConversation(n, directive) ==
    LET finalized == issueRow.state = "finalized" IN
    /\ RowOfPull(n)
    /\ issueRow.branch # NoBranch
    /\ finalized => directive # "none"
    /\ StartTask(ThreadOfPull(n), "conversation", issueRow.branch, n, directive)
    /\ RemoveIfFinalized
    /\ issueRow' = IF finalized THEN [Resolved(n) EXCEPT !.state = "active"]
                                ELSE Resolved(n)

\* cleanup_workspace of the closed issue or of the closed or merged pull
\* request n: the worktree is removed, then the state is set.
CleanupWorkspace(n) ==
    LET t == IF n = NoPull THEN "issue" ELSE ThreadOfPull(n) IN
    /\ Known
    /\ n # NoPull => issueRow.pull = n /\ pulls[n].head # NoBranch /\ ~pulls[n].open
    /\ threads[t].phase = "idle"
    /\ starts < MaxStarts
    /\ starts' = starts + 1
    /\ threads' = [threads EXCEPT ![t] = [IdleTask EXCEPT !.phase = "cleanup"]]
    /\ checkout' = NoBranch
    /\ UNCHANGED <<issueRow, localRefs, originRefs, onGitHub, fetched,
                   authorized, firstClass>>

FinishCleanup(t) ==
    /\ threads[t].phase = "cleanup"
    /\ issueRow' = [issueRow EXCEPT !.state = "finalized"]
    /\ threads' = [threads EXCEPT ![t] = IdleTask]
    /\ UNCHANGED <<git, pulls, authorized, starts, firstClass>>

\* fetch_prune of the pool clone: every origin ref is what GitHub has.
FetchPool ==
    /\ originRefs' = remoteRefs
    /\ fetched' = fetched \union AllForeign(remoteRefs)

\* Where a new worktree of a branch starts: the local branch if there is one,
\* else origin's branch when the caller named it, else the default branch.
StartPoint(branch, named) ==
    IF localRefs[branch] # {} THEN localRefs[branch]
    ELSE IF named /\ remoteRefs[branch] # {} THEN remoteRefs[branch] ELSE {Base}

\* ensure_workspace: an existing checkout keeps its branch whatever was asked.
EnsureWorkspace(t) ==
    LET asked == threads[t].branch
        branch == IF checkout # NoBranch THEN checkout
                  ELSE IF asked # NoBranch THEN asked ELSE "titled" IN
    /\ threads[t].phase = "setup"
    /\ FetchPool
    /\ checkout' = branch
    /\ localRefs' = IF checkout # NoBranch THEN localRefs
                    ELSE [localRefs EXCEPT ![branch] = StartPoint(branch, asked # NoBranch)]
    /\ IF \/ threads[t].kind = "triage"
          \/ /\ threads[t].kind = "conversation"
             /\ threads[t].directive # "none"
             /\ issueRow.branch # branch
       THEN Upsert("active", branch) ELSE UNCHANGED issueRow
    /\ threads' = [threads EXCEPT ![t] =
            [threads[t] EXCEPT !.phase = "agent", !.kind = "none", !.branch = branch,
                               !.directive = IF @ = "impl" THEN @ ELSE "none"]]
    /\ UNCHANGED <<onGitHub, authorized, starts, firstClass>>

\* A task of another issue of the repository refreshes the shared pool clone.
OtherTaskFetches ==
    /\ originRefs # remoteRefs
    /\ FetchPool
    /\ UNCHANGED <<issueRow, checkout, localRefs, onGitHub, authorized,
                   threads, starts, firstClass>>

\* The task ends: the agent stops, the turn times out or is cancelled, a call
\* fails, the process restarts.
EndTask(t) ==
    /\ threads[t].phase \notin {"idle", "cleanup"}
    /\ threads' = [threads EXCEPT ![t] = IdleTask]
    /\ UNCHANGED <<issueRow, git, pulls, authorized, starts, firstClass>>

-----------------------------------------------------------------------------
(* Host tools.                                                             *)

AtWork(t) == threads[t].phase = "agent"
GoOn(t, phase) == threads' = [threads EXCEPT ![t].phase = phase]
Tip == localRefs[checkout]

\* The agent commits to the branch it is on: its own work, on top of what is
\* there or brought together with what origin's branch has, in its own name.
AgentCommits(t) ==
    /\ AtWork(t)
    /\ checkout # NoBranch
    /\ \E c \in Tip, theirs \in {{}, ForeignIn(originRefs[checkout])} :
          localRefs' = [localRefs EXCEPT ![checkout] =
                          {[own |-> TRUE, foreign |-> c.foreign \union theirs]}]
    /\ UNCHANGED <<issueRow, checkout, originRefs, onGitHub, fetched, authorized,
                   threads, starts, firstClass>>

\* rename_workspace_branch: not once a pull request tracks the branch, and
\* not onto a branch that exists.
CanRename(t) == /\ issueRow.pull = NoPull
                /\ threads[t].branch = "titled"
                /\ localRefs["titled"] # {}
                /\ localRefs["renamed"] = {}

RenameBranch(t) ==
    /\ localRefs' = [localRefs EXCEPT !["renamed"] = localRefs["titled"], !["titled"] = {}]
    /\ checkout' = IF checkout = "titled" THEN "renamed" ELSE checkout
    /\ threads' = [threads EXCEPT ![t].branch = "renamed"]

\* classify_issue is a no-op on the thread of a pull request and the second
\* time.
MayReclassify(t) == threads[t].pull = NoPull
MayClassify(t) == threads[t].pull = NoPull /\ issueRow.class = "none"

\* The branch is renamed first; if GitHub then refuses the labels the rename
\* stays and the issue is not classified.
ClassifyIssue(t, class, rename, labelled) ==
    /\ AtWork(t)
    /\ MayClassify(t)
    /\ rename \/ labelled
    /\ IF rename THEN CanRename(t) /\ RenameBranch(t)
                 ELSE UNCHANGED <<localRefs, checkout, threads>>
    /\ issueRow' = [issueRow EXCEPT !.branch = IF rename THEN "renamed" ELSE @,
                                    !.class = IF labelled THEN class ELSE @]
    /\ firstClass' = IF labelled /\ firstClass = "none" THEN class ELSE firstClass
    /\ UNCHANGED <<originRefs, onGitHub, fetched, pulls, authorized, starts>>

\* _enforce_impl_authorization.
ImplAuthorized(t) == \/ threads[t].directive = "impl"
                     \/ authorized
                     \/ issueRow.pull # NoPull
                     \/ issueRow.class \in AutoPrClasses

\* gh_push_branch and gh_open_pr up to the push: the authorization, then the
\* formatter, the check and, before a pull request, the test suite.  What the
\* formatter changes is amended into the agent's own HEAD commit, which here
\* is the same commit: versions of the bot's work are not told apart.
PrePublish(t, phase) ==
    /\ AtWork(t)
    /\ ImplAuthorized(t)
    /\ checkout # NoBranch
    /\ GoOn(t, phase)
    /\ UNCHANGED <<issueRow, git, pulls, authorized, starts, firstClass>>

\* A gate after the authorization refuses: the tool call is over.
GateRefuses(t) ==
    /\ threads[t].phase \in {"push", "open", "create"}
    /\ GoOn(t, "agent")
    /\ UNCHANGED <<issueRow, git, pulls, authorized, starts, firstClass>>

\* git_ops.push: the lease expects GitHub's ref to be what the pool clone
\* last saw of it.
LeaseIfTracked(branch) ==
    originRefs[branch] # {} => remoteRefs[branch] = originRefs[branch]
LeaseHolds(branch) == remoteRefs[branch] = originRefs[branch]

\* _guarded_push_branch.  The refresh of the origin ref after the push may
\* fail and is then only logged.
GuardedPush(t, refreshed) ==
    LET branch == threads[t].branch IN
    /\ threads[t].phase \in {"push", "open"}
    /\ checkout # NoBranch
    /\ LeaseHolds(branch)
    /\ remoteRefs' = [remoteRefs EXCEPT ![branch] = Tip]
    /\ originRefs' = IF refreshed THEN [originRefs EXCEPT ![branch] = Tip] ELSE originRefs
    /\ GoOn(t, IF threads[t].phase = "open" THEN "create" ELSE "agent")
    /\ UNCHANGED <<issueRow, checkout, localRefs, fetched, pulls, authorized,
                   starts, firstClass>>

\* open_pull_request: GitHub refuses a second one for an open head.
CreatePull(t, n) ==
    /\ threads[t].phase = "create"
    /\ remoteRefs[threads[t].branch] # {}
    /\ \A m \in PullIds : pulls[m].open => pulls[m].head # threads[t].branch
    /\ pulls[n].head = NoBranch /\ \A m \in 1 .. n - 1 : pulls[m].head # NoBranch
    /\ pulls' = [pulls EXCEPT ![n] = [head |-> threads[t].branch, open |-> TRUE]]
    /\ threads' = [threads EXCEPT ![t] = [@ EXCEPT !.phase = "record", !.pull = n]]
    /\ UNCHANGED <<issueRow, git, authorized, starts, firstClass>>

\* set_issue_pr, set_issue_state and the needs-info label.
RecordPull(t) ==
    /\ threads[t].phase = "record"
    /\ issueRow' = [issueRow EXCEPT !.pull = threads[t].pull, !.state = "active"]
    /\ GoOn(t, "agent")
    /\ UNCHANGED <<git, pulls, authorized, starts, firstClass>>

\* mark_unable_to_reproduce sets "needs_info", whatever the state was.
MarkUnable(t) ==
    /\ AtWork(t)
    /\ issueRow.state = "finalized"
    /\ issueRow' = [issueRow EXCEPT !.state = "active"]
    /\ UNCHANGED <<git, pulls, authorized, threads, starts, firstClass>>

\* abort_task: the state is set and the signal stops the agent.
AbortTask(t) ==
    /\ AtWork(t)
    /\ issueRow' = [issueRow EXCEPT !.state = "finalized"]
    /\ threads' = [threads EXCEPT ![t] = IdleTask]
    /\ UNCHANGED <<git, pulls, authorized, starts, firstClass>>

-----------------------------------------------------------------------------
(* People, on GitHub.                                                      *)

ForeignPush(branch, f) ==
    /\ remoteRefs[branch] # {}
    /\ f \notin AllForeign(remoteRefs) \union AllForeign(localRefs) \union fetched
    /\ remoteRefs' = [remoteRefs EXCEPT ![branch] =
                        {[own |-> c.own, foreign |-> c.foreign \union {f}] : c \in @}]
    /\ UNCHANGED <<issueRow, checkout, localRefs, originRefs, fetched, pulls,
                   authorized, threads, starts, firstClass>>

\* A pull request is closed or merged, its branch perhaps deleted.
ClosePull(n, deleteBranch) ==
    /\ pulls[n].open
    /\ pulls' = [pulls EXCEPT ![n].open = FALSE]
    /\ remoteRefs' = [b \in Branches |-> IF deleteBranch /\ b = pulls[n].head
                                          THEN {} ELSE remoteRefs[b]]
    /\ UNCHANGED <<issueRow, checkout, localRefs, originRefs, fetched,
                   authorized, threads, starts, firstClass>>

-----------------------------------------------------------------------------
Handlers ==
    \/ RecordDirective
    \/ TriageIssue
    \/ \E d \in Directives : HandleComment(d)
    \/ \E n \in PullIds : HandleReview(n) \/ \E d \in Directives : HandlePrConversation(n, d)
    \/ \E n \in PullIds \union {NoPull} : CleanupWorkspace(n)
    \/ \E t \in {"issue", "pull"} : FinishCleanup(t) \/ EnsureWorkspace(t) \/ EndTask(t)
    \/ OtherTaskFetches

Tools(t) ==
    \/ AgentCommits(t)
    \/ \E c \in Classes, r, l \in BOOLEAN : ClassifyIssue(t, c, r, l)
    \/ \E phase \in {"push", "open"} : PrePublish(t, phase)
    \/ GateRefuses(t)
    \/ \E r \in BOOLEAN : GuardedPush(t, r)
    \/ \E n \in PullIds : CreatePull(t, n)
    \/ RecordPull(t) \/ MarkUnable(t) \/ AbortTask(t)

People ==
    \/ \E b \in Branches, f \in Foreigners : ForeignPush(b, f)
    \/ \E n \in PullIds, d \in BOOLEAN : ClosePull(n, d)

WorkNext == Handlers \/ (\E t \in {"issue", "pull"} : Tools(t)) \/ People

WorkSpec == WorkInit /\ [][WorkNext]_workVars

-----------------------------------------------------------------------------
(* Nothing of the issue is on GitHub, neither a branch nor a pull request, *)
(* unless it was first classified as something the bot may fix unasked or  *)
(* a maintainer's directive that authorizes it was recorded.  The check is *)
(* made when a tool is called, from a row that classify_issue, pull request*)
(* events and the previous life of a reopened issue also write.            *)
PublishedIsAuthorized ==
    (\E n \in PullIds : pulls[n].head # NoBranch) \/ (\E b \in Branches : remoteRefs[b] # {})
        => authorized \/ firstClass \in AutoPrClasses

(* What a push may drop of other people's commits: at most what a fetch of *)
(* the pool clone had brought before.  Someone who pushes to the bot's     *)
(* branch after the last fetch, whoever made it, keeps their work.         *)
Dropped(b) == IF remoteRefs'[b] = {} THEN {}
              ELSE ForeignIn(remoteRefs[b]) \ ForeignIn(remoteRefs'[b])

LeaseProtects ==
    [][\A b \in Branches : Dropped(b) \subseteq fetched]_workVars
=============================================================================
