----------------------------- MODULE Autoclose -----------------------------
(***************************************************************************)
(* robomp closes an answered question after a quiet window: gh_post_comment*)
(* schedules the closure, webhooks cancel it, and the AutocloseScheduler   *)
(* claims due rows of pending_closures and closes their issues.            *)
(*                                                                         *)
(* A row watches one comment, the bot's answer, numbered per issue.  The   *)
(* scheduler is one coroutine; every call to GitHub is an await at which   *)
(* webhooks and tools act.                                                 *)
(***************************************************************************)
EXTENDS Naturals, FiniteSets

CONSTANTS
    Questions,      \* issues classified "question"
    Nobody,         \* no question
    MaxAnswers      \* bound: answers of the bot to each

ASSUME AutocloseAssumption ==
    /\ Nobody \notin Questions
    /\ MaxAnswers \in [Questions -> Nat]

VARIABLES
    closure,        \* pending_closures: state, watched comment, close_at passed
    issueState,     \* issues.state in the database: "open" or "closed"
    ghOpen,         \* GitHub: the issue is open
    posted,         \* GitHub: answers of the bot so far
    vetoes,         \* GitHub: <<issue, comment>> with a thumbs down by the author
    unscheduled,    \* posted answers whose tool call has not scheduled them yet
    closedHooks,    \* webhooks issues.closed under way
    tickPc,         \* the scheduler: "wait", "pick", "react", "close", "closing"
    batch,          \* claimed rows of this tick: issue -> watched comment
    current,        \* the row it works on
    spared,         \* history: <<issue, comment>> whose pending row was cancelled
    abandoned       \* history: <<issue, comment>> claimed by a tick that died

autocloseVars == <<closure, issueState, ghOpen, posted, vetoes, unscheduled,
                   closedHooks, tickPc, batch, current, spared, abandoned>>
githubSide == <<ghOpen, posted, vetoes>>
tickVars == <<tickPc, batch, current>>

ClosureStates == {"none", "pending", "claimed", "closed", "cancelled"}

AutocloseTypeOK ==
    /\ closure \in [Questions -> [state : ClosureStates, comment : Nat, due : BOOLEAN]]
    /\ issueState \in [Questions -> {"open", "closed"}]
    /\ ghOpen \in [Questions -> BOOLEAN]
    /\ posted \in [Questions -> Nat]
    /\ vetoes \subseteq Questions \X Nat
    /\ unscheduled \subseteq Questions \X Nat
    /\ closedHooks \subseteq Questions
    /\ tickPc \in {"wait", "pick", "react", "close", "closing"}
    /\ DOMAIN batch \subseteq Questions
    /\ \A i \in DOMAIN batch : batch[i] \in Nat
    /\ current \in Questions \union {Nobody}
    /\ spared \subseteq Questions \X Nat
    /\ abandoned \subseteq Questions \X Nat

AutocloseInit ==
    /\ closure = [i \in Questions |-> [state |-> "none", comment |-> 0, due |-> FALSE]]
    /\ issueState = [i \in Questions |-> "open"]
    /\ ghOpen = [i \in Questions |-> TRUE]
    /\ posted = [i \in Questions |-> 0]
    /\ vetoes = {}
    /\ unscheduled = {}
    /\ closedHooks = {}
    /\ tickPc = "wait"
    /\ batch = [i \in {} |-> 0]
    /\ current = Nobody
    /\ spared = {}
    /\ abandoned = {}

-----------------------------------------------------------------------------
(* The table pending_closures.                                             *)

SetClosure(i, st) == closure' = [closure EXCEPT ![i].state = st]

\* upsert_pending_closure.
UpsertPendingClosure(i, c) ==
    closure' = [closure EXCEPT ![i] = [state |-> "pending", comment |-> c, due |-> FALSE]]

\* cancel_pending_closure: pending rows only.
CancelPendingClosure(i) ==
    IF closure[i].state = "pending"
    THEN /\ SetClosure(i, "cancelled")
         /\ spared' = spared \union {<<i, closure[i].comment>>}
    ELSE UNCHANGED <<closure, spared>>

\* finalize_closure: whatever the state of the row is by now.
FinalizeClosure(i, st) == SetClosure(i, st)

\* Mutant: a row in any state returns to pending.
RequeueAnyClosure(i) == SetClosure(i, "pending")

\* requeue_claimed_closure.
RequeueClaimedClosure(i) ==
    IF closure[i].state = "claimed" THEN SetClosure(i, "pending") ELSE UNCHANGED closure

-----------------------------------------------------------------------------
(* Authors, tools and webhooks.                                            *)

\* gh_post_comment answers a question: _should_schedule_autoclose is decided
\* before the comment is posted ...
PostAnswer(i) ==
    /\ issueState[i] = "open"
    /\ posted[i] < MaxAnswers[i]
    /\ posted' = [posted EXCEPT ![i] = @ + 1]
    /\ unscheduled' = unscheduled \union {<<i, posted[i] + 1>>}
    /\ UNCHANGED <<closure, issueState, ghOpen, vetoes, closedHooks, tickVars, spared, abandoned>>

\* ... and the row is written when the answer of GitHub is there, if at all.
ScheduleAutoclose(i, c) ==
    /\ <<i, c>> \in unscheduled
    /\ unscheduled' = unscheduled \ {<<i, c>>}
    /\ \/ UpsertPendingClosure(i, c)
       \/ UNCHANGED closure
    /\ UNCHANGED <<issueState, githubSide, closedHooks, tickVars, spared, abandoned>>

ClosureComesDue(i) ==
    /\ closure[i].state = "pending"
    /\ ~closure[i].due
    /\ closure' = [closure EXCEPT ![i].due = TRUE]
    /\ UNCHANGED <<issueState, githubSide, unscheduled, closedHooks, tickVars, spared, abandoned>>

ThumbsDown(i) ==
    /\ posted[i] > 0
    /\ vetoes' = vetoes \union {<<i, posted[i]>>}
    /\ UNCHANGED <<closure, issueState, ghOpen, posted, unscheduled, closedHooks, tickVars, spared, abandoned>>

\* webhook: issue_comment.created that routes to handle_comment.
UserReplied(i) ==
    /\ CancelPendingClosure(i)
    /\ UNCHANGED <<issueState, githubSide, unscheduled, closedHooks, tickVars, abandoned>>

UserCloses(i) ==
    /\ ghOpen[i]
    /\ ghOpen' = [ghOpen EXCEPT ![i] = FALSE]
    /\ closedHooks' = closedHooks \union {i}
    /\ UNCHANGED <<closure, issueState, posted, vetoes, unscheduled, tickVars, spared, abandoned>>

\* webhook: issues.closed; the task it queues marks the issue closed.
ExternallyClosed(i) ==
    /\ i \in closedHooks
    /\ closedHooks' = closedHooks \ {i}
    /\ CancelPendingClosure(i)
    /\ issueState' = [issueState EXCEPT ![i] = "closed"]
    /\ UNCHANGED <<githubSide, unscheduled, tickVars, abandoned>>

\* issues.reopened is triaged anew.
UserReopens(i) ==
    /\ ~ghOpen[i]
    /\ i \notin closedHooks
    /\ ghOpen' = [ghOpen EXCEPT ![i] = TRUE]
    /\ issueState' = [issueState EXCEPT ![i] = "open"]
    /\ UNCHANGED <<closure, posted, vetoes, unscheduled, closedHooks, tickVars, spared, abandoned>>

-----------------------------------------------------------------------------
(* The scheduler.                                                          *)

DueClosures == {i \in Questions : closure[i].state = "pending" /\ closure[i].due}

\* tick: claim_due_closures takes all due rows (their limit is 50).
ClaimDueClosures ==
    /\ tickPc = "wait"
    /\ DueClosures # {}
    /\ closure' = [i \in Questions |->
            IF i \in DueClosures THEN [closure[i] EXCEPT !.state = "claimed"] ELSE closure[i]]
    /\ batch' = [i \in DueClosures |-> closure[i].comment]
    /\ tickPc' = "pick"
    /\ UNCHANGED <<issueState, githubSide, unscheduled, closedHooks, current, spared, abandoned>>

\* tick: the next claimed row.
PickRow(i) ==
    /\ tickPc = "pick"
    /\ i \in DOMAIN batch
    /\ current' = i
    /\ tickPc' = "react"
    /\ UNCHANGED <<closure, issueState, githubSide, unscheduled, closedHooks, batch, spared, abandoned>>

\* _process_row has returned.
RowDone ==
    LET rest == DOMAIN batch \ {current}
    IN  /\ batch' = [i \in rest |-> batch[i]]
        /\ current' = Nobody
        /\ tickPc' = IF rest = {} THEN "wait" ELSE "pick"

\* _process_row: list_comment_reactions.
CheckReactions ==
    /\ tickPc = "react"
    /\ IF <<current, batch[current]>> \in vetoes
       THEN FinalizeClosure(current, "cancelled") /\ RowDone
       ELSE tickPc' = "close" /\ UNCHANGED <<closure, batch, current>>
    /\ UNCHANGED <<issueState, githubSide, unscheduled, closedHooks, spared, abandoned>>

\* _process_row: a GitHubError of either call, or a lost answer to the second.
GitHubCallFails ==
    /\ tickPc \in {"react", "close", "closing"}
    /\ RequeueClaimedClosure(current)
    /\ RowDone
    /\ UNCHANGED <<issueState, githubSide, unscheduled, closedHooks, spared, abandoned>>

\* _process_row: close_issue answers 404.
IssueGone ==
    /\ tickPc = "close"
    /\ FinalizeClosure(current, "cancelled")
    /\ RowDone
    /\ UNCHANGED <<issueState, githubSide, unscheduled, closedHooks, spared, abandoned>>

\* _process_row: close_issue reaches GitHub ...
CloseIssue ==
    /\ tickPc = "close"
    /\ ghOpen' = [ghOpen EXCEPT ![current] = FALSE]
    /\ closedHooks' = IF ghOpen[current] THEN closedHooks \union {current} ELSE closedHooks
    /\ tickPc' = "closing"
    /\ UNCHANGED <<closure, issueState, posted, vetoes, unscheduled, batch, current, spared, abandoned>>

\* ... and its answer the scheduler.
CloseAnswered ==
    /\ tickPc = "closing"
    /\ FinalizeClosure(current, "closed")
    /\ RowDone
    /\ UNCHANGED <<issueState, githubSide, unscheduled, closedHooks, spared, abandoned>>

\* The tick raises something else, is cancelled by stop(), or the process
\* dies: its rows stay claimed.
TickDies ==
    /\ tickPc # "wait"
    /\ tickPc' = "wait"
    /\ batch' = [i \in {} |-> 0]
    /\ current' = Nobody
    /\ abandoned' = abandoned \union {<<i, batch[i]>> : i \in DOMAIN batch}
    /\ UNCHANGED <<closure, issueState, githubSide, unscheduled, closedHooks, spared>>

AutocloseNext ==
    \/ \E i \in Questions : PostAnswer(i)
    \/ \E i \in Questions : \E c \in 1 .. MaxAnswers[i] : ScheduleAutoclose(i, c)
    \/ \E i \in Questions : ClosureComesDue(i)
    \/ \E i \in Questions : ThumbsDown(i)
    \/ \E i \in Questions : UserReplied(i)
    \/ \E i \in Questions : UserCloses(i)
    \/ \E i \in Questions : ExternallyClosed(i)
    \/ \E i \in Questions : UserReopens(i)
    \/ ClaimDueClosures
    \/ \E i \in Questions : PickRow(i)
    \/ CheckReactions
    \/ GitHubCallFails
    \/ IssueGone
    \/ CloseIssue
    \/ CloseAnswered
    \/ TickDies

AutocloseSpec == AutocloseInit /\ [][AutocloseNext]_autocloseVars

-----------------------------------------------------------------------------
(* Properties.                                                             *)

\* A reply, or a close by hand, that finds a closure pending settles it: the
\* scheduler never works on a row for the answer whose closure was cancelled,
\* whatever is requeued, finalized or scheduled again around it.  And a claimed
\* row is in the hands of the tick, or of one that died: those stay as they
\* are until the bot answers again.  (An answer is not an issue: the tick may
\* close the issue for an older answer, see NoCloseAfterCancel.)
CancelledStaysOpen ==
    /\ \A i \in DOMAIN batch : <<i, batch[i]>> \notin spared
    /\ \A i \in Questions :
          closure[i].state = "claimed" =>
              \/ i \in DOMAIN batch /\ batch[i] = closure[i].comment
              \/ <<i, closure[i].comment>> \in abandoned

\* What the docstring of autoclose.py says: the hook that cancels a closure and
\* the scheduler never race on the same row.  So the scheduler never closes an
\* issue whose row says that its closure is cancelled.
NoCloseAfterCancel ==
    [][tickPc = "close" /\ tickPc' = "closing" => closure[current].state # "cancelled"]_autocloseVars
=============================================================================
