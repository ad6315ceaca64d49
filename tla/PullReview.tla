----------------------------- MODULE PullReview -----------------------------
(***************************************************************************)
(* robomp reviews one incoming pull request: review_pr starts the agent,   *)
(* pr_review_comment stages inline comments in the database, and           *)
(* submit_pr_review publishes what is staged as one review, or as comments *)
(* of the pull request if the platform rejects it.                         *)
(*                                                                         *)
(* The tools of one agent run one at a time; each call to GitHub is a step *)
(* of its own, after which the task may die.  The event of a task that     *)
(* died is claimed again, and people may ask for a review again.           *)
(***************************************************************************)
EXTENDS Naturals, FiniteSets

CONSTANTS
    Remarks,        \* inline comments the agent makes
    MaxReviewTasks  \* bound: tasks started for the pull request

ASSUME ReviewAssumption == MaxReviewTasks \in Nat

VARIABLES
    staged,         \* rows of pr_review_comments
    everStaged,     \* history: all that were staged
    submitCall,     \* tool_calls holds a submit_pr_review without an error
    reviewer,       \* the task: phase, comments listed, comments that will not anchor
    anchored,       \* remarks whose line is in the diff at its present head
    onPull,         \* remarks readable on the pull request
    summarized,     \* the summary is on the pull request
    reviewTasks,    \* tasks started, for the bound
    skipped         \* history: a task was skipped as already submitted

reviewVars == <<staged, everStaged, submitCall, reviewer, anchored, onPull, summarized,
                reviewTasks, skipped>>
platform == <<onPull, summarized>>

Resting == [phase |-> "idle", listed |-> {}, dropped |-> {}]

ReviewTypeOK ==
    /\ everStaged \subseteq Remarks
    /\ staged \subseteq everStaged
    /\ onPull \subseteq everStaged
    /\ anchored \subseteq Remarks
    /\ submitCall \in BOOLEAN /\ summarized \in BOOLEAN /\ skipped \in BOOLEAN
    /\ reviewer \in [phase : {"idle", "agent", "listed", "submit", "fallback", "notes", "clear"},
                     listed : SUBSET Remarks, dropped : SUBSET Remarks]
    /\ reviewTasks \in 0 .. MaxReviewTasks

ReviewInit ==
    /\ staged = {} /\ everStaged = {}
    /\ submitCall = FALSE
    /\ reviewer = Resting
    /\ anchored = Remarks
    /\ onPull = {} /\ summarized = FALSE
    /\ reviewTasks = 0
    /\ skipped = FALSE

-----------------------------------------------------------------------------
(* review_pr.                                                              *)

InPhase(ph) == reviewer.phase = ph
Proceed(ph) == reviewer' = [reviewer EXCEPT !.phase = ph]

\* The pull request is reviewed once: a submit_pr_review that the audit
\* recorded without an error ends the matter.  Whatever the review labels
\* say, a review that was not submitted is retried.
ReviewPr ==
    /\ InPhase("idle")
    /\ reviewTasks < MaxReviewTasks
    /\ reviewTasks' = reviewTasks + 1
    /\ IF submitCall
       THEN skipped' = TRUE /\ UNCHANGED reviewer
       ELSE Proceed("agent") /\ UNCHANGED skipped
    /\ UNCHANGED <<staged, everStaged, submitCall, anchored, platform>>

\* The task ends: the agent stops, with or without its review after the
\* reminders, or the task fails, is cancelled or dies between two calls.
ReviewTaskEnds ==
    /\ ~InPhase("idle")
    /\ reviewer' = Resting
    /\ UNCHANGED <<staged, everStaged, submitCall, anchored, platform, reviewTasks, skipped>>

\* The author pushes: lines move in or out of the diff.
HeadMoves(lines) ==
    /\ lines # anchored
    /\ anchored' = lines
    /\ UNCHANGED <<staged, everStaged, submitCall, reviewer, platform, reviewTasks, skipped>>

-----------------------------------------------------------------------------
(* The tools.                                                              *)

\* pr_review_comment.
StageComment(r) ==
    /\ InPhase("agent")
    /\ r \notin everStaged
    /\ staged' = staged \union {r}
    /\ everStaged' = everStaged \union {r}
    /\ UNCHANGED <<submitCall, reviewer, anchored, platform, reviewTasks, skipped>>

\* submit_pr_review lists what is staged.
SubmitPrReview ==
    /\ InPhase("agent")
    /\ reviewer' = [phase |-> IF staged = {} THEN "submit" ELSE "listed",
                    listed |-> staged, dropped |-> {}]
    /\ UNCHANGED <<staged, everStaged, submitCall, anchored, platform, reviewTasks, skipped>>

\* list_pr_files and _filter_anchorable_comments.  What is not anchored to
\* the diff moves to the body, and an audit record of the tool says so; if
\* the files cannot be fetched everything is submitted as it is.
FilterComments(fetched) ==
    LET loose == IF fetched THEN reviewer.listed \ anchored ELSE {} IN
    /\ InPhase("listed")
    /\ reviewer' = [reviewer EXCEPT !.phase = "submit", !.dropped = loose]
    /\ submitCall' = (submitCall \/ loose # {})
    /\ UNCHANGED <<staged, everStaged, anchored, platform, reviewTasks, skipped>>

\* The remarks a submitted review shows: inline ones, and in its body those
\* that do not anchor.
InlineOnly(listed, dropped) == listed \ dropped
Shown(listed, dropped) == (listed \ dropped) \union dropped

\* The platform takes the review only if every inline comment anchors.
ReviewAccepted ==
    /\ InPhase("submit")
    /\ reviewer.listed \ reviewer.dropped \subseteq anchored
    /\ onPull' = onPull \union Shown(reviewer.listed, reviewer.dropped)
    /\ summarized' = TRUE
    /\ Proceed("clear")
    /\ UNCHANGED <<staged, everStaged, submitCall, anchored, reviewTasks, skipped>>

\* A rejection (422, 500) is degraded to comments, any other error is told
\* to the agent, which may try again.
ReviewRejected(degrade) ==
    /\ InPhase("submit")
    /\ IF degrade THEN Proceed("fallback")
                  ELSE reviewer' = [Resting EXCEPT !.phase = "agent"]
    /\ UNCHANGED <<staged, everStaged, submitCall, anchored, platform, reviewTasks, skipped>>

PostSummary ==
    /\ InPhase("fallback")
    /\ summarized' = TRUE
    /\ onPull' = onPull \union reviewer.dropped
    /\ Proceed("notes")
    /\ UNCHANGED <<staged, everStaged, submitCall, anchored, reviewTasks, skipped>>

\* One comment per listed remark; listed holds those still to be posted.
PostNote(r) ==
    /\ InPhase("notes")
    /\ r \in reviewer.listed
    /\ onPull' = onPull \union {r}
    /\ reviewer' = [reviewer EXCEPT !.listed = @ \ {r}]
    /\ UNCHANGED <<staged, everStaged, submitCall, anchored, summarized, reviewTasks, skipped>>

NotesPosted ==
    /\ InPhase("notes")
    /\ reviewer.listed = {}
    /\ Proceed("clear")
    /\ UNCHANGED <<staged, everStaged, submitCall, anchored, platform, reviewTasks, skipped>>

\* A comment of the fallback fails: what is staged stays for the next call.
FallbackFails ==
    /\ reviewer.phase \in {"fallback", "notes"}
    /\ reviewer' = [Resting EXCEPT !.phase = "agent"]
    /\ UNCHANGED <<staged, everStaged, submitCall, anchored, platform, reviewTasks, skipped>>

\* clear_staged_review_comments and the audit of the success.
ClearStaged ==
    /\ InPhase("clear")
    /\ staged' = {}
    /\ submitCall' = TRUE
    /\ reviewer' = [Resting EXCEPT !.phase = "agent"]
    /\ UNCHANGED <<everStaged, anchored, platform, reviewTasks, skipped>>

-----------------------------------------------------------------------------
ReviewNext ==
    \/ ReviewPr \/ ReviewTaskEnds
    \/ \E lines \in SUBSET Remarks : HeadMoves(lines)
    \/ \E r \in Remarks : StageComment(r) \/ PostNote(r)
    \/ SubmitPrReview
    \/ \E f \in BOOLEAN : FilterComments(f) \/ ReviewRejected(f)
    \/ ReviewAccepted \/ PostSummary \/ NotesPosted \/ FallbackFails \/ ClearStaged

ReviewSpec == ReviewInit /\ [][ReviewNext]_reviewVars

-----------------------------------------------------------------------------
(* A remark the agent staged is readable on the pull request or still      *)
(* staged, through rejected reviews, fallbacks that stop half way, heads   *)
(* that move and tasks that die: clearing the stage never loses one.       *)
StagedIsNotLost == everStaged \subseteq staged \union onPull

(* review_pr skips a pull request as "already submitted" only if a review  *)
(* of it is on the platform.                                               *)
SkippedIsSubmitted == skipped => summarized
=============================================================================
