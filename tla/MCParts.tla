------------------------------ MODULE MCParts ------------------------------
(***************************************************************************)
(* Instances of the parts that share no state with each other: what the    *)
(* reviews of reviewbot say, and robomp beside its event queue.  A         *)
(* behaviour is of one part, chosen at the start, while the variables of   *)
(* the others rest, so that TLC explores the sum of their state spaces.    *)
(***************************************************************************)
EXTENDS ReviewContent, Autoclose, IssueIndex, Intake, AgentWork, ReleaseTrain,
        PullReview, NativesCache

VARIABLE part

PartsInit ==
    /\ part \in {"content", "autoclose", "index", "intake", "work", "release", "review", "natives"}
    /\ ContentInit
    /\ AutocloseInit
    /\ IndexInit
    /\ IntakeInit
    /\ WorkInit
    /\ ReleaseInit
    /\ ReviewInit
    /\ CacheInit
    \* A part that does not move needs one initial state only.
    /\ part # "content" => mode = "diff" /\ files = CHOOSE c \in Contents : TRUE
    /\ part # "index" => \A n \in Numbers : updatedAt[n] = n

-----------------------------------------------------------------------------
(* Only one part moves.                                                    *)

OnlyContent == part = "content" /\ UNCHANGED <<part, autocloseVars, indexVars, intakeVars,
        workVars, releaseVars, reviewVars, cacheVars>>
OnlyAutoclose == part = "autoclose" /\ UNCHANGED <<part, contentVars, indexVars, intakeVars,
        workVars, releaseVars, reviewVars, cacheVars>>
OnlyIndex == part = "index" /\ UNCHANGED <<part, contentVars, autocloseVars, intakeVars,
        workVars, releaseVars, reviewVars, cacheVars>>
OnlyIntake == part = "intake" /\ UNCHANGED <<part, contentVars, autocloseVars, indexVars,
        workVars, releaseVars, reviewVars, cacheVars>>
OnlyWork == part = "work" /\ UNCHANGED <<part, contentVars, autocloseVars, indexVars,
        intakeVars, releaseVars, reviewVars, cacheVars>>
OnlyRelease == part = "release" /\ UNCHANGED <<part, contentVars, autocloseVars, indexVars,
        intakeVars, workVars, reviewVars, cacheVars>>
OnlyReview == part = "review" /\ UNCHANGED <<part, contentVars, autocloseVars, indexVars,
        intakeVars, workVars, releaseVars, cacheVars>>
OnlyNatives == part = "natives" /\ UNCHANGED <<part, contentVars, autocloseVars, indexVars,
        intakeVars, workVars, releaseVars, reviewVars>>

ContentSteps ==
    \/ OnlyContent /\ \E c \in Contents : Push(c)
    \/ OnlyContent /\ Start
    \/ OnlyContent /\ ListFiles
    \/ OnlyContent /\ \E r \in Replies : Answer(r)
    \/ OnlyContent /\ Malformed
    \/ OnlyContent /\ Merge
    \/ OnlyContent /\ Recheck
    \/ OnlyContent /\ PostComment
    \/ OnlyContent /\ Complete
    \/ OnlyContent /\ Adopt
    \/ OnlyContent /\ Interrupt

AutocloseSteps ==
    \/ OnlyAutoclose /\ \E i \in Questions : PostAnswer(i)
    \/ OnlyAutoclose /\ \E i \in Questions : \E c \in 1 .. MaxAnswers[i] : ScheduleAutoclose(i, c)
    \/ OnlyAutoclose /\ \E i \in Questions : ClosureComesDue(i)
    \/ OnlyAutoclose /\ \E i \in Questions : ThumbsDown(i)
    \/ OnlyAutoclose /\ \E i \in Questions : UserReplied(i)
    \/ OnlyAutoclose /\ \E i \in Questions : UserCloses(i)
    \/ OnlyAutoclose /\ \E i \in Questions : ExternallyClosed(i)
    \/ OnlyAutoclose /\ \E i \in Questions : UserReopens(i)
    \/ OnlyAutoclose /\ ClaimDueClosures
    \/ OnlyAutoclose /\ \E i \in Questions : PickRow(i)
    \/ OnlyAutoclose /\ CheckReactions
    \/ OnlyAutoclose /\ GitHubCallFails
    \/ OnlyAutoclose /\ IssueGone
    \/ OnlyAutoclose /\ CloseIssue
    \/ OnlyAutoclose /\ CloseAnswered
    \/ OnlyAutoclose /\ TickDies

IndexSteps ==
    \/ OnlyIndex /\ TimePasses
    \/ OnlyIndex /\ \E n, p \in Numbers : UpdateIssue(n, p)
    \/ OnlyIndex /\ \E d \in deliveries : IngestWebhook(d)
    \/ OnlyIndex /\ StartSync
    \/ OnlyIndex /\ ServePage
    \/ OnlyIndex /\ StorePage
    \/ OnlyIndex /\ SyncFails

IntakeSteps ==
    \/ OnlyIntake /\ Tick
    \/ OnlyIntake /\ \E p \in DOMAIN PullsOfBot : OpenPull(p)
    \/ OnlyIntake /\ \E d \in Webhooks : Deliver(d)

WorkSteps ==
    \/ OnlyWork /\ RecordDirective
    \/ OnlyWork /\ TriageIssue
    \/ OnlyWork /\ \E d \in Directives : HandleComment(d)
    \/ OnlyWork /\ \E n \in PullIds : HandleReview(n)
    \/ OnlyWork /\ \E n \in PullIds, d \in Directives : HandlePrConversation(n, d)
    \/ OnlyWork /\ \E n \in PullIds \union {NoPull} : CleanupWorkspace(n)
    \/ OnlyWork /\ \E t \in {"issue", "pull"} : FinishCleanup(t)
    \/ OnlyWork /\ \E t \in {"issue", "pull"} : EnsureWorkspace(t)
    \/ OnlyWork /\ \E t \in {"issue", "pull"} : EndTask(t)
    \/ OnlyWork /\ OtherTaskFetches
    \/ OnlyWork /\ \E t \in {"issue", "pull"} : AgentCommits(t)
    \/ OnlyWork /\ \E t \in {"issue", "pull"}, c \in Classes, r, l \in BOOLEAN : ClassifyIssue(t, c, r, l)
    \/ OnlyWork /\ \E t \in {"issue", "pull"}, phase \in {"push", "open"} : PrePublish(t, phase)
    \/ OnlyWork /\ \E t \in {"issue", "pull"} : GateRefuses(t)
    \/ OnlyWork /\ \E t \in {"issue", "pull"}, r \in BOOLEAN : GuardedPush(t, r)
    \/ OnlyWork /\ \E t \in {"issue", "pull"}, n \in PullIds : CreatePull(t, n)
    \/ OnlyWork /\ \E t \in {"issue", "pull"} : RecordPull(t)
    \/ OnlyWork /\ \E t \in {"issue", "pull"} : MarkUnable(t)
    \/ OnlyWork /\ \E t \in {"issue", "pull"} : AbortTask(t)
    \/ OnlyWork /\ \E b \in Branches, f \in Foreigners : ForeignPush(b, f)
    \/ OnlyWork /\ \E n \in PullIds, d \in BOOLEAN : ClosePull(n, d)

ReleaseSteps ==
    \/ OnlyRelease /\ \E t \in Tags \union {NoTag} : PersonCommits(t)
    \/ OnlyRelease /\ \E s \in Shas, c \in Conclusions : RunCompletes(s, c)
    \/ OnlyRelease /\ \E s \in Shas, c \in Conclusions : HandleReleaseCi(s, c)
    \/ OnlyRelease /\ \E p \in BOOLEAN : Conclude(p)
    \/ OnlyRelease /\ EnsureReleaseWorkspace
    \/ OnlyRelease /\ ReleaseRetag
    \/ OnlyRelease /\ PushRelease
    \/ OnlyRelease /\ PushRefused
    \/ OnlyRelease /\ RecordRetag
    \/ OnlyRelease /\ \E a \in BOOLEAN : RoundEnds(a)
    \/ OnlyRelease /\ SentinelDies

ReviewSteps ==
    \/ OnlyReview /\ ReviewPr
    \/ OnlyReview /\ ReviewTaskEnds
    \/ OnlyReview /\ \E lines \in SUBSET Remarks : HeadMoves(lines)
    \/ OnlyReview /\ \E r \in Remarks : StageComment(r)
    \/ OnlyReview /\ SubmitPrReview
    \/ OnlyReview /\ \E f \in BOOLEAN : FilterComments(f)
    \/ OnlyReview /\ \E f \in BOOLEAN : ReviewRejected(f)
    \/ OnlyReview /\ ReviewAccepted
    \/ OnlyReview /\ PostSummary
    \/ OnlyReview /\ \E r \in Remarks : PostNote(r)
    \/ OnlyReview /\ NotesPosted
    \/ OnlyReview /\ FallbackFails
    \/ OnlyReview /\ ClearStaged

NativesSteps ==
    \/ OnlyNatives /\ \E w \in Workspaces : StartCacheTask(w)
    \/ OnlyNatives /\ \E w \in Workspaces : LookUpEntry(w)
    \/ OnlyNatives /\ \E w \in Workspaces : ListNodes(w)
    \/ OnlyNatives /\ \E w \in Workspaces, f \in Names : PopulateFile(w, f)
    \/ OnlyNatives /\ \E w \in Workspaces, f \in Names : PopulateFails(w, f)
    \/ OnlyNatives /\ \E w \in Workspaces, k \in Keys : CommitSources(w, k)
    \/ OnlyNatives /\ \E w \in Workspaces, v \in Variants : InstallBinary(w, v)
    \/ OnlyNatives /\ \E w \in Workspaces : InstallBindings(w)
    \/ OnlyNatives /\ \E w \in Workspaces, phase \in {"capture", "none"} : CacheTaskEnds(w, phase)
    \/ OnlyNatives /\ \E w \in Workspaces : Capture(w)
    \/ OnlyNatives /\ \E w \in Workspaces : PublishEntry(w)
    \/ OnlyNatives /\ StartSweep
    \/ OnlyNatives /\ \E k \in Keys : Collect(k)
    \/ OnlyNatives /\ \E k \in Keys, f \in Names : DeleteFile(k, f)
    \/ OnlyNatives /\ \E k \in Keys : DeleteManifest(k)
    \/ OnlyNatives /\ \E k \in Keys : FinishEviction(k)
    \/ OnlyNatives /\ EndCollection
    \/ OnlyNatives /\ CacheCrash

PartsNext ==
    \/ ContentSteps
    \/ AutocloseSteps
    \/ IndexSteps
    \/ IntakeSteps
    \/ WorkSteps
    \/ ReleaseSteps
    \/ ReviewSteps
    \/ NativesSteps

partsVars == <<part, contentVars, autocloseVars, indexVars, intakeVars,
               workVars, releaseVars, reviewVars, cacheVars>>

PartsSpec == PartsInit /\ [][PartsNext]_partsVars

-----------------------------------------------------------------------------
(* The variables of the part that moves keep to the values it gives them.  *)
PartsTypeOK ==
    /\ part = "content" => ContentTypeOK
    /\ part = "autoclose" => AutocloseTypeOK
    /\ part = "index" => IndexTypeOK
    /\ part = "intake" => IntakeTypeOK
    /\ part = "work" => WorkTypeOK
    /\ part = "release" => ReleaseTypeOK
    /\ part = "review" => ReviewTypeOK
    /\ part = "natives" => NativesTypeOK

-----------------------------------------------------------------------------
(* ReviewContent: files a and b (1 and 2), of which two small ones fill    *)
(* one batch and two larger ones need two.                                 *)

Small == <<Hunk(1), Line("add"), Line("context"), Line("add")>>
Moved == <<Hunk(1), Line("context"), Line("del"), Line("add"), Hunk(5), Line("add")>>
Shifted == <<Hunk(1), Line("plusplus"), Line("add")>>
Torn == <<Hunk(1), Line("context"), Rest("context"), Line("add")>>
Removed == <<Hunk(0), Line("del"), Line("eof")>>

File(p, patch, size) == [path |-> p, patch |-> patch, size |-> size]

FewContents ==
    { <<File(1, Small, 1), File(2, Small, 1)>>,
      <<File(1, Moved, 1), File(2, Small, 2)>>,
      <<File(1, Small, 4), File(2, Shifted, 3)>>,
      <<File(1, Moved, 1), File(2, <<>>, 1)>>,
      <<File(1, Removed, 1), File(2, Torn, 1)>>,
      <<File(1, <<>>, 1), File(2, Small, 4)>> }

Finding(p, line, title, problem, priority) ==
    [path |-> p, line |-> line, title |-> title, problem |-> problem, priority |-> priority]

Reply(verdict, severity, findings) ==
    [verdict |-> verdict, rank |-> severity, findings |-> findings]

FewReplies ==
    { Reply("clean", 3, <<>>),
      Reply("clean", 2, <<Finding(1, 1, 1, 1, 2)>>),
      Reply("needs_attention", 1, <<Finding(1, 1, 1, 1, 2), Finding(1, 1, 1, 2, 1)>>),
      Reply("needs_attention", 0, <<Finding(1, 5, 1, 1, 2), Finding(2, 1, 1, 1, 0)>>),
      Reply("needs_attention", 2, <<Finding(2, 3, 2, 1, 3), Finding(2, 1, 1, 1, 1), Finding(1, 3, 2, 1, 1)>>) }

-----------------------------------------------------------------------------
(* Autoclose: the first of two questions is answered twice.                *)

CONSTANTS q1, q2

FewAnswers == [i \in {q1, q2} |-> IF i = q1 THEN 2 ELSE 1]

-----------------------------------------------------------------------------
(* Intake: an event of each kind the routes tell apart, over issue 1, the  *)
(* bot's pull request 2 for it, and the pull request 3 of someone else.    *)

CommentEvent ==
    [type |-> "issue_comment", action |-> "created", number |-> 1, onPull |-> FALSE,
     by |-> "reporter", assoc |-> "NONE", mention |-> FALSE, owns |-> FALSE,
     pullBy |-> "reporter", ready |-> TRUE, release |-> FALSE]

FewEvents ==
    [ opened |-> [CommentEvent EXCEPT !.type = "issues", !.action = "opened"],
      comment |-> [CommentEvent EXCEPT !.assoc = "CONTRIBUTOR"],
      review |-> [CommentEvent EXCEPT !.type = "pull_request", !.action = "opened", !.number = 3],
      closed |-> [CommentEvent EXCEPT !.type = "issues", !.action = "closed"],
      byBot |-> [CommentEvent EXCEPT !.by = "robomp"],
      order |-> [CommentEvent EXCEPT !.by = "owner", !.assoc = "absent", !.owns = TRUE,
                                !.mention = TRUE, !.onPull = TRUE, !.pullBy = "robomp",
                                !.number = 2],
      line |-> [CommentEvent EXCEPT !.type = "pull_request_review_comment", !.by = "codex",
                               !.pullBy = "robomp", !.number = 2],
      run |-> [CommentEvent EXCEPT !.type = "workflow_run", !.action = "completed", !.release = TRUE] ]

OnePull == 2 :> 1

-----------------------------------------------------------------------------
(* NativesCache: nothing tells one workspace from another.                 *)

WorkspaceSymmetry == Permutations(Workspaces)
=============================================================================
