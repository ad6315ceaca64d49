--------------------------- MODULE ReviewContent ---------------------------
(***************************************************************************)
(* What the reviews of one pull request say, over its successive heads:    *)
(* ReviewService.process between list_pull_request_files and               *)
(* complete_review, with the batches of DiffBatches, the answers of the    *)
(* model, ReviewMerge and the ledger of findings (_sync_findings).         *)
(*                                                                         *)
(* ReviewBot has the queue, the workers and the awaits of the same code;   *)
(* here one review runs at a time and a failure of any kind only ends it,  *)
(* for a retry to begin it anew.  A head is a number and never returns.    *)
(***************************************************************************)
EXTENDS DiffBatches, ReviewMerge

CONSTANTS
    Contents,       \* lists of changed files a head may have
    Replies,        \* well-formed results the model may give
    FormatRetries,  \* of ReviewEngine
    MaxHeads        \* bound: heads of the pull request

\* GitHub lists a changed file once.
ASSUME ContentAssumption ==
    /\ FormatRetries \in Nat
    /\ MaxHeads \in Nat \ {0}
    /\ Contents \subseteq Seq(ChangedFiles)
    /\ \A c \in Contents : DistinctPaths(c)
    /\ Replies \subseteq Results

VARIABLES
    mode,       \* settings.review_mode: "diff" or "deep"
    head,       \* GitHub: the newest head ...
    files,      \* ... and the files it changes
    commented,  \* GitHub: the heads with a comment of ours
    pc,         \* where the review stands
    seen,       \* the head it is about
    truth,      \* history: the files that head changes
    listed,     \* the changed files the review was given
    answers,    \* the normalized results so far, one per batch
    malformed,  \* malformed answers for this batch
    result,     \* what will be published
    reviewed,   \* table reviews
    ledger,     \* table findings: fingerprint -> row
    spoken      \* history: path -> fingerprints of the last review that covered it

serviceVars == <<pc, seen, truth, listed, answers, malformed, result>>
githubVars == <<head, files, commented>>
storeVars == <<reviewed, ledger, spoken>>
contentVars == <<mode, githubVars, serviceVars, storeVars>>

ContentInit ==
    /\ mode \in {"diff", "deep"}
    /\ head = 1
    /\ files \in Contents
    /\ commented = {}
    /\ pc = "idle"
    /\ seen = 0
    /\ truth = <<>>
    /\ listed = <<>>
    /\ answers = <<>>
    /\ malformed = 0
    /\ result = CleanResult
    /\ reviewed = {}
    /\ ledger = <<>>
    /\ spoken = <<>>

Paths == PathsOf(UNION {ToSet(c) : c \in Contents})

ContentTypeOK ==
    /\ mode \in {"diff", "deep"}
    /\ head \in 1 .. MaxHeads /\ seen \in 0 .. head
    /\ files \in Contents /\ {truth, listed} \subseteq Contents \union {<<>>}
    /\ commented \union reviewed \subseteq 1 .. head
    /\ pc \in {"idle", "list", "ask", "recheck", "post", "complete", "adopt"}
    /\ malformed \in 0 .. FormatRetries
    /\ answers \in Seq(Results) /\ result \in Results
    /\ \A fp \in DOMAIN ledger :
          ledger[fp] \in [line : Nat, status : {"new", "active", "relocated", "resolved"},
                         first : 1 .. head, last : 1 .. head]
    /\ DOMAIN spoken \subseteq Paths

-----------------------------------------------------------------------------
(* The pull request.                                                       *)

Push(c) ==
    /\ head < MaxHeads
    /\ head' = head + 1
    /\ files' = c
    /\ UNCHANGED <<mode, commented, serviceVars, storeVars>>

-----------------------------------------------------------------------------
(* The review.                                                             *)

\* The locals of process are gone.
Forget ==
    /\ pc' = "idle"
    /\ seen' = 0
    /\ truth' = <<>>
    /\ listed' = <<>>
    /\ answers' = <<>>
    /\ malformed' = 0
    /\ result' = CleanResult

Plan == BuildDiffBatches(listed)

\* The contexts of the calls to the model, in order.
Contexts ==
    IF mode = "deep" THEN <<BuildDiffContext(listed, Plan)>>
    ELSE [i \in DOMAIN Plan.batches |-> BatchContext(listed, Plan, i)]

\* get_pull_request, has_review.
Start ==
    /\ pc = "idle"
    /\ head \notin reviewed
    /\ pc' = IF head \in commented THEN "adopt" ELSE "list"
    /\ seen' = head
    /\ truth' = files
    /\ UNCHANGED <<mode, githubVars, listed, answers, malformed, result, storeVars>>

\* list_pull_request_files: of the head of that moment.
ListFiles ==
    /\ pc = "list"
    /\ listed' = files
    /\ pc' = "ask"
    /\ UNCHANGED <<mode, githubVars, seen, truth, answers, malformed, result, storeVars>>

\* A well-formed answer about the next batch.
Answer(r) ==
    /\ pc = "ask"
    /\ Len(answers) < Len(Contexts)
    /\ answers' = Append(answers, NormalizeResult(r, Contexts[Len(answers) + 1]))
    /\ malformed' = 0
    /\ UNCHANGED <<mode, githubVars, pc, seen, truth, listed, result, storeVars>>

\* A malformed answer: a repair prompt is sent while retries are left.  The
\* deep reviewer has none.
Malformed ==
    /\ pc = "ask"
    /\ Len(answers) < Len(Contexts)
    /\ IF mode = "diff" /\ malformed < FormatRetries
       THEN /\ malformed' = malformed + 1
            /\ UNCHANGED <<pc, seen, truth, listed, answers, result>>
       ELSE Forget
    /\ UNCHANGED <<mode, githubVars, storeVars>>

\* review_plan: every batch is answered.
Merge ==
    /\ pc = "ask"
    /\ Len(answers) = Len(Contexts)
    /\ result' = IF mode = "deep" THEN answers[1] ELSE MergeReviewResults(answers)
    /\ pc' = "recheck"
    /\ UNCHANGED <<mode, githubVars, seen, truth, listed, answers, malformed, storeVars>>

\* Mutant: the head is not looked at again.
RecheckNothing ==
    /\ pc = "recheck"
    /\ pc' = "post"
    /\ UNCHANGED <<mode, githubVars, seen, truth, listed, answers, malformed, result, storeVars>>

\* The second get_pull_request: a review of an older head is superseded.
Recheck ==
    /\ pc = "recheck"
    /\ IF head = seen
       THEN pc' = "post" /\ UNCHANGED <<seen, truth, listed, answers, malformed, result>>
       ELSE Forget
    /\ UNCHANGED <<mode, githubVars, storeVars>>

PostComment ==
    /\ pc = "post"
    /\ commented' = commented \union {seen}
    /\ pc' = "complete"
    /\ UNCHANGED <<mode, head, files, seen, truth, listed, answers, malformed, result, storeVars>>

-----------------------------------------------------------------------------
(* complete_review.                                                        *)

\* The ledger row of the first finding with fingerprint fp.
Row(fp) ==
    LET i == SelectInSeq(result.findings, LAMBDA f : Fingerprint(f) = fp)
        f == result.findings[i]
        known == fp \in DOMAIN ledger
    IN  [line |-> f.line,
         status |-> IF ~known THEN "new"
                    ELSE IF ledger[fp].line = f.line THEN "active" ELSE "relocated",
         first |-> IF known THEN ledger[fp].first ELSE seen,
         last |-> seen]

Reported == {Fingerprint(f) : f \in ToSet(result.findings)}

Resolve(row) == [line |-> row.line, status |-> "resolved", first |-> row.first, last |-> seen]

\* Mutant: every finding that is not reported again is resolved.
SyncResolvesAll ==
    ledger' = [fp \in DOMAIN ledger \union Reported |->
        IF fp \in Reported THEN Row(fp)
        ELSE IF ledger[fp].status # "resolved" THEN Resolve(ledger[fp]) ELSE ledger[fp]]

\* _sync_findings.
SyncFindings ==
    ledger' = [fp \in DOMAIN ledger \union Reported |->
        IF fp \in Reported THEN Row(fp)
        ELSE IF ledger[fp].status # "resolved" /\ fp[1] \in ToSet(Plan.reviewed)
             THEN Resolve(ledger[fp])
             ELSE ledger[fp]]

\* The last review of each path, for the properties.
Remember ==
    spoken' = [p \in DOMAIN spoken \union ToSet(Plan.reviewed) |->
        IF p \in ToSet(Plan.reviewed) THEN {fp \in Reported : fp[1] = p} ELSE spoken[p]]

Complete ==
    /\ pc = "complete"
    /\ SyncFindings
    /\ Remember
    /\ reviewed' = reviewed \union {seen}
    /\ Forget
    /\ UNCHANGED <<mode, githubVars>>

\* A comment of an earlier attempt is adopted: the findings are unknown and
\* the ledger stays as it is.
Adopt ==
    /\ pc = "adopt"
    /\ reviewed' = reviewed \union {seen}
    /\ Forget
    /\ UNCHANGED <<mode, githubVars, ledger, spoken>>

\* A call fails, or the process dies.
Interrupt ==
    /\ pc # "idle"
    /\ Forget
    /\ UNCHANGED <<mode, githubVars, storeVars>>

ContentNext ==
    \/ \E c \in Contents : Push(c)
    \/ Start
    \/ ListFiles
    \/ \E r \in Replies : Answer(r)
    \/ Malformed
    \/ Merge
    \/ Recheck
    \/ PostComment
    \/ Complete
    \/ Adopt
    \/ Interrupt

ContentSpec == ContentInit /\ [][ContentNext]_contentVars

-----------------------------------------------------------------------------
(* Properties.                                                             *)

\* build_diff_batches loses no file and never exceeds the limit: the batches
\* hold, each once and in the order of the list, exactly the files with a patch
\* that fit alone, the others are reported as omitted, and a batch was closed
\* only because the next file did not fit in it.
BatchesFaithful ==
    LET batches == Plan.batches
        place(i, a) == Position(listed, batches[i].files[a])
    IN  /\ UNION {ToSet(b.files) : b \in ToSet(batches)} = PathsOf({f \in ToSet(listed) : Packable(f)})
        /\ ToSet(Plan.omitted) = PathsOf({f \in ToSet(listed) : ~Packable(f)})
        /\ \A i, j \in DOMAIN batches :
              \A a \in DOMAIN batches[i].files, b \in DOMAIN batches[j].files :
                  i < j \/ (i = j /\ a < b) => place(i, a) < place(j, b)
        /\ \A i \in DOMAIN batches :
              /\ batches[i].files # <<>>
              /\ batches[i].bytes = SizeOf(listed, batches[i].files)
              /\ batches[i].bytes <= MaxBytes
              /\ i < Len(batches) =>
                    SizeOf(listed, Append(batches[i].files, Head(batches[i + 1].files))) > MaxBytes

\* What is about to be published stands on lines that the head under review
\* adds, although the files are listed in a later request than the head; only
\* a file with a misread patch may have wrong numbers.
OnlyAnchored ==
    pc \in {"post", "complete"} =>
        \A f \in ToSet(result.findings) :
            \E g \in ToSet(truth) :
                /\ g.path = f.path
                /\ f.line \in ReallyAdded(g.patch) \/ Misread(g.patch)

\* The merged review keeps the worst of what the batches said: at most one
\* finding per place and title, none better than a finding of its key, the
\* lowest rank, findings dropped at the limit are no worse than those kept,
\* and a review that calls the change clean has no findings.
MergeKeepsWorst ==
    pc = "recheck" =>
        LET kept == ToSet(result.findings)
            said == UNION {ToSet(answers[i].findings) : i \in DOMAIN answers}
        IN  /\ result.verdict = "clean" => kept = {}
            /\ mode = "diff" =>
                 /\ kept \subseteq said
                 /\ \A i \in DOMAIN answers : result.rank <= answers[i].rank
                 /\ \A f, g \in kept : MergeKey(f) = MergeKey(g) => f = g
                 /\ \A f \in said :
                      \/ \E g \in kept : MergeKey(g) = MergeKey(f) /\ g.priority <= f.priority
                      \/ /\ Len(result.findings) = FindingLimit
                         /\ \A g \in kept : g.priority <= f.priority

\* The ledger agrees with the reviews over any sequence of heads: a finding is
\* open exactly when the last completed review that covered its file reported
\* it, and what that review reported is in the ledger; a "new" finding is in
\* the review that first reported it.  Files that are omitted, or no longer
\* changed, keep their findings open.
OpenFindingsAreCurrent ==
    /\ \A fp \in DOMAIN ledger :
          /\ fp[1] \in DOMAIN spoken
          /\ ledger[fp].status # "resolved" <=> fp \in spoken[fp[1]]
          /\ ledger[fp].status = "new" => ledger[fp].first = ledger[fp].last
          /\ ledger[fp].first <= ledger[fp].last
    /\ \A p \in DOMAIN spoken : \A fp \in spoken[p] : fp[1] = p /\ fp \in DOMAIN ledger
=============================================================================
