------------------------ MODULE ReviewContentProofs ------------------------
(***************************************************************************)
(* Proofs about ReviewContent, for any lists of changed files, answers of  *)
(* the model, limits and number of heads: its types, and its four          *)
(* properties, which follow from one inductive invariant and from what     *)
(* ContentLemmas says of the algorithms.                                   *)
(***************************************************************************)
EXTENDS ReviewContent, ContentLemmas

-----------------------------------------------------------------------------
(* The inductive invariant.                                                *)

\* An answer with findings is not clean, and they are about the files.
GoodAnswer(a, c) ==
    /\ a.verdict = "clean" => ToSet(a.findings) = {}
    /\ \A f \in ToSet(a.findings) : Reviewable(f, c)

\* The review is about the head it began with: as long as that is the newest
\* one, the files listed later are its files.
SameFiles ==
    /\ pc # "idle" => seen \in 1 .. head
    /\ pc # "idle" /\ head = seen => truth = files
    /\ pc \in {"ask", "recheck", "post", "complete"} => listed \in Contents
    /\ pc \in {"ask", "recheck"} /\ head = seen => listed = truth
    /\ pc \in {"post", "complete"} => listed = truth

\* The answers, and what is made of them.
GoodAnswers ==
    /\ pc \in {"idle", "list"} => answers = <<>>
    /\ pc \in {"ask", "recheck", "post", "complete"} =>
          \A i \in DOMAIN answers : GoodAnswer(answers[i], listed)
    /\ pc \in {"recheck", "post", "complete"} =>
          /\ mode = "deep" => 1 \in DOMAIN answers /\ result = answers[1]
          /\ mode = "diff" => result = MergeReviewResults(answers)

\* The ledger is not ahead of the review.
LedgerIsPast == pc # "idle" => \A fp \in DOMAIN ledger : ledger[fp].last <= seen

CInv ==
    /\ ContentTypeOK
    /\ SameFiles
    /\ GoodAnswers
    /\ LedgerIsPast
    /\ OpenFindingsAreCurrent

-----------------------------------------------------------------------------
(* The lists.                                                              *)

LEMMA ContentFacts ==
    ASSUME NEW c \in Contents
    PROVE  c \in Seq(ChangedFiles) /\ DistinctPaths(c)
  BY ContentAssumption

\* The plan of a head covers files of it.
LEMMA ReviewedArePaths ==
    ASSUME NEW c \in Contents
    PROVE  ToSet(BuildDiffBatches(c).reviewed) \subseteq Paths
  <1>1. ToSet(BuildDiffBatches(c).reviewed) = Shown(c, Len(c))
    BY ContentFacts, PlanFacts
  <1>2. c \in Seq(ChangedFiles)
    BY ContentFacts
  <1>3. ASSUME NEW m \in 1 .. Len(c)
        PROVE  c[m].path \in Paths
    <2>1. c[m] \in ToSet(c)
      BY <1>2 DEF ToSet
    <2>2. c[m] \in UNION {ToSet(d) : d \in Contents}
      BY <2>1
    <2> QED
      BY <2>2 DEF Paths, PathsOf
  <1> QED
    BY <1>1, <1>3 DEF Shown

\* Whatever the model answers about a context, what is left is about its files.
LEMMA AnswerIsGood ==
    ASSUME NEW r \in Replies, listed \in Contents, mode \in {"diff", "deep"},
           NEW i \in DOMAIN Contexts
    PROVE  /\ NormalizeResult(r, Contexts[i]) \in Results
           /\ GoodAnswer(NormalizeResult(r, Contexts[i]), listed)
  <1> DEFINE N == NormalizeResult(r, Contexts[i])
             c == Contexts[i]
  <1>1. listed \in Seq(ChangedFiles) /\ DistinctPaths(listed) /\ r \in Results
    BY ContentFacts, ContentAssumption
  <1>2. ASSUME NEW f, Locatable(f, c)
        PROVE  Reviewable(f, listed)
    <2>1. CASE mode = "deep"
      <3>1. Contexts = <<BuildDiffContext(listed, Plan)>>
        BY <2>1 DEF Contexts
      <3>2. c = BuildDiffContext(listed, BuildDiffBatches(listed))
        BY <3>1 DEF Plan
      <3> HIDE DEF c
      <3> QED
        BY <1>1, <1>2, <3>2, DiffContextFacts
    <2>2. CASE mode = "diff"
      <3>1. Contexts = [k \in DOMAIN Plan.batches |-> BatchContext(listed, Plan, k)]
        BY <2>2 DEF Contexts
      <3>2. i \in DOMAIN Plan.batches /\ c = BatchContext(listed, Plan, i)
        BY <3>1
      <3> HIDE DEF c
      <3> QED
        BY <1>1, <1>2, <3>2, BatchContextFacts DEF Plan
    <2> QED
      BY <2>1, <2>2
  <1> HIDE DEF c
  <1>3. /\ N \in Results
        /\ \A f \in ToSet(N.findings) : Locatable(f, c)
        /\ N.verdict = "clean" => ToSet(N.findings) = {}
    BY <1>1, NormalizeFacts DEF c
  <1> HIDE DEF N
  <1>4. GoodAnswer(N, listed)
    BY <1>2, <1>3 DEF GoodAnswer
  <1> QED
    BY <1>3, <1>4 DEF N

\* The merge of such answers is one.
LEMMA MergeIsGood ==
    ASSUME NEW s \in Seq(Results), NEW c, \A i \in DOMAIN s : GoodAnswer(s[i], c)
    PROVE  MergeReviewResults(s) \in Results /\ GoodAnswer(MergeReviewResults(s), c)
  <1> DEFINE merged == MergeReviewResults(s)
             said == UNION {ToSet(s[i].findings) : i \in DOMAIN s}
  <1>1. \A i \in DOMAIN s : s[i].verdict = "clean" => ToSet(s[i].findings) = {}
    BY DEF GoodAnswer
  <1>2. /\ merged \in Results
        /\ merged.verdict = "clean" => ToSet(merged.findings) = {}
        /\ ToSet(merged.findings) \subseteq said
    BY <1>1, MergeFacts
  <1>3. \A f \in said : Reviewable(f, c)
    BY DEF GoodAnswer
  <1> QED
    BY <1>2, <1>3 DEF GoodAnswer

\* Hence the result is one as well.
LEMMA ResultIsGood ==
    ASSUME CInv, pc \in {"recheck", "post", "complete"}
    PROVE  GoodAnswer(result, listed)
  <1>1. answers \in Seq(Results) /\ \A i \in DOMAIN answers : GoodAnswer(answers[i], listed)
    BY DEF CInv, ContentTypeOK, GoodAnswers
  <1>2. CASE mode = "deep"
    BY <1>1, <1>2 DEF CInv, GoodAnswers
  <1>3. CASE mode = "diff"
    BY <1>1, <1>3, MergeIsGood DEF CInv, GoodAnswers
  <1> QED
    BY <1>2, <1>3 DEF CInv, ContentTypeOK

-----------------------------------------------------------------------------
(* The initial states.                                                     *)

LEMMA ContentInitial == ContentInit => CInv
  <1> SUFFICES ASSUME ContentInit
               PROVE  CInv
    OBVIOUS
  <1>1. CleanResult \in Results
    BY DEF CleanResult, Results
  <1>2. ContentTypeOK
    BY <1>1, ContentAssumption DEF ContentInit, ContentTypeOK
  <1>3. SameFiles /\ GoodAnswers /\ LedgerIsPast /\ OpenFindingsAreCurrent
    BY DEF ContentInit, SameFiles, GoodAnswers, LedgerIsPast, OpenFindingsAreCurrent
  <1> QED
    BY <1>2, <1>3 DEF CInv

-----------------------------------------------------------------------------
(* The steps.                                                              *)

\* What a step that leaves the ledger alone keeps of it.
LEMMA SameLedger ==
    ASSUME OpenFindingsAreCurrent, UNCHANGED <<ledger, spoken>>
    PROVE  OpenFindingsAreCurrent'
  BY DEF OpenFindingsAreCurrent

\* The end of a review.
LEMMA ForgetStep ==
    ASSUME CInv, Forget, UNCHANGED <<mode, head, files, commented, ledger, spoken>>,
           reviewed' \subseteq 1 .. head
    PROVE  CInv'
  <1>1. CleanResult \in Results
    BY DEF CleanResult, Results
  <1>2. ContentTypeOK'
    <2>1. /\ pc' = "idle" /\ seen' = 0 /\ truth' = <<>> /\ listed' = <<>>
          /\ answers' = <<>> /\ malformed' = 0 /\ result' = CleanResult
      BY DEF Forget
    <2>2. answers' \in Seq(Results) /\ result' \in Results /\ malformed' \in 0 .. FormatRetries
      BY <1>1, <2>1, ContentAssumption
    <2>3. seen' \in 0 .. head
      BY <2>1 DEF CInv, ContentTypeOK
    <2> QED
      BY <2>1, <2>2, <2>3 DEF CInv, ContentTypeOK
  <1>3. SameFiles' /\ GoodAnswers' /\ LedgerIsPast'
    BY DEF Forget, SameFiles, GoodAnswers, LedgerIsPast
  <1>4. OpenFindingsAreCurrent'
    BY SameLedger DEF CInv
  <1> QED
    BY <1>2, <1>3, <1>4 DEF CInv

LEMMA PushStep ==
    ASSUME CInv, NEW c \in Contents, Push(c)
    PROVE  CInv'
  <1> USE DEF CInv, Push, serviceVars, storeVars
  <1>1. ContentTypeOK'
    <2>1. head' \in 1 .. MaxHeads /\ 1 .. head \subseteq 1 .. head' /\ 0 .. head \subseteq 0 .. head'
      BY ContentAssumption DEF ContentTypeOK
    <2> QED
      BY <2>1 DEF ContentTypeOK
  <1>2. SameFiles'
    BY DEF ContentTypeOK, SameFiles
  <1>3. GoodAnswers' /\ LedgerIsPast'
    BY DEF GoodAnswers, LedgerIsPast
  <1>4. OpenFindingsAreCurrent'
    BY SameLedger
  <1> QED
    BY <1>1, <1>2, <1>3, <1>4

LEMMA StartStep ==
    ASSUME CInv, Start
    PROVE  CInv'
  <1> USE DEF CInv, Start, githubVars, storeVars
  <1>1. ContentTypeOK'
    BY DEF ContentTypeOK
  <1>2. SameFiles' /\ GoodAnswers'
    BY DEF ContentTypeOK, SameFiles, GoodAnswers
  <1>3. LedgerIsPast'
    <2>1. \A fp \in DOMAIN ledger : ledger[fp].last \in 1 .. head
      BY DEF ContentTypeOK
    <2> QED
      BY <2>1 DEF LedgerIsPast, ContentTypeOK
  <1>4. OpenFindingsAreCurrent'
    BY SameLedger
  <1> QED
    BY <1>1, <1>2, <1>3, <1>4

LEMMA ListFilesStep ==
    ASSUME CInv, ListFiles
    PROVE  CInv'
  <1> USE DEF CInv, ListFiles, githubVars, storeVars
  <1>1. ContentTypeOK'
    BY DEF ContentTypeOK
  <1>2. SameFiles' /\ GoodAnswers' /\ LedgerIsPast'
    BY DEF ContentTypeOK, SameFiles, GoodAnswers, LedgerIsPast
  <1>4. OpenFindingsAreCurrent'
    BY SameLedger
  <1> QED
    BY <1>1, <1>2, <1>4

LEMMA AnswerStep ==
    ASSUME CInv, NEW r \in Replies, Answer(r)
    PROVE  CInv'
  <1> DEFINE i == Len(answers) + 1
             a == NormalizeResult(r, Contexts[i])
  <1>1. /\ pc = "ask" /\ listed \in Contents /\ mode \in {"diff", "deep"}
        /\ answers \in Seq(Results) /\ answers' = Append(answers, a)
    BY DEF CInv, ContentTypeOK, SameFiles, Answer
  <1>2. i \in DOMAIN Contexts
    <2>1. Len(answers) \in Nat /\ Len(answers) < Len(Contexts)
      BY <1>1 DEF Answer
    <2>2. DOMAIN Contexts = 1 .. Len(Contexts) /\ Len(Contexts) \in Nat
      <3>1. CASE mode = "deep"
        BY <3>1 DEF Contexts
      <3>2. CASE mode = "diff"
        <4>1. Contexts = [k \in DOMAIN Plan.batches |-> BatchContext(listed, Plan, k)]
          BY <3>2 DEF Contexts
        <4>2. Plan.batches \in Seq(OneBatch)
          BY <1>1, ContentFacts, PlanFacts DEF Plan, Faithful
        <4>3. DOMAIN Contexts = 1 .. Len(Plan.batches) /\ Len(Plan.batches) \in Nat
          BY <4>1, <4>2
        <4>4. Contexts \in Seq({Contexts[k] : k \in DOMAIN Contexts})
          <5> DEFINE n == Len(Plan.batches)
          <5> HIDE DEF n
          <5>1. Contexts = [k \in 1 .. n |-> BatchContext(listed, Plan, k)] /\ n \in Nat
            BY <4>1, <4>2 DEF n
          <5> QED
            BY <5>1
        <4> QED
          BY <4>4
      <3> QED
        BY <1>1, <3>1, <3>2
    <2> HIDE DEF Contexts
    <2> QED
      BY <2>1, <2>2
  <1>3. a \in Results /\ GoodAnswer(a, listed)
    BY <1>1, <1>2, AnswerIsGood
  <1> HIDE DEF a, i
  <1>4. answers' \in Seq(Results) /\ \A j \in DOMAIN answers' : GoodAnswer(answers'[j], listed)
    <2>1. answers' \in Seq(Results)
      BY <1>1, <1>3
    <2>2. ASSUME NEW j \in 1 .. Len(answers) + 1
          PROVE  GoodAnswer(answers'[j], listed)
      <3>1. CASE j = Len(answers) + 1
        BY <1>1, <1>3, <3>1
      <3>2. CASE j # Len(answers) + 1
        <4>1. j \in DOMAIN answers /\ answers'[j] = answers[j]
          BY <1>1, <3>2
        <4> QED
          BY <1>1, <4>1 DEF CInv, GoodAnswers
      <3> QED
        BY <3>1, <3>2
    <2>3. DOMAIN answers' = 1 .. Len(answers) + 1
      BY <1>1, <1>3
    <2> QED
      BY <2>1, <2>2, <2>3
  <1>5. /\ malformed' = 0
        /\ UNCHANGED <<mode, head, files, commented, pc, seen, truth, listed, result, reviewed, ledger, spoken>>
    BY DEF Answer, githubVars, storeVars
  <1>6. ContentTypeOK'
    BY <1>4, <1>5, ContentAssumption DEF CInv, ContentTypeOK
  <1>7. SameFiles' /\ LedgerIsPast'
    BY <1>5 DEF CInv, SameFiles, LedgerIsPast
  <1>8. GoodAnswers'
    BY <1>1, <1>4, <1>5 DEF GoodAnswers
  <1>9. OpenFindingsAreCurrent'
    BY <1>5, SameLedger DEF CInv
  <1> QED
    BY <1>6, <1>7, <1>8, <1>9 DEF CInv

LEMMA MalformedStep ==
    ASSUME CInv, Malformed
    PROVE  CInv'
  <1>1. UNCHANGED <<mode, head, files, commented, reviewed, ledger, spoken>>
    BY DEF Malformed, githubVars, storeVars
  <1>2. CASE Forget
    BY <1>1, <1>2, ForgetStep DEF CInv, ContentTypeOK
  <1>3. CASE malformed < FormatRetries /\ malformed' = malformed + 1
             /\ UNCHANGED <<pc, seen, truth, listed, answers, result>>
    <2>1. malformed' \in 0 .. FormatRetries
      BY <1>3, ContentAssumption DEF CInv, ContentTypeOK
    <2>2. ContentTypeOK'
      BY <1>1, <1>3, <2>1 DEF CInv, ContentTypeOK
    <2>3. SameFiles' /\ GoodAnswers' /\ LedgerIsPast'
      BY <1>1, <1>3 DEF CInv, SameFiles, GoodAnswers, LedgerIsPast
    <2>4. OpenFindingsAreCurrent'
      BY <1>1, SameLedger DEF CInv
    <2> QED
      BY <2>2, <2>3, <2>4 DEF CInv
  <1> QED
    BY <1>2, <1>3 DEF Malformed

LEMMA MergeStep ==
    ASSUME CInv, Merge
    PROVE  CInv'
  <1>1. /\ pc = "ask" /\ pc' = "recheck" /\ answers \in Seq(Results) /\ mode \in {"diff", "deep"}
        /\ UNCHANGED <<mode, head, files, commented, seen, truth, listed, answers, malformed,
                      reviewed, ledger, spoken>>
    BY DEF CInv, ContentTypeOK, Merge, githubVars, storeVars
  <1>2. \A i \in DOMAIN answers : GoodAnswer(answers[i], listed)
    BY <1>1 DEF CInv, GoodAnswers
  <1>3. CASE mode = "deep"
    <2>1. Len(Contexts) = 1
      BY <1>3 DEF Contexts
    <2>2. Len(answers) = 1 /\ result' = answers[1]
      BY <1>3, <2>1 DEF Merge
    <2>3. 1 \in DOMAIN answers /\ answers[1] \in Results
      BY <1>1, <2>2
    <2> QED
      <3>1. ContentTypeOK'
        BY <1>1, <2>2, <2>3 DEF CInv, ContentTypeOK
      <3>2. SameFiles' /\ LedgerIsPast'
        BY <1>1 DEF CInv, SameFiles, LedgerIsPast
      <3>3. GoodAnswers'
        BY <1>1, <1>2, <1>3, <2>2, <2>3 DEF GoodAnswers
      <3>4. OpenFindingsAreCurrent'
        BY <1>1, SameLedger DEF CInv
      <3> QED
        BY <3>1, <3>2, <3>3, <3>4 DEF CInv
  <1>4. CASE mode = "diff"
    <2>1. result' = MergeReviewResults(answers) /\ result' \in Results
      BY <1>1, <1>2, <1>4, MergeIsGood DEF Merge
    <2> QED
      <3>1. ContentTypeOK'
        BY <1>1, <2>1 DEF CInv, ContentTypeOK
      <3>2. SameFiles' /\ LedgerIsPast'
        BY <1>1 DEF CInv, SameFiles, LedgerIsPast
      <3>3. GoodAnswers'
        BY <1>1, <1>2, <1>4, <2>1 DEF GoodAnswers
      <3>4. OpenFindingsAreCurrent'
        BY <1>1, SameLedger DEF CInv
      <3> QED
        BY <3>1, <3>2, <3>3, <3>4 DEF CInv
  <1> QED
    BY <1>1, <1>3, <1>4

LEMMA RecheckStep ==
    ASSUME CInv, Recheck
    PROVE  CInv'
  <1>1. pc = "recheck" /\ UNCHANGED <<mode, head, files, commented, reviewed, ledger, spoken>>
    BY DEF Recheck, githubVars, storeVars
  <1>2. CASE Forget
    BY <1>1, <1>2, ForgetStep DEF CInv, ContentTypeOK
  <1>3. CASE head = seen /\ pc' = "post" /\ UNCHANGED <<seen, truth, listed, answers, malformed, result>>
    <2>1. ContentTypeOK'
      BY <1>1, <1>3 DEF CInv, ContentTypeOK
    <2>2. SameFiles' /\ GoodAnswers' /\ LedgerIsPast'
      BY <1>1, <1>3 DEF CInv, SameFiles, GoodAnswers, LedgerIsPast
    <2>3. OpenFindingsAreCurrent'
      BY <1>1, SameLedger DEF CInv
    <2> QED
      BY <2>1, <2>2, <2>3 DEF CInv
  <1> QED
    BY <1>2, <1>3 DEF Recheck

LEMMA PostCommentStep ==
    ASSUME CInv, PostComment
    PROVE  CInv'
  <1> USE DEF CInv, PostComment, storeVars
  <1>1. ContentTypeOK'
    BY DEF ContentTypeOK, SameFiles
  <1>2. SameFiles' /\ GoodAnswers' /\ LedgerIsPast'
    BY DEF SameFiles, GoodAnswers, LedgerIsPast
  <1>3. OpenFindingsAreCurrent'
    BY SameLedger
  <1> QED
    BY <1>1, <1>2, <1>3

LEMMA AdoptStep ==
    ASSUME CInv, Adopt
    PROVE  CInv'
  <1>1. UNCHANGED <<mode, head, files, commented, ledger, spoken>> /\ Forget
    BY DEF Adopt, githubVars
  <1>2. reviewed' \subseteq 1 .. head
    BY DEF CInv, ContentTypeOK, SameFiles, Adopt
  <1> QED
    BY <1>1, <1>2, ForgetStep

LEMMA InterruptStep ==
    ASSUME CInv, Interrupt
    PROVE  CInv'
  <1>1. UNCHANGED <<mode, head, files, commented, reviewed, ledger, spoken>> /\ Forget
    BY DEF Interrupt, githubVars, storeVars
  <1> QED
    BY <1>1, ForgetStep DEF CInv, ContentTypeOK

-----------------------------------------------------------------------------
(* complete_review.                                                        *)

\* A set of numbers that is not empty has a least one.
LEMMA LeastFacts ==
    ASSUME NEW S, S \subseteq Nat, S # {}
    PROVE  Min(S) \in S
  <1> DEFINE T == {n \in Nat : \A y \in S : n < y}
  <1> SUFFICES ASSUME \A x \in S : \E y \in S : ~(x <= y)
               PROVE  FALSE
    BY DEF Min
  <1>1. 0 \in T
    <2>1. 0 \notin S
      OBVIOUS
    <2> QED
      BY <2>1
  <1>2. ASSUME NEW n \in Nat, n \in T
        PROVE  n + 1 \in T
    <2>1. \A y \in S : n + 1 <= y
      BY <1>2
    <2>2. n + 1 \notin S
      BY <2>1
    <2> QED
      BY <2>1, <2>2
  <1> HIDE DEF T
  <1>3. \A n \in Nat : n \in T
    BY <1>1, <1>2, Induction
  <1>4. PICK x \in S : x \in Nat
    OBVIOUS
  <1> QED
    BY <1>3, <1>4 DEF T

\* The row of a finding that is reported.
LEMMA RowFacts ==
    ASSUME CInv, pc = "complete", NEW fp \in Reported
    PROVE  /\ Row(fp) \in [line : Nat, status : {"new", "active", "relocated"},
                           first : 1 .. head, last : 1 .. head]
           /\ Row(fp).last = seen
           /\ Row(fp).first <= seen
           /\ Row(fp).status = "new" => Row(fp).first = seen
  <1> DEFINE I == {i \in 1 .. Len(result.findings) : Fingerprint(result.findings[i]) = fp}
             i == SelectInSeq(result.findings, LAMBDA f : Fingerprint(f) = fp)
             f == result.findings[i]
             known == fp \in DOMAIN ledger
  <1>1. result.findings \in Seq(Findings) /\ seen \in 1 .. head /\ head \in Nat
    BY DEF CInv, ContentTypeOK, SameFiles, Results
  <1>2. I # {} /\ I \subseteq Nat
    BY <1>1 DEF Reported, ToSet
  <1>3. i = Min(I)
    BY <1>2 DEF SelectInSeq
  <1>4. f.line \in Nat
    <2> HIDE DEF I
    <2>1. i \in I
      BY <1>2, <1>3, LeastFacts
    <2>2. f \in Findings
      BY <1>1, <2>1 DEF I
    <2> QED
      BY <2>2 DEF Findings
  <1>5. known => /\ ledger[fp].first \in 1 .. head /\ ledger[fp].last \in 1 .. head
                 /\ ledger[fp].last <= seen /\ ledger[fp].first <= ledger[fp].last
    BY DEF CInv, ContentTypeOK, LedgerIsPast, OpenFindingsAreCurrent
  <1>6. Row(fp) = [line |-> f.line,
                   status |-> IF ~known THEN "new"
                              ELSE IF ledger[fp].line = f.line THEN "active" ELSE "relocated",
                   first |-> IF known THEN ledger[fp].first ELSE seen,
                   last |-> seen]
    BY DEF Row
  <1> HIDE DEF i, f
  <1>7. (IF known THEN ledger[fp].first ELSE seen) \in 1 .. head
        /\ (IF known THEN ledger[fp].first ELSE seen) <= seen
    BY <1>1, <1>5
  <1> QED
    BY <1>1, <1>4, <1>6, <1>7

LEMMA CompleteStep ==
    ASSUME CInv, Complete
    PROVE  CInv'
  <1> DEFINE covered == ToSet(Plan.reviewed)
             D == DOMAIN ledger \union Reported
             Rows == [line : Nat, status : {"new", "active", "relocated", "resolved"},
                      first : 1 .. head, last : 1 .. head]
  <1>1. /\ pc = "complete" /\ Forget /\ reviewed' = reviewed \union {seen}
        /\ UNCHANGED <<mode, head, files, commented>>
        /\ SyncFindings /\ Remember
    BY DEF Complete, githubVars
  <1>2. /\ listed \in Contents /\ seen \in 1 .. head /\ head \in Nat
        /\ \A fp \in DOMAIN ledger : ledger[fp] \in Rows /\ ledger[fp].last <= seen
    BY <1>1 DEF CInv, ContentTypeOK, SameFiles, LedgerIsPast
  <1>3. covered \subseteq Paths
    BY <1>2, ReviewedArePaths DEF Plan
  <1>4. \A fp \in Reported : fp[1] \in covered
    <2>1. \A f \in ToSet(result.findings) : f.path \in covered
      BY <1>1, ResultIsGood DEF GoodAnswer, Reviewable, Plan
    <2> QED
      BY <2>1 DEF Reported, Fingerprint
  <1> HIDE DEF covered
  <1>5. /\ DOMAIN ledger' = D
        /\ \A fp \in D : ledger'[fp] = IF fp \in Reported THEN Row(fp)
                ELSE IF ledger[fp].status # "resolved" /\ fp[1] \in covered
                     THEN Resolve(ledger[fp]) ELSE ledger[fp]
    BY <1>1 DEF SyncFindings, covered
  <1>6. /\ DOMAIN spoken' = DOMAIN spoken \union covered
        /\ \A p \in DOMAIN spoken \union covered :
              spoken'[p] = IF p \in covered THEN {fp \in Reported : fp[1] = p} ELSE spoken[p]
    BY <1>1 DEF Remember, covered
  <1>7. ASSUME NEW fp \in DOMAIN ledger
        PROVE  /\ fp[1] \in DOMAIN spoken
               /\ ledger[fp].status # "resolved" <=> fp \in spoken[fp[1]]
               /\ ledger[fp].status = "new" => ledger[fp].first = ledger[fp].last
               /\ ledger[fp].first <= ledger[fp].last
    BY DEF CInv, OpenFindingsAreCurrent
  <1>8. ASSUME NEW fp \in D
        PROVE  /\ ledger'[fp] \in Rows
               /\ fp[1] \in DOMAIN spoken'
               /\ ledger'[fp].status # "resolved" <=> fp \in spoken'[fp[1]]
               /\ ledger'[fp].status = "new" => ledger'[fp].first = ledger'[fp].last
               /\ ledger'[fp].first <= ledger'[fp].last
    <2>1. CASE fp \in Reported
      <3>1. ledger'[fp] = Row(fp)
        BY <1>5, <2>1
      <3>2. /\ fp[1] \in covered /\ fp[1] \in DOMAIN spoken'
            /\ spoken'[fp[1]] = {q \in Reported : q[1] = fp[1]}
        BY <1>4, <1>6, <2>1
      <3>3. /\ Row(fp) \in Rows /\ Row(fp).status # "resolved" /\ Row(fp).last = seen
            /\ Row(fp).first <= seen /\ (Row(fp).status = "new" => Row(fp).first = seen)
        BY <1>1, <2>1, RowFacts
      <3> HIDE DEF Rows
      <3> QED
        BY <2>1, <3>1, <3>2, <3>3
    <2>2. CASE fp \notin Reported /\ fp[1] \in covered
      <3>1. /\ fp \in DOMAIN ledger /\ fp[1] \in DOMAIN spoken'
            /\ fp \notin spoken'[fp[1]]
        BY <1>6, <2>2
      <3>2. ledger'[fp] = IF ledger[fp].status # "resolved" THEN Resolve(ledger[fp]) ELSE ledger[fp]
        BY <1>5, <2>2
      <3>3. CASE ledger[fp].status # "resolved"
        <4>1. ledger'[fp] = [line |-> ledger[fp].line, status |-> "resolved",
                             first |-> ledger[fp].first, last |-> seen]
          BY <3>2, <3>3 DEF Resolve
        <4>2. ledger[fp] \in Rows /\ ledger[fp].last <= seen /\ ledger[fp].first <= ledger[fp].last
          BY <1>2, <1>7, <3>1
        <4>3. /\ ledger[fp].line \in Nat /\ ledger[fp].first \in 1 .. head
              /\ ledger[fp].last \in 1 .. head
          BY <4>2
        <4>4. ledger[fp].first <= seen
          BY <1>2, <4>2, <4>3
        <4> QED
          BY <1>2, <3>1, <4>1, <4>3, <4>4
      <3>4. CASE ledger[fp].status = "resolved"
        <4> HIDE DEF Rows
        <4> QED
          BY <1>2, <1>7, <3>1, <3>2, <3>4
      <3> QED
        BY <3>3, <3>4
    <2>3. CASE fp \notin Reported /\ fp[1] \notin covered
      <3>1. fp \in DOMAIN ledger /\ ledger'[fp] = ledger[fp]
        BY <1>5, <2>3
      <3>2. fp[1] \in DOMAIN spoken' /\ spoken'[fp[1]] = spoken[fp[1]]
        BY <1>6, <1>7, <2>3, <3>1
      <3> HIDE DEF Rows
      <3> QED
        BY <1>2, <1>7, <3>1, <3>2
    <2> QED
      BY <2>1, <2>2, <2>3
  <1>8a. ASSUME NEW p \in DOMAIN spoken', NEW fp \in spoken'[p]
         PROVE  fp[1] = p /\ fp \in D
    <2>1. CASE p \in covered
      BY <1>6, <1>8a, <2>1
    <2>2. CASE p \notin covered
      <3>1. p \in DOMAIN spoken /\ fp \in spoken[p]
        BY <1>6, <1>8a, <2>2
      <3> QED
        BY <3>1 DEF CInv, OpenFindingsAreCurrent
    <2> QED
      BY <2>1, <2>2
  <1> HIDE DEF D, Rows
  <1>9. OpenFindingsAreCurrent'
    BY <1>5, <1>8, <1>8a DEF OpenFindingsAreCurrent
  <1>10. \A fp \in DOMAIN ledger' : ledger'[fp] \in Rows
    BY <1>5, <1>8
  <1>11. /\ pc' = "idle" /\ seen' = 0 /\ truth' = <<>> /\ listed' = <<>>
         /\ answers' = <<>> /\ malformed' = 0 /\ result' = CleanResult
    BY <1>1 DEF Forget
  <1>12. DOMAIN spoken' \subseteq Paths /\ reviewed' \subseteq 1 .. head
    BY <1>1, <1>2, <1>3, <1>6 DEF CInv, ContentTypeOK
  <1>13. ContentTypeOK'
    <2>1. answers' \in Seq(Results) /\ result' \in Results /\ malformed' \in 0 .. FormatRetries
      BY <1>11, ContentAssumption DEF CleanResult, Results
    <2>2. seen' \in 0 .. head
      BY <1>2, <1>11
    <2>3. \A fp \in DOMAIN ledger' :
             ledger'[fp] \in [line : Nat, status : {"new", "active", "relocated", "resolved"},
                              first : 1 .. head', last : 1 .. head']
      BY <1>1, <1>10 DEF Rows
    <2> QED
      BY <1>1, <1>11, <1>12, <2>1, <2>2, <2>3 DEF CInv, ContentTypeOK
  <1>14. SameFiles' /\ GoodAnswers' /\ LedgerIsPast'
    BY <1>11 DEF SameFiles, GoodAnswers, LedgerIsPast
  <1> QED
    BY <1>9, <1>13, <1>14 DEF CInv
-----------------------------------------------------------------------------
(* The invariant holds.                                                    *)

LEMMA ContentStep == CInv /\ [ContentNext]_contentVars => CInv'
  <1> SUFFICES ASSUME CInv, [ContentNext]_contentVars
               PROVE  CInv'
    OBVIOUS
  <1>1. ASSUME NEW c \in Contents, Push(c)
        PROVE  CInv'
    BY <1>1, PushStep
  <1>2. CASE Start
    BY <1>2, StartStep
  <1>3. CASE ListFiles
    BY <1>3, ListFilesStep
  <1>4. ASSUME NEW r \in Replies, Answer(r)
        PROVE  CInv'
    BY <1>4, AnswerStep
  <1>5. CASE Malformed
    BY <1>5, MalformedStep
  <1>6. CASE Merge
    BY <1>6, MergeStep
  <1>7. CASE Recheck
    BY <1>7, RecheckStep
  <1>8. CASE PostComment
    BY <1>8, PostCommentStep
  <1>9. CASE Complete
    BY <1>9, CompleteStep
  <1>10. CASE Adopt
    BY <1>10, AdoptStep
  <1>11. CASE Interrupt
    BY <1>11, InterruptStep
  <1>12. CASE UNCHANGED contentVars
    BY <1>12 DEF CInv, ContentTypeOK, SameFiles, GoodAnswers, LedgerIsPast,
         OpenFindingsAreCurrent, contentVars, githubVars, serviceVars, storeVars
  <1> QED
    BY <1>1, <1>2, <1>3, <1>4, <1>5, <1>6, <1>7, <1>8, <1>9, <1>10, <1>11, <1>12
       DEF ContentNext

\* The inductive invariant holds in every state of every review.
THEOREM ContentInvariant == ContentSpec => []CInv
  BY ContentInitial, ContentStep, PTL DEF ContentSpec

\* The types of the reviews: whatever is answered, what is made of it is a
\* result, and the ledger's rows are about heads the pull request has had.
THEOREM ContentTypes == ContentSpec => []ContentTypeOK
  <1>1. CInv => ContentTypeOK
    BY DEF CInv
  <1> QED
    BY <1>1, ContentInvariant, PTL

-----------------------------------------------------------------------------
(* The four properties.                                                    *)

LEMMA BatchesInEveryState == CInv => BatchesFaithful
  <1> SUFFICES ASSUME CInv
               PROVE  BatchesFaithful
    OBVIOUS
  <1> DEFINE batches == Plan.batches
             n == Len(listed)
  <1>1. listed \in Seq(ChangedFiles) /\ DistinctPaths(listed)
    <2>1. CASE listed = <<>>
      BY <2>1 DEF DistinctPaths
    <2>2. CASE listed \in Contents
      BY <2>2, ContentFacts
    <2> QED
      BY <2>1, <2>2 DEF CInv, ContentTypeOK
  <1>2. /\ Faithful(listed, n, batches)
        /\ ToSet(Plan.omitted) = NotShown(listed, n)
    BY <1>1, PlanFacts DEF Plan
  <1>3. batches \in Seq(OneBatch) /\ DOMAIN batches = 1 .. Len(batches) /\ Len(batches) \in Nat
    BY <1>2 DEF Faithful
  <1>4. DOMAIN listed = 1 .. n
    BY <1>1
  <1> HIDE DEF batches, n
  <1>5. Shown(listed, n) = PathsOf({f \in ToSet(listed) : Packable(f)})
    BY <1>4 DEF Shown, PathsOf, ToSet
  <1>6. NotShown(listed, n) = PathsOf({f \in ToSet(listed) : ~Packable(f)})
    BY <1>4 DEF NotShown, PathsOf, ToSet
  <1>7. \A i \in 1 .. Len(batches) :
            /\ Sound(listed, n, batches[i])
            /\ DOMAIN batches[i].files = 1 .. Len(batches[i].files)
            /\ batches[i].files # <<>>
            /\ batches[i].bytes = SizeOf(listed, batches[i].files)
            /\ batches[i].bytes <= MaxBytes
    BY <1>2 DEF Faithful, Sound, OneBatch
  <1>8. UNION {ToSet(b.files) : b \in ToSet(batches)} = Shown(listed, n)
    <2>1. ASSUME NEW b \in ToSet(batches), NEW p \in ToSet(b.files)
          PROVE  p \in Shown(listed, n)
      BY <1>3, <1>7 DEF ToSet, Sound
    <2>2. ASSUME NEW p \in Shown(listed, n)
          PROVE  \E b \in ToSet(batches) : p \in ToSet(b.files)
      <3>1. PICK i \in 1 .. Len(batches) : \E a \in 1 .. Len(batches[i].files) : batches[i].files[a] = p
        BY <1>2 DEF Faithful, Covering
      <3>2. p \in ToSet(batches[i].files)
        BY <1>7, <3>1 DEF ToSet
      <3>3. batches[i] \in ToSet(batches)
        BY <1>3 DEF ToSet
      <3> QED
        BY <3>2, <3>3
    <2> QED
      BY <2>1, <2>2
  <1>9. \A i, j \in DOMAIN batches :
           \A a \in DOMAIN batches[i].files, b \in DOMAIN batches[j].files :
              i < j \/ (i = j /\ a < b) =>
                 Position(listed, batches[i].files[a]) < Position(listed, batches[j].files[b])
    <2>1. Ordered(listed, batches)
      BY <1>2 DEF Faithful
    <2> QED
      BY <1>3, <1>7, <2>1 DEF Ordered
  <1>10. \A i \in DOMAIN batches : i < Len(batches) =>
            SizeOf(listed, Append(batches[i].files, Head(batches[i + 1].files))) > MaxBytes
    <2>1. Tight(listed, batches)
      BY <1>2 DEF Faithful
    <2>2. \A i \in 1 .. Len(batches) : i < Len(batches) => i \in 1 .. Len(batches) - 1
      BY <1>3
    <2> QED
      BY <1>3, <2>1, <2>2 DEF Tight
  <1> QED
    BY <1>2, <1>3, <1>5, <1>6, <1>7, <1>8, <1>9, <1>10 DEF BatchesFaithful, batches

\* build_diff_batches, for every list of changed files and every limit: no
\* file that can be shown is lost or shown twice, the order is kept, no batch
\* exceeds the limit, and none was closed before it had to be.
THEOREM BatchesAreFaithful == ContentSpec => []BatchesFaithful
  BY BatchesInEveryState, ContentInvariant, PTL

LEMMA AnchoredInEveryState == CInv => OnlyAnchored
  <1> SUFFICES ASSUME CInv, pc \in {"post", "complete"}, NEW f \in ToSet(result.findings)
               PROVE  \E g \in ToSet(truth) :
                         g.path = f.path /\ (f.line \in ReallyAdded(g.patch) \/ Misread(g.patch))
    BY DEF OnlyAnchored
  <1>1. listed \in Contents /\ listed = truth
    BY DEF CInv, SameFiles
  <1>2. Reviewable(f, listed)
    BY ResultIsGood DEF GoodAnswer
  <1>3. PICK g \in ToSet(truth) : g.path = f.path /\ f.line \in ParseChangedLines(g.patch)
    BY <1>1, <1>2 DEF Reviewable
  <1>4. g.patch \in Seq(PatchLines)
    <2>1. truth \in Seq(ChangedFiles)
      BY <1>1, ContentFacts
    <2>2. g \in ChangedFiles
      BY <2>1 DEF ToSet
    <2> QED
      BY <2>2 DEF ChangedFiles, PatchLines
  <1>5. f.line \in ReallyAdded(g.patch) \/ Misread(g.patch)
    BY <1>3, <1>4, ParserIsFaithful
  <1> QED
    BY <1>3, <1>5

\* What is published on a file whose patch the parser reads as git means it
\* stands on lines that the head under review adds, whatever the answers, and
\* whenever the author pushes.
THEOREM FindingsAreAnchored == ContentSpec => []OnlyAnchored
  BY AnchoredInEveryState, ContentInvariant, PTL

LEMMA WorstInEveryState == CInv => MergeKeepsWorst
  <1> SUFFICES ASSUME CInv, pc = "recheck"
               PROVE  MergeKeepsWorst
    BY DEF MergeKeepsWorst
  <1>1. /\ answers \in Seq(Results) /\ mode \in {"diff", "deep"}
        /\ \A i \in DOMAIN answers : GoodAnswer(answers[i], listed)
    BY DEF CInv, ContentTypeOK, GoodAnswers
  <1>2. result.verdict = "clean" => ToSet(result.findings) = {}
    BY ResultIsGood DEF GoodAnswer
  <1>3. CASE mode = "deep"
    BY <1>2, <1>3 DEF MergeKeepsWorst
  <1>4. CASE mode = "diff"
    <2>1. result = MergeReviewResults(answers)
      BY <1>4 DEF CInv, GoodAnswers
    <2>2. \A i \in DOMAIN answers : answers[i].verdict = "clean" => ToSet(answers[i].findings) = {}
      BY <1>1 DEF GoodAnswer
    <2> QED
      BY <1>1, <1>2, <2>1, <2>2, MergeFacts DEF MergeKeepsWorst
  <1> QED
    BY <1>1, <1>3, <1>4

\* merge_review_results, for every number of answers and of findings and every
\* limit: the worst findings are the ones that are kept.
THEOREM MergeIsFaithful == ContentSpec => []MergeKeepsWorst
  BY WorstInEveryState, ContentInvariant, PTL

\* The ledger of findings is that of the last review of each file, over any
\* number of heads, whatever is omitted, fails or is retried between them.
THEOREM LedgerIsCurrent == ContentSpec => []OpenFindingsAreCurrent
  <1>1. CInv => OpenFindingsAreCurrent
    BY DEF CInv
  <1> QED
    BY <1>1, ContentInvariant, PTL
=============================================================================
