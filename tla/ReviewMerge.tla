---------------------------- MODULE ReviewMerge ----------------------------
(***************************************************************************)
(* reviewbot/reviewer.py: what becomes of the model's results, one per     *)
(* batch, before they are published.                                       *)
(*                                                                         *)
(* A finding is a record of path, line, title, problem and priority.       *)
(* Paths are numbers, ordered as their names are; priority 0 is "P0".  Of  *)
(* the texts only their identity is kept, and symbol is part of problem.   *)
(***************************************************************************)
EXTENDS Naturals, Sequences, SequencesExt, FiniteSets

CONSTANT FindingLimit    \* the findings a review keeps, 20 in the code

ASSUME LimitAssumption == FindingLimit \in Nat \ {0}

Findings == [path : Nat, line : Nat, title : Nat, problem : Nat, priority : 0 .. 3]

Results == [verdict : {"clean", "needs_attention"}, rank : 0 .. 3, findings : Seq(Findings)]

CleanResult == [verdict |-> "clean", rank |-> 3, findings |-> <<>>]

-----------------------------------------------------------------------------
\* The elements of a finite set in the order R, a strict total order on it.
InOrder(S, R) ==
    [k \in 1 .. Cardinality(S) |-> CHOOSE i \in S : Cardinality({j \in S : <<j, i>> \in R}) = k - 1]

Less(S) == {p \in S \X S : p[1] < p[2]}

\* normalize_result: findings that cannot be located are dropped.
NormalizeResult(result, context) ==
    LET valid == {i \in DOMAIN result.findings :
                    LET f == result.findings[i]
                    IN  f.path \notin context.omitted /\ <<f.path, f.line>> \in context.anchors}
        order == InOrder(valid, Less(valid))
    IN  [verdict |-> IF valid # {} THEN "needs_attention" ELSE result.verdict,
         rank |-> result.rank,
         findings |-> [k \in DOMAIN order |-> result.findings[order[k]]]]

-----------------------------------------------------------------------------
MergeKey(f) == <<f.path, f.line, f.title>>

\* findings_by_key as a sequence in the order of insertion.
AddByKey(kept, f) ==
    LET same == {i \in DOMAIN kept : MergeKey(kept[i]) = MergeKey(f)}
    IN  IF same = {} THEN Append(kept, f)
        ELSE [i \in DOMAIN kept |->
                IF i \in same /\ f.priority < kept[i].priority THEN f ELSE kept[i]]

\* It after each finding of a result, ...
AddedByKey(kept, findings) ==
    LET after[i \in 0 .. Len(findings)] ==
            IF i = 0 THEN kept ELSE AddByKey(after[i - 1], findings[i])
    IN  after

\* ... and after each result.
MergedByKey(results) ==
    LET after[i \in 0 .. Len(results)] ==
            IF i = 0 THEN <<>>
            ELSE AddedByKey(after[i - 1], results[i].findings)[Len(results[i].findings)]
    IN  after

FindingsByKey(results) == MergedByKey(results)[Len(results)]

Worst(f) == <<f.priority, f.path, f.line>>

Before(a, b) ==
    \/ a[1] < b[1]
    \/ a[1] = b[1] /\ a[2] < b[2]
    \/ a[1] = b[1] /\ a[2] = b[2] /\ a[3] < b[3]

\* The stable sort by (priority, path, line).
Sorts(s) == {p \in (DOMAIN s) \X (DOMAIN s) :
                \/ Before(Worst(s[p[1]]), Worst(s[p[2]]))
                \/ Worst(s[p[1]]) = Worst(s[p[2]]) /\ p[1] < p[2]}

SortFindings(s) ==
    LET order == InOrder(DOMAIN s, Sorts(s)) IN [k \in DOMAIN order |-> s[order[k]]]

Truncate(s) == SubSeq(s, 1, IF Len(s) < FindingLimit THEN Len(s) ELSE FindingLimit)

WorstVerdict(results) ==
    IF \E i \in DOMAIN results : results[i].verdict = "needs_attention"
    THEN "needs_attention" ELSE "clean"

WorstRank(results) ==
    LET ranks == {results[i].rank : i \in DOMAIN results}
    IN  CHOOSE r \in ranks : \A q \in ranks : r <= q

\* Mutant: the findings are cut before they are sorted.
MergeCutsFirst(results) ==
    IF results = <<>> THEN CleanResult
    ELSE [verdict |-> WorstVerdict(results), rank |-> WorstRank(results),
          findings |-> SortFindings(Truncate(FindingsByKey(results)))]

\* merge_review_results.
MergeReviewResults(results) ==
    IF results = <<>> THEN CleanResult
    ELSE [verdict |-> WorstVerdict(results), rank |-> WorstRank(results),
          findings |-> Truncate(SortFindings(FindingsByKey(results)))]

-----------------------------------------------------------------------------
\* finding_fingerprint: the identity of a finding over the heads of a pull
\* request; its line is not part of it.
Fingerprint(f) == <<f.path, f.title, f.problem>>
=============================================================================
