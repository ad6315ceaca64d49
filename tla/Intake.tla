------------------------------- MODULE Intake -------------------------------
(***************************************************************************)
(* robomp's webhook route behind the signature check: the decision of      *)
(* module Routing, the rolling limit of submissions per author, and the    *)
(* event row.  GitHub delivers a webhook any number of times, and the      *)
(* pull requests of the bot are recorded while their webhooks come in.     *)
(*                                                                         *)
(* What the route does to the index and to pending closures is in modules  *)
(* IssueIndex and Autoclose, the row's further life in AgentEvents.        *)
(***************************************************************************)
EXTENDS Routing, Sequences, FiniteSets

CONSTANTS
    Webhooks,       \* delivery ids
    EventOf,        \* the event each of them carries
    PullsOfBot,     \* pull request of the bot -> its issue
    Window,         \* settings.rate_limit_window_seconds
    MaxTime         \* bound: ticks of the clock

ASSUME IntakeAssumption ==
    /\ Window \in Nat
    /\ MaxTime \in Nat

VARIABLES
    time,           \* the clock
    botPulls,       \* table issues: pull request -> issue (set_issue_pr)
    submissions,    \* table submissions, in the order of insertion
    received        \* table events: delivery -> "queued" or "skipped"

intakeVars == <<time, botPulls, submissions, received>>

IntakeInit ==
    /\ time = 0
    /\ botPulls = <<>>
    /\ submissions = <<>>
    /\ received = <<>>

IntakeTypeOK ==
    /\ time \in 0 .. MaxTime
    /\ DOMAIN botPulls \subseteq DOMAIN PullsOfBot
    /\ received \in [DOMAIN received -> {"queued", "skipped"}]
    /\ DOMAIN received \subseteq Webhooks
    /\ \A i \in DOMAIN submissions :
          submissions[i].at <= time /\ submissions[i].delivery \in Webhooks

-----------------------------------------------------------------------------
Tick ==
    /\ time < MaxTime
    /\ time' = time + 1
    /\ UNCHANGED <<botPulls, submissions, received>>

\* gh_open_pr records the pull request of an issue.
OpenPull(p) ==
    /\ p \in DOMAIN PullsOfBot \ DOMAIN botPulls
    /\ botPulls' = [q \in DOMAIN botPulls \union {p} |->
            IF q = p THEN PullsOfBot[p] ELSE botPulls[q]]
    /\ UNCHANGED <<time, submissions, received>>

Counted(d) == \E i \in DOMAIN submissions : submissions[i].delivery = d

\* Submissions of an author since the window that ends at t began.
Recent(login, t) ==
    {i \in DOMAIN submissions : submissions[i].by = login /\ submissions[i].at + Window >= t}

\* Mutant: each tier has a limit of its own.
AdmitPerTier(d, by, assoc) ==
    LET cap == RateLimitCap(by, assoc)
    IN  Counted(d) \/ (cap # Unlimited =>
            Cardinality({i \in Recent(by, time) : submissions[i].cap = cap}) < cap)

\* admit_submission: the decision ...
Admits(d, by, assoc) ==
    LET cap == RateLimitCap(by, assoc)
    IN  Counted(d) \/ (cap # Unlimited => Cardinality(Recent(by, time)) < cap)

\* ... and the row, once per delivery.
RecordSubmission(d, by, assoc) ==
    submissions' = IF Counted(d) THEN submissions
                   ELSE Append(submissions, [delivery |-> d, by |-> by, at |-> time,
                                             cap |-> RateLimitCap(by, assoc)])

\* record_event: a delivery that is there already stays as it is.
RecordReceived(d, st) ==
    received' = [c \in DOMAIN received \union {d} |->
            IF c \in DOMAIN received THEN received[c] ELSE st]

\* webhook: one delivery, the first or a repeated one.
Deliver(d) ==
    LET decision == Route(EventOf[d], botPulls)
    IN  /\ \/ /\ decision.task = "skip"
              /\ RecordReceived(d, "skipped")
              /\ UNCHANGED submissions
           \/ /\ decision.task # "skip"
              /\ decision.by = Lifecycle
              /\ RecordReceived(d, "queued")
              /\ UNCHANGED submissions
           \/ /\ decision.task # "skip"
              /\ decision.by # Lifecycle
              /\ Admits(d, decision.by, decision.assoc)
              /\ RecordSubmission(d, decision.by, decision.assoc)
              /\ RecordReceived(d, "queued")
           \/ /\ decision.task # "skip"
              /\ decision.by # Lifecycle
              /\ ~Admits(d, decision.by, decision.assoc)
              /\ RecordReceived(d, "skipped")
              /\ UNCHANGED submissions
        /\ UNCHANGED <<time, botPulls>>

IntakeNext ==
    \/ Tick
    \/ \E p \in DOMAIN PullsOfBot : OpenPull(p)
    \/ \E d \in Webhooks : Deliver(d)

IntakeSpec == IntakeInit /\ [][IntakeNext]_intakeVars

-----------------------------------------------------------------------------
(* Properties.                                                             *)

\* However often deliveries are repeated and whatever tier each of them finds
\* its author in, no author has more than the cap in the window before any
\* admitted submission, every delivery counts once, and what is queued on
\* behalf of an author is counted.
WithinCap ==
    /\ \A i \in DOMAIN submissions :
          LET s == submissions[i]
              before == {j \in 1 .. i : submissions[j].by = s.by
                                         /\ submissions[j].at + Window >= s.at}
          IN  s.cap # Unlimited => Cardinality(before) <= s.cap
    /\ \A i, j \in DOMAIN submissions :
          submissions[i].delivery = submissions[j].delivery => i = j
    /\ \A d \in DOMAIN received :
          received[d] = "queued" => Counted(d) \/ Route(EventOf[d], botPulls).by = Lifecycle
=============================================================================
