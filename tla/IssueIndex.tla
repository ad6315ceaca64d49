----------------------------- MODULE IssueIndex -----------------------------
(***************************************************************************)
(* robomp's local index of issues and pull requests: webhooks write what   *)
(* they carry, and IssueIndexSync pages through what GitHub updated since  *)
(* its watermark, oldest update first.                                     *)
(*                                                                         *)
(* Times are whole seconds, so several updates and the start of a tick may *)
(* share one; GitHub lists the updates of one second in an order it does   *)
(* not promise.  A sync is a coroutine: while it waits for a page, GitHub, *)
(* webhooks and tools go on.  Of an issue only the revision is kept, the   *)
(* number of its last update, and of that update the time.                 *)
(***************************************************************************)
EXTENDS Naturals, FiniteSets

CONSTANTS
    Count,          \* issues and pull requests of the repository
    PageSize,       \* _PAGE_SIZE, 100 in the code
    MaxPages,       \* _MAX_PAGES_PER_TICK
    Overlap,        \* _SYNC_OVERLAP
    MaxSeconds,     \* bound: seconds that pass
    MaxUpdates,     \* bound: updates of issues
    MaxSyncs        \* bound: ticks of the sync

ASSUME IndexAssumption ==
    /\ Count \in Nat
    /\ PageSize \in Nat \ {0}
    /\ MaxPages \in Nat \ {0}
    /\ Overlap \in Nat
    /\ MaxSeconds \in Nat
    /\ MaxUpdates \in Nat
    /\ MaxSyncs \in Nat

VARIABLES
    clock,          \* the time, in seconds
    updates,        \* the number of the last update
    revision,       \* GitHub: the last update of each number ...
    updatedAt,      \* ... its time ...
    rank,           \* ... and where the number stands among all, sorted by that time
    deliveries,     \* webhooks of the updates, as entries
    index,          \* table issue_index: the revision stored, 0 if none
    watermark,      \* table issue_index_sync, 0 if none
    sync,           \* sync_repo: "idle", "request" or "page"
    started,        \* its locals: started_at, ...
    since,          \* ... since, ...
    page,           \* ... page, ...
    lastSeen,       \* ... last_seen, ...
    arrived,        \* ... the entries of the page GitHub has sent
    stored,         \* history: every entry written to the index
    missed,         \* history: entries that moved onto a page this sync has read ...
    overtaken,      \* ... and those of them that the watermark passed
    syncs           \* ticks so far

issues == <<updates, revision, updatedAt, rank>>
githubIndex == <<clock, issues, deliveries>>
indexVars == <<githubIndex, index, watermark, sync, started, since, page, lastSeen, arrived,
               stored, missed, overtaken, syncs>>
syncLocals == <<sync, started, since, page, lastSeen, arrived, missed>>

\* Their numbers, in the order of their last updates when the model begins.
Numbers == 1 .. Count

\* Number, revision and time of an update.
IndexEntries == Numbers \X (1 .. updates) \X (1 .. clock)

IndexTypeOK ==
    /\ clock \in Count .. Count + MaxSeconds
    /\ updates \in 1 .. 1 + MaxUpdates
    /\ revision \in [Numbers -> 1 .. updates]
    /\ updatedAt \in [Numbers -> 1 .. clock]
    /\ rank \in [Numbers -> Numbers]
    /\ index \in [Numbers -> 0 .. updates]
    /\ deliveries \union stored \union arrived \union missed \union overtaken \subseteq IndexEntries
    /\ {watermark, started, since, lastSeen} \subseteq 0 .. clock
    /\ sync \in {"idle", "request", "page"}
    /\ page \in 0 .. MaxPages
    /\ Cardinality(arrived) <= PageSize
    /\ syncs \in 0 .. MaxSyncs

IndexInit ==
    /\ clock = Count
    /\ updates = 1
    /\ revision = [n \in Numbers |-> 1]
    /\ updatedAt \in {at \in [Numbers -> 1 .. Count] : \A m, n \in Numbers : m <= n => at[m] <= at[n]}
    /\ rank = [n \in Numbers |-> n]
    /\ deliveries = {}
    /\ index = [n \in Numbers |-> 0]
    /\ watermark = 0
    /\ sync = "idle"
    /\ started = 0
    /\ since = 0
    /\ page = 0
    /\ lastSeen = 0
    /\ arrived = {}
    /\ stored = {}
    /\ missed = {}
    /\ overtaken = {}
    /\ syncs = 0

-----------------------------------------------------------------------------
\* What list_issue_index_entries pages over, sort=updated and direction=asc:
\* every issue updated since, at the place its rank gives it.
Listed == {n \in Numbers : updatedAt[n] >= since}
Place(n) == Cardinality({m \in Listed : rank[m] <= rank[n]})
Entry(n) == <<n, revision[n], updatedAt[n]>>

\* The places of the pages GitHub has sent to this sync.
ReadPlaces ==
    IF sync = "idle" THEN 0 ELSE IF sync = "page" THEN page * PageSize ELSE (page - 1) * PageSize

AtReadPlace(n) == n \in Listed /\ Place(n) <= ReadPlaces

TimePasses ==
    /\ clock < Count + MaxSeconds
    /\ clock' = clock + 1
    /\ UNCHANGED <<issues, deliveries, index, watermark, syncLocals, stored, overtaken, syncs>>

\* Somebody updates an issue: it moves behind all that were updated before this
\* second, to a rank p.  If it stood on a page that was read already, the first
\* issue of the next page moves to the last place of the pages read, or the
\* issue itself when no other is left behind it, and the sync does not see it.
UpdateIssue(n, p) ==
    /\ updates <= MaxUpdates
    /\ rank[n] <= p
    /\ \A m \in Numbers : rank[m] > p => updatedAt[m] = clock
    /\ updates' = updates + 1
    /\ revision' = [revision EXCEPT ![n] = updates + 1]
    /\ updatedAt' = [updatedAt EXCEPT ![n] = clock]
    /\ rank' = [m \in Numbers |-> IF m = n THEN p
                                   ELSE IF rank[n] < rank[m] /\ rank[m] <= p THEN rank[m] - 1
                                   ELSE rank[m]]
    /\ deliveries' = deliveries \union {Entry(n)'}
    /\ UNCHANGED <<clock, index, watermark, sync, started, since, page, lastSeen, arrived, stored,
                   overtaken, syncs>>
    /\ missed' = missed \union
            {Entry(m)' : m \in {m \in Numbers : AtReadPlace(m)' /\ (m = n \/ ~AtReadPlace(m))}}

\* upsert_issue_index: no look at the version that is there.
UpsertIssueIndex(entries) ==
    /\ index' = [n \in Numbers |->
            IF \E e \in entries : e[1] = n THEN (CHOOSE e \in entries : e[1] = n)[2] ELSE index[n]]
    /\ stored' = stored \union entries

\* ingest_webhook_payload, before the route looks whether it has seen the
\* delivery: deliveries come in any order, more than once, or not at all.
IngestWebhook(d) ==
    /\ d \in deliveries
    /\ UpsertIssueIndex({d})
    /\ UNCHANGED <<githubIndex, watermark, syncLocals, overtaken, syncs>>

-----------------------------------------------------------------------------
(* sync_repo.                                                              *)

Overlapped(t) == IF t > Overlap THEN t - Overlap ELSE 1

StartSync ==
    /\ sync = "idle"
    /\ syncs < MaxSyncs
    /\ syncs' = syncs + 1
    /\ sync' = "request"
    /\ started' = clock
    /\ since' = IF watermark = 0 THEN 0 ELSE Overlapped(watermark)
    /\ page' = 1
    /\ UNCHANGED <<githubIndex, index, watermark, lastSeen, arrived, stored, missed, overtaken>>

\* GitHub serves a page ...
ServePage ==
    /\ sync = "request"
    /\ arrived' = {Entry(n) : n \in {m \in Listed :
            Place(m) \in (page - 1) * PageSize + 1 .. page * PageSize}}
    /\ sync' = "page"
    /\ UNCHANGED <<githubIndex, index, watermark, started, since, page, lastSeen, stored,
                   missed, overtaken, syncs>>

\* The locals of sync_repo are gone.
EndSync ==
    /\ sync' = "idle"
    /\ started' = 0
    /\ since' = 0
    /\ page' = 0
    /\ lastSeen' = 0
    /\ arrived' = {}
    /\ missed' = {}

NewLastSeen ==
    LET times == {lastSeen} \union {e[3] : e \in arrived}
    IN  CHOOSE t \in times : \A u \in times : u <= t

\* Mutant: the page budget does not keep the watermark back.
AdvanceToStart ==
    /\ watermark' = IF Cardinality(arrived) < PageSize \/ NewLastSeen > 0 THEN started ELSE watermark
    /\ overtaken' = overtaken \union {e \in missed : e[3] < watermark'}

\* The watermark after the last page of a tick.
AdvanceWatermark ==
    /\ watermark' = IF Cardinality(arrived) < PageSize THEN started
                    ELSE IF NewLastSeen > 0 THEN NewLastSeen ELSE watermark
    /\ overtaken' = overtaken \union {e \in missed : e[3] < watermark'}

NextPage ==
    /\ page' = page + 1
    /\ sync' = "request"
    /\ arrived' = {}
    /\ lastSeen' = NewLastSeen
    /\ UNCHANGED <<watermark, started, since, missed, overtaken>>

\* Mutant: the budget is one page too large.
StoreOneMore ==
    /\ sync = "page"
    /\ UpsertIssueIndex(arrived)
    /\ IF Cardinality(arrived) < PageSize \/ page > MaxPages
       THEN AdvanceWatermark /\ EndSync ELSE NextPage
    /\ UNCHANGED <<githubIndex, syncs>>

\* ... and the sync stores it, and asks for the next or ends.
StorePage ==
    /\ sync = "page"
    /\ UpsertIssueIndex(arrived)
    /\ IF Cardinality(arrived) < PageSize \/ page = MaxPages
       THEN AdvanceWatermark /\ EndSync ELSE NextPage
    /\ UNCHANGED <<githubIndex, syncs>>

\* tick: a GitHubError of this repository; also a stop of the process.
SyncFails ==
    /\ sync # "idle"
    /\ EndSync
    /\ UNCHANGED <<githubIndex, index, watermark, stored, overtaken, syncs>>

IndexNext ==
    \/ TimePasses
    \/ \E n, p \in Numbers : UpdateIssue(n, p)
    \/ \E d \in deliveries : IngestWebhook(d)
    \/ StartSync
    \/ ServePage
    \/ StorePage
    \/ SyncFails

IndexSpec == IndexInit /\ [][IndexNext]_indexVars

-----------------------------------------------------------------------------
(* Properties.                                                             *)

\* The watermark never passes an update that the index was not told of, over
\* lost webhooks, failing syncs, page budgets and updates between two pages:
\* what GitHub updated before the second of the watermark has been written.
\* Updates of that second may come after the page; the overlap lists them again.
\* The exception is what moved onto a page that the sync had read already.
WatermarkIsHonest ==
    \A n \in Numbers :
        updatedAt[n] < watermark => Entry(n) \in stored \union overtaken

\* The comments of the source know no exception: "everything up to tick start is
\* ingested", and because of the overlap "a sync that raced a concurrent update
\* can never permanently skip it".  What no later sync will list is stored.
NothingIsSkipped ==
    \A n \in Numbers :
        watermark # 0 /\ updatedAt[n] < Overlapped(watermark) => Entry(n) \in stored
=============================================================================
