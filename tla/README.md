# TLA+ verification of oh-my-robot

oh-my-robot is two Python services. `src/src/reviewbot` receives GitHub webhooks
of pull requests, keeps them in a SQLite queue, and lets a pool of asyncio tasks
review each pull request with a language model and publish one comment per
commit. `src/src/robomp` answers issues: it queues events, dispatches them to
coding agents in sandboxes and closes questions after a quiet window. This
directory holds the models of these services, the TLC runs that check them and
the theorems that TLAPS proves about them.

Modelled are the review service with what its reviews say, robomp's event queue,
and beside the queue its webhook intake, the work of agents on an issue, the
release sentinel, the review of incoming pull requests, the autoclose scheduler,
the issue index and the natives cache. *Not modelled* names the rest.

## Inventory

### reviewbot

| part | state | operations | with whom | what makes it correct |
|---|---|---|---|---|
| `storage.py` QueueStore | tables events, reviews, findings, metrics | one SQLite transaction per method | everybody, from threads | one running event per pull request; a settled event stays settled; recovery after a crash |
| `worker.py` WorkerPool | the set of tasks, stop_event | run, _run_claimed, _drain | QueueStore, ReviewService | a claim has a task; retries are bounded; shutdown loses nothing |
| `service.py` ReviewService | locals of one coroutine | process, _publish_review_outputs | GitHub, model, QueueStore | one comment per commit, for the newest commit |
| `main.py`, `webhook.py` | the app's lifespan | webhook route, start, stop | QueueStore, WorkerPool, robomp | nothing accepted is forgotten |
| `admin.py` | none | replay, manual review, listings | QueueStore, GitHub | a replay never doubles a review |
| `diff.py`, `reviewer.py` | none (pure) | batches, repair loop, merge | ReviewService | every changed file in a batch or reported as omitted; merged findings keep the worst rank |
| `storage._sync_findings`, `findings.py` | table findings | status of each finding per head | complete_review | new, active, relocated, resolved as the heads go by |
| clients, rules, renderer, config, logging, OMP subprocess | none | I/O and text | | |

### robomp

| part | state | operations | what makes it correct |
|---|---|---|---|
| `queue.py` WorkerPool, `slot_pool.py`, `cancellation.py` | in-flight keys and tasks, cancel marks and hooks, slots | dispatch, cancel, shutdown, retry | one run per issue, one task per slot, a cancelled event stops, no row lost at shutdown |
| `db.py` | events, issues, releases, submissions, pending closures, issue index, staged reviews | one transaction per method | claims, bounded retries, rolling caps |
| `server.py`, `manual_triage.py` | browse cache | webhook, replay, retry, cancel, triage routes | a route races a run without losing either |
| `autoclose.py` | pending_closures | tick, _process_row | an issue is closed only if its author stayed silent; no row stuck |
| `issue_index.py` | issue_index, watermark | webhook ingestion, incremental sync | the index converges to GitHub |
| `tasks.py`, `worker.py`, `host_tools.py` | one agent run, tool gates | turns, nudges, completion, tools | a run ends; a tool acts only on its own issue |
| `sandbox.py`, `git_ops.py`, `natives_cache.py` | the file system | ensure, reclaim, publish | nothing in use is deleted |
| `github_events.py`, `proxy/`, clients, persona, pragmas, cli, dashboard, config | none or settings | routing, forwarding, text | |

`PROJECT.json` lists these parts with their status, and the hazards at their
lines. The hard behaviours of reviewbot are: tasks that interleave at every
`await`; a store call that runs in a thread and outlives the task that awaits
it; answers of GitHub lost after the request was served; pull requests that move
while they are reviewed, and move back; crashes between the comment and the
record of it; and store errors in places that have no handler. Those of robomp's
queue: a row of the database, a key in memory, an asyncio task and a thread all
stand for one run and end at different moments; a cancellation meets the thread
anywhere between its start and its end; and `stop()` gives up on tasks whose
threads it cannot end. Around the queue, robomp keeps copies of what GitHub has
(rows of issues, releases and closures, an index, origin refs of a clone shared by
all issues of a repository) and acts on them while people act on GitHub; tools
of one agent call GitHub several times, and the task may die between any two calls.

## Modules

| module | models |
|---|---|
| `QueueStore` | the rows of `events` and `reviews` and each transaction on them |
| `ReviewBot` | routes, pool, tasks, lifespan, and the part of GitHub they touch; extends QueueStore |
| `ReviewFaults` | ReviewBot when calls of the store may raise |
| `ReviewPromise` | the abstract specification: phases of events, published comments |
| `AgentEvents` | robomp's table `events` and each transaction on it |
| `AgentQueue` | robomp's dispatcher, slots, tasks, agent threads, cancellation, shutdown and restart; extends AgentEvents |
| `AgentPromise` | the abstract specification of that queue: events, the workspaces they occupy, cancellations |
| `DiffBatches`, `ReviewMerge` | reviewbot's batches of a diff and its merge of results, as operators |
| `ReviewContent` | what successive reviews of a pull request say, and the ledger of findings; extends both |
| `Routing` | robomp's `route` and `rate_limit_cap`, as operators |
| `Intake` | robomp's webhook route: routing, rolling limit, event row; extends Routing |
| `AgentWork` | handlers, git and host tools of agents on one issue |
| `ReleaseTrain` | the release sentinel |
| `PullReview` | the review of an incoming pull request |
| `Autoclose`, `IssueIndex`, `NativesCache` | the three background parts |
| `MCReviewBot`, `MCReviewFaults`, `MCAgentQueue`, `MCParts`, `MCPullReview`, `MCAutoclose`, `MCAgentWork` | the constants of the TLC runs |
| `ReviewBotProofs` | inductive invariants and the safety theorems of ReviewBot |
| `ReviewPromiseProofs` | ReviewBot implements ReviewPromise; settled events stay |
| `AgentQueueProofs` | inductive invariant and the safety theorems of AgentQueue; AgentQueue implements AgentPromise |
| `ReviewFaultsProofs` | what of that holds, and how far, when the store raises |
| `TaskProofs` | safety theorems of AgentWork, ReleaseTrain, PullReview and NativesCache |
| `WebhookProofs` | the same for Intake, IssueIndex and Autoclose |
| `ContentLemmas` | what the operators of DiffBatches and ReviewMerge compute, for every input |
| `ReviewContentProofs` | inductive invariant and the safety theorems of ReviewContent |

`AgentQueue` knows a task by its phases and not by what it does; what a task does
is in the modules below it in the table. The two meet in the key: `AgentQueue`
shows that tasks of one key never overlap, and the modules of the tasks take that
as given. Where the code does not give it, as for events of a pull request that no
row knows yet, `AgentWork` runs two tasks side by side.

### reviewbot: how the state and the actions correspond to the code

`state[d]`, `attempts[d]`, `due[d]` are the columns of the event row `d`, with
`due` for `available_at <= CURRENT_TIMESTAMP`; `reviews` is the table of that
name. A method of QueueStore is one transaction, hence one operator and one
atomic step. Which of several claimable rows `claim_next` returns is left open:
its timestamps have a resolution of one second and ties go to the delivery id.

`pc[w]`, `job[w]`, `sha[w]` are the coroutine in slot `w`: the `await` it has
reached, its job and `pull_request.head_sha`. Every action of a task runs from one
`await` to the next, because asyncio switches tasks only there:

| `pc` | the await | action |
|---|---|---|
| start | first `get_pull_request` | `Start` |
| lookup | `has_review` | `LookUp` |
| comments | `list_pull_request_comments` | `ListComments` |
| model | files, rules, archive and model | `AskModel` |
| recheck | second `get_pull_request` | `Recheck` |
| post, posted | `create_pull_request_comment`: request, answer | `PostComment`, `PostAnswered` |
| outputs | inline comments and check run | `PublishOutputs` |
| skip, adopt, supersede, complete | the transaction that settles the event | `Settle` |
| report | `get_event` for the log | `Report` |
| retry, fail | `mark_failed` | `GiveUp` |
| cancelled | `requeue_if_running` | `RequeueCancelled` |

`CallFails` raises at any external await. At `post` the request was refused; at
`posted` GitHub served it and the answer was lost, which is what makes a retry
dangerous. `AskModel` stands for several awaits that change nothing outside; the
metrics they record are read by nobody.

`loop` is WorkerPool.run and the process around it: up, drain (stop was asked,
tasks finish), cancelled (the drain timed out), stopped (the coroutine has
ended), down. `DrainTimeout` cancels every task, and a task inside a store call
leaves an `orphan`: the thread that may still commit (`OrphanEnds`), before or
after the cancelled task's own requeue. `Exit` waits for the orphans since
asyncio joins the threads of its executor; `Crash` does not, and a thread that
had committed before the crash is the state in which the orphan ended first.
`Boot` is the next start with its recovery.

`ReviewFaults` adds four actions, one per place where a store call may raise:
inside `process`, in the `get_event` after it, in the two handlers, and in
`claim_next` in the loop of the pool, which nothing catches. A fifth,
`SupersedeRefused`, is no fault of its own: `supersede_and_enqueue` raises when
its row is not running any more, which happens only after a late `mark_failed`.

`ReviewPromise` forgets the pool, the process and GitHub: an event is unknown,
waiting, working or settled, and a commit has its comment or not. The refinement
maps `phase` to the state of the row and `published` to the comments.

### robomp: how the state and the actions correspond to the code

A run of an event exists four times, and the model keeps all four apart:

| in the code | in the model |
|---|---|
| the row of `events` | `row`, `attempts`, `due` (AgentEvents) |
| the key in `_inflight` | `inflight` |
| the asyncio task `_run_event` | `pc[d]`, `slot[d]` |
| the thread under `asyncio.to_thread(_run_rpc_blocking, ...)` | `th[d]` |

`pc[d]` is the await the task has reached; one action runs from there to the next:

| `pc` | the await | action |
|---|---|---|
| slot | `SlotPool.acquire` | `AcquireSlot` |
| prepare | the handler up to `run_task`: GitHub, workspace, database | `StartThread`, or `EndEarly` |
| thread | the thread of `run_task` | `EndRun` |
| cancelled | `task.cancel()` was called; `_run_workspace_op` (tasks.py:31) may still wait for its thread | `EndCancelled` |
| reclaim | deletion of the workspace's caches, in `finally` | `Reclaim` |
| release | `_inflight_lock`, then the key is given back | `Release` |

`th[d]` is the thread: *prep* before `RpcClient` starts omp; *spawned* and
*arming* before and after `_arm_cancel` looks for a mark; *agent* while omp works
with its hook armed; *dead* once a hook has killed omp; *ok* or *err* when the
thread has returned. `hooks`, `cancelled` and `interrupted` are `_cancel_hooks`,
`_cancelled` and `_shutdown_cancelled`; `firing` holds hooks that were popped and
that a thread is about to call.

`disp` and `grabbed` are the dispatcher in `_claim_next_unique`: it holds
`_inflight_lock` from the claim of a row until it either takes the row's key
(`Dispatch`) or puts the row back (`Bounce`), so `Release` waits for it. Which
queued row is claimed is left open, as for reviewbot. `attempts` is counted to
`MaxRetries + 1`, where the code compares it last. When `stop()` cancels the
dispatcher inside its claim, the thread of that claim is an `orphan`.

`loop` is the process: *up*; `stop()` in its wait for tasks (*drain*) and in its
interruption of those left (*kill*); *stopped* when `stop()` has returned and
`asyncio.run` cancels what is left and joins the threads; *down*. A crash is
possible in all of them. The replays of the CLI work on the database at any time.

`AgentPromise` forgets tasks, threads, hooks, slots, locks and the dispatcher. An
event works at the workspace of its issue, one event at a time; it is put back only
while that workspace is occupied; a cancelled event can only fail; and nothing
enters a workspace once the service closes. The refinement:

| AgentPromise | AgentQueue |
|---|---|
| `state` | `row` |
| `site` | the deliveries with a task or a thread, until the caches of their workspace are deleted |
| `asked` | the marks of runs that `stop()` has not interrupted: `cancelled \ interrupted` |
| `service` | open while `loop` is up |

### reviewbot: the content of reviews

`ReviewContent` is one review at a time between `list_pull_request_files` and
`complete_review`; `ReviewBot` has the interleavings of the same code. The author
pushes at every await, so a review may list the files of a head newer than the one
it looked up. The model answers anything: `Answer` takes each of a set of replies,
`Malformed` is a reply that does not parse, with its repair prompt.

| in the code | in the model |
|---|---|
| `build_diff_batches`, `build_diff_context` | `BuildDiffBatches`, `BuildDiffContext`: sizes are numbers, of a patch line its kind is kept; `Packed(files)[i]` is the plan after `i` rounds of the loop |
| `parse_changed_lines` | `Parsed(patch)[i]`, the state of the parser after `i` pieces of `str.splitlines()`, which cuts at the ends of git's lines and also within a line, at a form feed, a lone carriage return, U+2028 and others; a piece says whether it is such a rest of a line, which the parser cannot see. `ReallyAdded` is the reference definition, `Misread` names the patches that hold a rest or an added line with `++` |
| `normalize_result`, `merge_review_results` | operators of `ReviewMerge`; titles and problems are numbers; `MergedByKey(results)[i]` are the findings of the first `i` batches |
| `_sync_findings` | `SyncFindings` on `ledger`, by fingerprints of path, title and problem |
| diff mode and deep mode | `mode`, chosen at the start |

Loops over data are recursive functions on the number of rounds, so that their
invariants can be proved. `ContentAssumption` says what is assumed of the inputs:
GitHub lists a changed file once, and a reply that parses is a result.

### robomp: intake

`Deliver` is the webhook route after the signature check: `Route` decides, an event
of the lifecycle is queued, one of an author is admitted by `admit_submission` or
skipped. A webhook may be delivered again at any time, also after its author's tier
or the pull requests of the bot have changed. `route` takes the owner of a personal
repository for one where a comment names no association at all (`"absent"`);
GitHub's literal `NONE` is an association and stays what it is.

### robomp: work on one issue

`AgentWork` keeps the row of the issue, the branch checked out, and the refs of
one branch in three places: `localRefs` and `originRefs` of the pool clone, and
`remoteRefs` on GitHub. `fetched` remembers which commits of other people any
fetch of the pool clone brought; `MCAgentWork` adds `fetchedHere`, those that the tasks of
this issue fetched themselves. A commit is what tells it apart here: whether it has the
bot's work, and whose other commits it contains. `threads` are the two tasks that may
run at once, *issue* and *pull*, since the webhook keys an event of a pull
request by the issue only once the row has its number.

| action | code |
|---|---|
| `TriageIssue`, `HandleComment`, `HandleReview`, `HandlePrConversation`, `CleanupWorkspace` | the handlers of `tasks.py`, up to the workspace |
| `EnsureWorkspace`, `OtherTaskFetches` | `ensure_workspace` and the fetch of the shared pool clone, by this task or by any other |
| `AgentCommits` | the agent, a program outside this code: it may commit its own work or merge what origin has |
| `ClassifyIssue`, `MarkUnable`, `AbortTask` | the host tools of these names |
| `PrePublish`, `GateRefuses`, `GuardedPush` | `gh_push_branch` and `gh_open_pr` up to the push with its lease |
| `CreatePull`, `RecordPull` | `open_pull_request` and `set_issue_pr`, between which the task may die |
| `ForeignPush`, `ClosePull` | people |

`ReleaseTrain` numbers the commits of the default branch; a verdict of GitHub
Actions is an event that may be handled late, more than once, or again after its task
died. `HandleReleaseCi` is the handler to its first call, `Conclude` the
look at all runs and at the published release, the others are the steps of a
round. `PullReview` has the awaits of `review_pr`, `pr_review_comment` and
`submit_pr_review`; `submitCall` is the audit record that the next `review_pr`
reads. In all three modules a task may end at every step, which stands for
failure, timeout, cancellation and crash.

### robomp: background parts

`Autoclose`: the tick is a coroutine, and `tickPc` is the call to GitHub it waits
for; answers, replies and closes act at every one of them. A call may fail, its answer
may be lost, the tick may die.

`IssueIndex`: `since`, `page`, `lastSeen` and `arrived` are the locals of `sync_repo`.
Times are whole seconds, as `updated_at` of GitHub and `_utcnow_iso()` are: any number
of updates, pages and ticks may share one, and `TimePasses` is an action of its own. A
webhook arrives in any order, more than once (the route writes to the index before it
looks for the delivery among the events) or never. The order in which GitHub lists the issues is `rank`, any order that is sorted by those
seconds; among the updates of one second an update lands at any place. An update moves
an issue towards the end of the listing and so shifts the pages under a sync. `Place(n)` is
how many listed issues have a rank no higher than that of `n`, page `k` is an interval
of places, and `missed` takes what an update puts on a place already read. Two things are
assumed of GitHub, and the code has to assume them too: its order of issues that nobody
updates is the same in the next request, and its clock is the one of the process.

`NativesCache`: the phases of a task are the steps of `populate` (without a lock)
and `capture` (under it). An entry is a directory with a manifest, a node file for
each variant that was built, and the companions; a file is the key of the sources it
was built from. `lookup` accepts an entry with its manifest, the companions and *any*
node file, and what is linked afterwards is what is listed then, file by file. Evictions,
after a capture and by the hourly sweep, delete file by file too, while others look
up; a crash leaves what was not deleted yet, and the next eviction takes it first when
its manifest is gone. The cap on bytes is any eviction down to one entry, because sizes
are left out. The inode an entry shares with a workspace is kept as well, so that a write in
place reaches everyone who shares it.

## Runs

| run | bounds | shows |
|---|---|---|
| `review_bot` | 1 pull request, 2 commits, a webhook, its replay, 2 refreshes; 2 interchangeable slots; 1 retry, 2 moves, 1 restart; about 1.1 million states | type invariant, claim lock, no leaked claim, one comment per commit, recorded reviews have comments, bounded attempts, settled rows stay, refinement |
| `review_live` | a manual review, a webhook that is ignored when its turn comes, 2 refreshes, 1 slot, the same limits; about 171 thousand states | every queued event settles; the newest head gets its review |
| `review_faults` | 2 faults, 2 slots, and either 2 pull requests that rest, a webhook and a manual review, 1 restart; or 1 pull request, 2 commits, 4 moves; about 196 thousand states | what is on record is published, faults strand at most as many claims and do not spread to other pull requests |
| `agent_queue` | an issue with a webhook and a manual triage, an event of no issue, 1 slot, 1 retry; 2 replays, triages or restarts while the issue is alone, 1 once the other event is there; about 233 thousand states | type invariant, one run per issue, slots, rows and tasks agree, marks die with their run, cancelled runs fail, a shutdown fails nothing, refinement, every queued event settles |
| `parts` | eight parts, one after the other (below); about 1.09 million states | the type invariants and the twelve properties of the modules from `ReviewContent` to `NativesCache` |
| `stale_conclusion` | as `review_live`, 1 move | violated: `NewestOnly` |
| `pool_death` | 2 pull requests that rest, 1 fault | violated: `PoolKeepsWorking` |
| `agent_cancel` | as `agent_queue`, 1 replay | violated: `LateHookObserves` |
| `review_skip` | 2 remarks, 3 tasks | violated: `SkippedIsSubmitted` |
| `autoclose_race` | 1 question, answered twice | violated: `NoCloseAfterCancel` |
| `index_shift` | as the part in `parts` | violated: `NothingIsSkipped` |
| `lease_shared` | as the part in `parts` | violated: `UnseenIsKept` |

**The run of the parts.** The eight parts share no state, so their product would say
nothing that their sum does not. `MCParts` puts all of them in one run: a behaviour is of
one part, chosen at the start, while the variables of the others rest.
CHECK_DEADLOCK is off because every part may stop: its budget of updates, tasks
or answers is used up.

**Why these bounds.** The claim is a lock on one pull request, and all safety
properties of `ReviewBot` are about one pull request at a time; tasks of
different pull requests share only slots. So one pull request with four events
on two slots has every conflict. Two commits give a head that moves away and
back, the one case in which a refresh row starts afresh. One restart puts a
crash or a shutdown at every step; one retry puts a lost answer before and after
every step. `review_faults` needs a second pull request, because its question is
whether a fault spreads; and it needs moves, because a late `mark_failed` hits the row of
another task only when a refresh is superseded, queued again and claimed. The two
together are too many states and tell no more: `BothSpec` of `MCReviewFaults` lets
either both pull requests rest or one of them move while the other rests. It cuts off only
steps of authors, webhooks, operators and restarts.

In `AgentQueue` two events conflict when they have one key, and meet otherwise
only at the slots. An issue with two deliveries and an event of no issue, on one
slot, have both: a claimed row whose key is in flight, and a task that waits for
the slot of another key. The issue has a webhook and a manual triage because these
fill the queue differently: the one never replaces its row, the other
does. One restart puts a crash, or each phase of a shutdown, at every step; the
second interrupts the run that the first one put back. A retry puts a row back that
its own task holds, next to the replays, which put back a row that is over.
`FewInterruptions` of `MCAgentQueue` lets replays, triages and restarts happen twice
in all, and once when the event of no issue is there: what that event adds is the
wait for a slot of another key, which one interruption meets at every step. The bound
cuts webhooks, replays, triages, shutdowns and crashes only, none of which anybody
promises, so that no fair step is lost and `QueuedSettles` means in this run what it
says.

For the parts:

| part | bounds in `Parts.cfg` | why these |
|---|---|---|
| content | 2 files, 6 diffs, 5 replies, batches of 3 bytes, 2 findings kept, 3 heads, 1 repair | files that share a batch, need two, or fit in none; a patch with `++` and one with a line cut in two; findings that collide, conflict in rank and exceed the limit; a finding that is reported, moves, goes and comes back needs 3 heads |
| autoclose | 2 questions, answered twice and once | a newer answer replaces a watched one while the tick holds it; two rows in one batch |
| index | 3 issues of any times, pages of 1, 2 pages a tick, overlap 1, 1 second passes, 2 updates, 2 ticks | the budget ends a tick; an update shifts pages already read; a later tick starts from that watermark; two updates shift one tick twice; issues, updates and the start of a tick share a second, also across a page boundary and at the watermark |
| intake | 8 events of every kind of route, caps 1 and 2, window 1, 3 moments | one author in two tiers, a repeated delivery, submissions that leave the window |
| work | 2 branches, 1 foreign commit, 1 pull request, 2 tasks | both tasks at once; a push by somebody else before, between and after each fetch and push; a reopened issue |
| release | 2 tags, 2 commits, 2 rounds | another release takes over; a round moves the tag; a person moves it first |
| review | 2 remarks, 3 tasks | one remark anchors and the other does not, a task dies at every call and the next one continues |
| natives | 2 keys, 2 workspaces, 2 variants, 2 builds, 1 entry kept, 3 tasks; the workspaces are interchangeable | one workspace builds in place while the other is given the entry; an eviction, or what a crash left of it, between two files of a populate; an entry accepted with one of its two node files |

The theorems below remove the bounds for the safety properties named there. The
bounds are `MaxMoves` (changes by authors), `MaxRestarts`, `MaxFaults`,
`MaxReplays` (commands of operators), and in the parts `MaxHeads`, `MaxAnswers`,
`MaxSeconds`, `MaxUpdates`, `MaxSyncs`, `MaxTime`, `MaxStarts`, `MaxPulls`,
`MaxShas`, `MaxReviewTasks`, `MaxBuilds` and `MaxCacheTasks`; `MaxRetries`, `MaxBytes`, `FindingLimit`,
`FormatRetries`, `PageSize`, `MaxPages`, `Overlap`, `Window`, `MaxRounds` and
`MaxEntries` are settings or constants of the code.

**The properties.**
- `OneWorkerPerPull`, `ClaimIsKept`: the claim is a lock, though every UPDATE that
  ends it names the row only and not the state it expects.
- `NoLeakedClaim`: while the pool runs, a running row has a task.
- `ReviewedOnce`, `ReviewIsPublished`: a commit has one comment and at most one
  check run, and `has_review` is right, over lost answers, crashes, cancelled
  tasks, replays and manual reviews. When the store may raise, the second still holds
  and the first does not (see *Observations*).
- `AttemptsBounded`: a life of the process adds one attempt at most.
- `SettledStays`: a settled row is only revived as the refresh of a head that has
  no review.
- `QueuedSettles`, `HeadReviewed`: what is queued ends, and the newest head is
  reviewed, or the pull request moved or closed, or its event failed.
- `FewStranded`, `FaultIsIsolated`: what a store error costs.
- `WorkspaceIsOwn`: tasks and threads of one issue are never alive together, a
  task that deletes caches after its row was settled included, and a row that
  may start finds its issue at rest.
- `SlotIsOwn`: a slot has one holder, a thread runs under a slot of its task, and
  none is lost. It is stated up to the moment when `stop()` interrupts tasks. After
  that it is false and the code does not claim it: `run_task` awaits a bare
  `asyncio.to_thread`, so a cancelled task gives its slot back under a living
  thread (workspace operations are shielded from this, tasks.py:31-43).
- `KeepsPromise` (of `AgentQueue`): rows, tasks, threads and marks agree with one
  account of who works where. Nobody starts where another run still has a task, a
  thread or a deletion; a row goes back to the queue by its own run or because its
  issue is occupied; and what an operator cancelled is not done, put back or
  abandoned while the service is open.
- `RowIsHeld`: a row stays running until its own task ends the run, and no row is
  running without a task while the server is up.
- `MarksDie`, `CancelIsFinal`: a cancellation reaches the run it was meant for and
  no later one, and that run ends failed. Marks live in memory: a restart forgets
  them and the run starts again, which `CancelIsFinal` allows.
- `ShutdownKeepsWork`: a run that `stop()` interrupts is finished or left for the
  next start; it is never failed and costs no retry.
- `QueuedSettles` (of `AgentQueue`): what is queued ends, over rows that are
  claimed and put back, retries and restarts.
- `BatchesFaithful`: the batches hold exactly the files with a patch that fit in one,
  each once and in the order of the list, and the others are reported as omitted;
  a batch has the size of its files, within the limit, and was closed only because
  the next file did not fit.
- `OnlyAnchored`: what is published stands on a line that the head under review
  adds, although files and head are fetched by different requests. The exception it
  names is real, and has two causes: `parse_changed_lines` passes over an added line
  that begins with `++`, so that the numbers after it are one too low; and
  `str.splitlines()` (diff.py:138) cuts a line at a form feed, a lone carriage return
  or one of a few other characters, and takes the rest for a line of the file, so that
  the numbers after it are one too high. A patch with neither is numbered rightly.
- `MergeKeepsWorst`: merging batches never improves a verdict, and the cut keeps the
  most severe findings.
- `OpenFindingsAreCurrent`: a finding is open exactly when the last review that
  covered its file reported it, over adoptions, retries and files that come and go;
  and whatever such a review reported is in the ledger.
- `CancelledStaysOpen`: the scheduler never works on an answer whose closure was
  cancelled, whatever it requeues and finalizes around a reply, and a claimed row is one
  that the tick works on or that a dead tick left. It is about answers and not about
  issues: while the tick works on an older answer the row may be scheduled for a newer
  one, and cancelled, and the issue is closed all the same. The docstring excludes that,
  and finding 5 shows it.
- `WatermarkIsHonest`: of what GitHub updated before the second of the watermark the
  index was told everything, but for the issues that a page shift hides from the
  sync; `overtaken` has exactly the updates so hidden. The source knows no such
  exception (finding 6). Updates of the watermark's own second may come after the
  page that set it; the overlap lists them again.
- `WithinCap`: no author has more than the cap in any window, by any order of
  deliveries, and what is queued for an author is counted once.
- `PublishedIsAuthorized`: nothing of an issue is on GitHub without a classification or a
  directive that allows it, although the check reads a row that several tools
  and both tasks write.
- `LeaseProtects`: a push drops no commit of somebody else that the pool clone
  had not fetched, for whichever issue. The docstring promises more, that it drops nothing
  the workspace had not fetched itself (finding 7).
- `OneRoundPerFailure`: the rounds of a release are the commits that failed.
- `StagedIsNotLost`: a staged remark is staged or readable on the pull request.
- `EntryKeepsContents`: a file of an entry is the one it was captured with, whatever
  the workspaces it was linked to and copied to do with theirs; and a file is missing
  only from an entry whose eviction is under way, or was when the process died. It does
  not say that `lookup` refuses such an entry: it does not (see *Observations*).

**Fairness.** Each task moves on, since every call to GitHub and the model has a
timeout and SQLite waits 30 seconds at most; the pool claims when it can, since
it polls at least once a second; threads end; the drain timeout fires; the
supervisor restarts the process (`restart: unless-stopped` in `docker-compose.yml`).
All of that is weak fairness. In `AgentQueue` the tasks, the threads, the
dispatcher and `stop()` move on weakly: a lost wakeup costs the dispatcher ten
seconds, an agent ends at its hard timeout at the latest, the steps of `stop()`
have timeouts. `Release` is strongly fair: the dispatcher takes `_inflight_lock`
again and again, and `asyncio.Lock` serves those who wait in turn. Nothing is
assumed about authors, webhooks, operators, stops or crashes. Fairness of `Claim` is for the pool and not for
each event: with finitely many events and moves no event starves, though the
order in which they are claimed is left open.

**Deadlock.** Every run checks it, and it says little here: a webhook that is
delivered again is a step of a running process that changes nothing, and
a process that is stopped or down always has its exit or its boot. What must
not stop is stated by the liveness properties.

## Findings

1. `stale_conclusion`: the README promises that only the newest commit's
   conclusion is published. The heads are compared before the comment is rendered
   and sent; a push in between leaves a conclusion for the old head, and that
   event enqueues no refresh. A pull request closed or made a draft in the same
   window gets a comment too.
2. `pool_death`: an exception of `claim_next` (worker.py:32) ends the pool. The
   app keeps answering ready and accepting webhooks that nobody works on.
3. `agent_cancel`: the docstring of `cancel_event` (queue.py:260) promises that a
   hook armed late observes the request. `_arm_cancel` looks for the mark and
   installs the hook in two steps on its own thread, without a lock. A
   cancellation in between finds no hook to call, and the hook installed after it
   is not called: the agent works on to its end, though its run is recorded as failed.
4. `review_skip`: `review_pr` skips a pull request as already submitted (tasks.py:586)
   when it finds a `submit_pr_review` record without an error. The tool writes such
   a record (host_tools.py:2242) when some of its remarks do not anchor to the diff,
   before it asks GitHub for the review. A task that dies in between is never
   retried: there is no review, and its remarks stay staged.
5. `autoclose_race`: the docstring of the scheduler (autoclose.py:12-14) says that the
   cancelling hook and the scheduler never race on one row. A row that a tick has claimed
   goes back to pending when the bot answers again; a reply cancels it; and the
   tick, which looks at neither, closes the issue and overwrites the row with `closed`
   (db.py:1303).
6. `index_shift`: sync_repo says that everything up to the start of the tick is ingested
   (issue_index.py:232), and that a racing update is never permanently skipped (37-38). An
   update between two pages moves an issue that was read to the end of the listing,
   the next page begins one issue too late, and the watermark passes the issue in
   between. The overlap lists again only what is two minutes older than the
   watermark, so in a backfill the issue stays out until somebody updates it.
7. `lease_shared`: the docstring of `push` (git_ops.py:782-793) says that the lease is
   what the workspace last fetched, so that a push never drops work the bot did not
   see. The lease is the origin ref of the pool clone, which the tasks of all issues of
   the repository refresh: a commit that came with the fetch of another issue is not
   protected by it.

## Observations

Behaviour that the models show or take into account and that no run is about. The first two
contradict lines of the repository, as the findings do:

- A comment in `stop()` (queue.py:137) says that a task without a hook is cancelled so
  that it cannot start omp after `stop()` has returned. Cancelling the task does not end
  its thread: one that still prepares its run (`th[d] = "prep"` with the task gone)
  takes `Spawn` after `loop` is stopped, under a slot that is free again.
- `get_event` (worker.py:62) is inside the `try` of `process`. When it raises,
  `mark_failed` overwrites a row the task no longer holds. If that row was revived as a
  refresh and claimed meanwhile, a third event of the same pull request is
  claimed next to it, which a test excludes (tests/test_worker_pool.py:125). Only
  the claim keeps two tasks from both listing the comments before either posts: in
  `ReviewFaults` both may post one, though README.md:143 promises that a commit is never
  given the same review twice. With one fault, two slots and three moves of the head
  `ReviewedOnce` is false.

The others contradict nothing that the repository says:

- Reopening an issue removes its worktree and not its local branch, and
  `make_branch` yields the same name: the second life starts from the old branch.
  `upsert_issue` keeps the old pull request, which authorizes the next one.
- Events of a pull request that no row knows yet have a key of their own and run next
  to the task of the issue, in the same workspace.
- Between `open_pull_request` and `set_issue_pr` a crash leaves a pull request that no
  row knows, until an event of that pull request repairs the row.
- A late event of an older tag supersedes the newer active release. A person who moves
  the tag between the lookup of `release_retag` and its forced push loses that move.
- `_sync_findings` keeps findings of files that are omitted or no longer changed
  open. In deep mode the model sees the first batch only and the review counts as one
  of all batches, so that findings of later batches are resolved.
- A reply is ignored while the scheduler holds the row, or between the bot's
  comment and the row it schedules; rows claimed by a tick that died stay claimed
  until the bot answers again.
- A delayed webhook overwrites a newer version in the index.
- A commit without a build lets `capture` store the old node file under
  the new key. What is left of an interrupted eviction keeps its key from being
  captured until a collection removes it.
- An entry that is being evicted, or was when the process died, may still be accepted
  with some of its node files gone: `lookup` asks for any one of them
  (natives_cache.py:283-284), and a workspace is then given a build without the others.

## Proofs

For every number of slots, deliveries, pull requests and commits, and every
value of the bounds, from `StoreAssumption` and `BotAssumption` (the constants
have their types, a refresh id and a replay id belong to their pull request,
`None` is neither a delivery nor a commit):

| theorem | property |
|---|---|
| `TypeCorrect` | `TypeOK` |
| `ClaimIsALock` | `OneWorkerPerPull` |
| `RowStaysClaimed` | `ClaimIsKept` |
| `NoClaimLeaks` | `NoLeakedClaim` |
| `CommentedOnce` | `ReviewedOnce` |
| `RecordedIsPublished` | `ReviewIsPublished` |
| `RetriesAreBounded` | `AttemptsBounded` |
| `ImplementsPromise` | `KeepsPromise` |
| `SettledEventsStay` | `SettledStays` |

None of these properties is inductive by itself. `ReviewBotProofs` strengthens
them in five layers, each preserved under those before it; TLC checked each layer
as an invariant before its proof was begun.

- `Typed`: TypeOK, and a task past its claim has an event and past its first look
  at GitHub a head.
- `Claims`: one running row per pull request, one task per running row, and
  `QuietAfterCancel`: orphans exist only after the drain timed out, when every
  task is idle or cancelled. That last part is why an orphan never hits the row
  of a working task: no task holds a claim while an orphan lives.
- `Abandoned` is the set of events that are running in a process that is not going
  down, and that no task works on. No step adds to it, and the next start empties
  it; `NoLeakedClaim` says that it is empty while the pool is up.
- `Published`: what each place in a task knows of the comments of its head. A task
  between the listing and the post knows there is none; the claim lock keeps any
  other task of the pull request from posting one. After the post it knows there
  is exactly one. An orphan that records a review knows its comment exists.
- `Budgeted`: a queued row has attempts left for the lives so far, the one that is
  ending counted as spoiled already.

Each layer has one lemma per group of actions (environment, task, claim,
process); what the transactions of the store do is stated once, in
`TransactEffect` and its companions. `ReviewPromiseProofs` adds that the
event of an orphan is not settled yet and that no two orphans belong to one
pull request, and shows that every step of ReviewBot is a step of ReviewPromise or changes neither of its variables.

When calls of the store may raise, the claim is no lock and two tasks may review one
commit (see *Observations*). What remains is proved in `ReviewFaultsProofs`, with
`FaultAssumption`, for every number of faults:

| theorem | property | because |
|---|---|---|
| `RecordedUnderFaults` | `ReviewIsPublished` | `Recorded`: each task that has passed its post, and each orphan that records a review, has its comment; the claim is not needed for it |
| `FaultsStrandFew` | `FewStranded` | `FewAbandoned`: there are at most as many abandoned events as faults, while the process is up or drains. `ReportFails` and `ProcessFails` abandon none, `HandlerFails` one |

For every number of deliveries, issues and slots and every value of the bounds,
from `EventsAssumption` and `QueueAssumption` (the constants have their types,
`None` is neither a delivery nor a slot, and the key of an issue is no delivery id):

| theorem | property |
|---|---|
| `AgentTypeCorrect` | `TypeOK` |
| `OneRunPerIssue` | `WorkspaceIsOwn` |
| `OneHolderPerSlot` | `SlotIsOwn` |
| `NoRowIsLost` | `RowIsHeld` |
| `NoLateCancellation` | `MarksDie` |
| `CancelledRunsFail` | `CancelIsFinal` |
| `ShutdownFailsNothing` | `ShutdownKeepsWork` |
| `ImplementsAgentPromise` | `KeepsPromise` |

The invariant of `AgentQueueProofs` has four layers above the types:

- `Phased`: what may be alive in each phase of a shutdown. Until tasks are
  interrupted every thread has a task that waits for it; after that, every task
  in its run is interrupted or about to be. A cancelled task gives up its key and
  its thread does not, so the exclusion of an issue rests on the fact that nothing is
  dispatched any more in these phases.
- `Exclusive`: the keys in flight cover the live tasks, one per key. The rows do
  not give this, because a row is settled before its task is over and may be
  replayed meanwhile.
- `Held`: a running row has a task in its run or is in the dispatcher's hand. This
  is what makes the `finally` clause remove the mark of its own run only: nobody
  else can bring the row back before.
- `Slotted`: each slot is free or held once, and a task holds one exactly from
  `AcquireSlot` to its `finally`.

The refinement needs one fact more, `KeysLive`: until `stop()` interrupts tasks, a key
in flight is the key of a live task. `Exclusive` says the converse, which is what the
exclusion rests on; without `KeysLive` a key left behind would put back the rows of its
issue for ever, with nobody at the workspace. Each group of actions (rows, dispatcher,
tasks, cancellation, process) has a lemma that maps it to steps of AgentPromise.

For every set of contents and replies, every limit and every number of heads, from
`ContentAssumption` and the assumptions of `DiffBatches` and `ReviewMerge`:

| theorem | property |
|---|---|
| `ContentTypes` | `ContentTypeOK` |
| `BatchesAreFaithful` | `BatchesFaithful` |
| `FindingsAreAnchored` | `OnlyAnchored` |
| `MergeIsFaithful` | `MergeKeepsWorst` |
| `LedgerIsCurrent` | `OpenFindingsAreCurrent` |

The inductive invariant is `CInv`. `SameFiles` compares two requests: while the head
is still the one the review began with, the files listed later are its files, and
what is past the second look at GitHub is therefore about the listed files.
`GoodAnswers` keeps of every answer that it is normalized, and of the result that it
is the merge of the answers; with it what is reported belongs to files that a batch has
shown, which the ledger needs. `LedgerIsPast`: no row of the ledger is of a later head
than the review at hand, so that no row is written back in time.
`OpenFindingsAreCurrent` is inductive with these.

What the loops compute for every input is in `ContentLemmas`. The library's
theorems of induction take an operator, which the provers cannot instantiate;
`Induction` takes a set of numbers instead, from the well-foundedness of `<`, and a
proof by induction names the set of the `n` for which its claim holds. `FoldExists`
gives a recursive function over the rounds of a loop its equations. With them:

- `ParserIsFaithful`: the numbers of `parse_changed_lines` are those of lines that are
  added, for a patch without added lines that begin with `++` and without lines that
  `str.splitlines()` cuts;
- `PlanFacts`: the plan after each round is `Faithful` for the files so far, that is
  what `BatchesFaithful` says with the batch that is still open;
- `MergeFacts`, `SortFacts`: the merged verdict is as severe as the worst one; of the findings
  with one key the most severe is kept and none is invented; the sort only orders them, so
  that the cut drops the mildest.

For the parts, for every value of their constants, from the one assumption that each
module states on them (that of `AgentWork` is needed for its types only):

| theorem | property | inductive invariant |
|---|---|---|
| `IntakeTypes`, `CapIsKept` | `IntakeTypeOK`, `WithinCap` | `IntakeInv` |
| `IndexTypes`, `HonestWatermark` | `IndexTypeOK`, `WatermarkIsHonest` | `IndexInv` |
| `ReviewTypes`, `NoRemarkLost` | `ReviewTypeOK`, `StagedIsNotLost` | `StageInv` |
| `ReleaseTypes`, `RoundsAreFailures` | `ReleaseTypeOK`, `OneRoundPerFailure` | `ReleaseInv` |
| `NativesTypes`, `EntriesKeepContents` | `NativesTypeOK`, `EntryKeepsContents` | `EntryInv` |
| `ClosureTypes`, `CancelledClosuresStayOpen` | `AutocloseTypeOK`, `CancelledStaysOpen` | `ClosureInv` |
| `WorkTypes`, `PublishingIsAuthorized` | `WorkTypeOK`, `PublishedIsAuthorized` | `AuthInv` |
| `LeaseIsHonored` | `LeaseProtects` | `Seen` |

- `IntakeInv` is little more than the types and `WithinCap`; the work is in
  `AdmittedWithinCap`: the window that ends with the new submission is the one the admission
  counted, and one more. Windows are sets of places of the table, since two rows may be
  equal but for their place. `RoutedFor` says that a delivery repeated later is counted for the
  same author, whatever the pull requests of the bot are by then.
- `IndexInv` is about a listing that shifts while it is read. `Known` is what the index was
  told of, what a shift hides, and the page that has arrived. `PagesAreRead`: what stands at a
  place already read is known. `OlderIsKnown` and `ShortPageIsLast` turn places into
  times, of which the watermark is one: what is older than an entry that was read stands before
  it, and behind a page that is not full nothing older than the tick is left. That a page is
  full is a count. `PlaceFacts` makes it a matter of places: no two issues have one rank
  (`Ranked`), so the places are `1 .. Cardinality(Listed)`, one for each issue. `Ranked`
  also says that the ranks follow the times, which is what turns a place into a second.
  Since issues may share a second, what stands behind a page is no older than the last
  entry of the page and perhaps no younger either, so the watermark is honest up to its own
  second and no further. `SyncLocals` says that a tick reads from the watermark or
  before it.
- `StageInv` says what a submission in progress knows of the stage: until its review
  is accepted or degraded the stage is exactly what it listed, because the tools
  of an agent run one at a time; while comments are posted, each staged remark is posted
  or still listed; and the stage is cleared only when all of it is readable.
- `ReleaseInv` has `OneRelease` (a task works for a release next to which no other is
  active) and `Fresh`: a tag on a commit that has failed before has its round under way
  or is over. It holds because tags move to fresh commits only, so the row may
  return to `awaiting_ci` only for a commit that has not failed. Without it a
  second event of a failed commit could open a second round.
- `EntryInv` has `OwnInodes`: no workspace shares the inode of a companion, so the
  build, which writes companions in place, writes to its workspace only. With
  it `EntryKeepsContents` is inductive, over deletions file by file: a file goes only
  from the entry that is being evicted, and the crash that ends the eviction makes it torn.
  The types add `Collected`: no entry is dated after the captures there were.
- `ClosureInv` has `AnswersNumbered`: answers are scheduled once, in a row that has not had them
  before, so a row that is pending or claimed is for an answer that was not spared.
- `AuthInv` has `Backed`: whatever lets a tool publish later (the row's pull request, its
  class, a task past the check, a task with a directive) has an authorization behind it
  already. The class of the row is the first one, as it is written once. The types add
  `RefsTyped`: a ref names one commit or does not exist.
- `Seen`: what the pool clone's refs contain of other people's work has been
  fetched for some issue. With the lease it gives `LeaseProtects` for a push, and people only add commits
  or delete branches.

In the modules with proofs an EXCEPT updates one place; several fields of a record
change by a second EXCEPT inside it. tlapm 1.4.5 translates
`[f EXCEPT ![t].a = .., ![t].b = ..]`, and two updates whose places may
coincide, to formulas that contradict each other, and a proof that uses them is worth
nothing.

Model-checked only:

- `PartsTypeOK` as one formula over all parts; each of its conjuncts is a theorem about its part;
- `FaultIsIsolated` and the other liveness properties, since TLAPS handles neither weak fairness
  over these actions nor ENABLED.

## Not modelled

- A create request that reaches GitHub after the client gave up *and* after a
  later attempt listed the comments. A request is served before its failure is
  seen here; the code has no means to see the other case.
- Inline comments of reviewbot, metrics, and audit rows but for the one
  `review_pr` reads; the text of anything.
- A restart that finds the database restored from a backup, two processes on
  one database.
- Signatures, filters and the parsing of webhooks; they decide which deliveries
  are in `Hooks`. Whether a later `process` ignores an event is `Ignored`.
- Forwarding of interaction events to robomp, which keeps no state in reviewbot.
- In robomp's queue: exceptions of the store in the dispatch loop, the plain
  semaphore that replaces the slots when the process is not root.
- The browse cache of the dashboard: its entries live for a minute and are
  refreshed on demand. A fetch that a webhook overtakes stores the older answer.
- The reminders and completion gates within one turn of an agent, and prompts: they
  decide when a turn ends and not what its tools may do. `_can_handle_pr_directly`, the
  exception for a pull request of the bot that belongs to no row.
- Git as subprocesses, uids and credentials, dependency installs: the file system
  below the refs and the natives.
- The proxy, the clients, settings, the command line and the dashboard: they keep no
  state of their own.

## Plan

What a next step would take up:

1. The retries of robomp's queue that are spent on rows that were claimed and put back.
2. One model of `AgentQueue` with `AgentWork`, for the key of a pull request
   that changes while its events are queued.
3. Liveness of the parts: a due closure is settled, a failed release ends, unless
   people or GitHub keep them.
4. The browse cache, and `_can_handle_pr_directly` in `AgentWork`.
