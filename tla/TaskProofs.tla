----------------------------- MODULE TaskProofs ------------------------------
(***************************************************************************)
(* Proofs about the parts of robomp that a task works with:                *)
(*  - PullReview, for any set of remarks: its types, and that no staged    *)
(*    remark is lost;                                                      *)
(*  - NativesCache, for any keys, workspaces, variants and cap: its types, *)
(*    and that an entry holds what was captured until it is evicted;       *)
(*  - AgentWork, for any commits of other people and any number of tasks   *)
(*    and pull requests: its types, that what is published was authorized, *)
(*    and that a push loses no work the pool clone has not fetched;        *)
(*  - ReleaseTrain, for any tags, commits and number of rounds: its types, *)
(*    with at most one active release, and that a failing commit costs one *)
(*    round.                                                               *)
(***************************************************************************)
EXTENDS PullReview, NativesCache, AgentWork, ReleaseTrain, FiniteSetTheorems, TLAPS

-----------------------------------------------------------------------------
(* PullReview.                                                             *)

\* ReviewTypeOK in two parts: the provers treat Booleans apart.
Flags == submitCall \in BOOLEAN /\ summarized \in BOOLEAN /\ skipped \in BOOLEAN

Remarked ==
    /\ everStaged \subseteq Remarks
    /\ staged \subseteq everStaged
    /\ onPull \subseteq everStaged
    /\ anchored \subseteq Remarks
    /\ reviewer \in [phase : {"idle", "agent", "listed", "submit", "fallback", "notes", "clear"},
                     listed : SUBSET Remarks, dropped : SUBSET Remarks]
    /\ reviewTasks \in 0 .. MaxReviewTasks

\* What a submission in progress knows of the stage.  The tools of an agent
\* run one at a time, so until the review is accepted or its fallback has
\* begun the stage is exactly what was listed; while the fallback posts,
\* every staged remark is posted or still to be posted; and the stage is
\* cleared only when all of it is readable.
Submission ==
    /\ reviewer.phase \in {"listed", "submit", "fallback"} =>
           reviewer.listed = staged /\ reviewer.dropped \subseteq reviewer.listed
    /\ reviewer.phase = "notes" =>
           staged \subseteq reviewer.listed \union onPull /\ reviewer.listed \subseteq everStaged
    /\ reviewer.phase = "clear" => staged \subseteq onPull

StageInv == Remarked /\ Submission /\ StagedIsNotLost

-----------------------------------------------------------------------------
USE DEF reviewVars, platform

\* The initial state has nothing staged and no submission.
LEMMA InitStage == ReviewInit => StageInv /\ Flags
<1> SUFFICES ASSUME ReviewInit
             PROVE  StageInv /\ Flags
  OBVIOUS
<1>1. reviewer \in [phase : {"idle", "agent", "listed", "submit", "fallback", "notes", "clear"},
                    listed : SUBSET Remarks, dropped : SUBSET Remarks]
  BY DEF ReviewInit, Resting
<1>2. reviewTasks \in 0 .. MaxReviewTasks BY ReviewAssumption DEF ReviewInit
<1>3. /\ everStaged \subseteq Remarks /\ staged \subseteq everStaged
      /\ onPull \subseteq everStaged /\ anchored \subseteq Remarks
  BY DEF ReviewInit
<1>4. Remarked BY Zenon, <1>1, <1>2, <1>3 DEF Remarked
<1>5. reviewer.phase = "idle" BY DEF ReviewInit, Resting
<1>6. Submission /\ StagedIsNotLost BY <1>5 DEF ReviewInit, Submission, StagedIsNotLost
<1>7. Flags BY Zenon DEF ReviewInit, Flags
<1> QED BY <1>4, <1>6, <1>7 DEF StageInv

\* Every step keeps the flags Boolean.
LEMMA StepFlags ==
    ASSUME Flags, [ReviewNext]_reviewVars
    PROVE  Flags'
<1> USE DEF Flags
<1>1. CASE ReviewPr BY Zenon, <1>1 DEF ReviewPr
<1>2. CASE ReviewTaskEnds BY Zenon, <1>2 DEF ReviewTaskEnds
<1>3. ASSUME NEW lines \in SUBSET Remarks, HeadMoves(lines)
      PROVE  Flags'
  BY Zenon, <1>3 DEF HeadMoves
<1>4. ASSUME NEW r \in Remarks, StageComment(r)
      PROVE  Flags'
  BY Zenon, <1>4 DEF StageComment
<1>5. ASSUME NEW r \in Remarks, PostNote(r)
      PROVE  Flags'
  BY Zenon, <1>5 DEF PostNote
<1>6. CASE SubmitPrReview BY Zenon, <1>6 DEF SubmitPrReview
<1>7. ASSUME NEW f \in BOOLEAN, FilterComments(f)
      PROVE  Flags'
  BY Zenon, <1>7 DEF FilterComments
<1>8. ASSUME NEW f \in BOOLEAN, ReviewRejected(f)
      PROVE  Flags'
  BY Zenon, <1>8 DEF ReviewRejected
<1>9. CASE ReviewAccepted BY Zenon, <1>9 DEF ReviewAccepted
<1>10. CASE PostSummary BY Zenon, <1>10 DEF PostSummary
<1>11. CASE NotesPosted BY Zenon, <1>11 DEF NotesPosted
<1>12. CASE FallbackFails BY Zenon, <1>12 DEF FallbackFails
<1>13. CASE ClearStaged BY Zenon, <1>13 DEF ClearStaged
<1>14. CASE UNCHANGED reviewVars BY Zenon, <1>14
<1> QED
  BY <1>1, <1>2, <1>3, <1>4, <1>5, <1>6, <1>7, <1>8, <1>9,
     <1>10, <1>11, <1>12, <1>13, <1>14 DEF ReviewNext

\* No step of the task, of its tools or of the author breaks the invariant.
LEMMA StepStage ==
    ASSUME StageInv, [ReviewNext]_reviewVars
    PROVE  StageInv'
<1> USE ReviewAssumption
        DEF StageInv, Remarked, Submission, StagedIsNotLost, InPhase, Proceed, Resting
<1>1. CASE ReviewPr BY <1>1 DEF ReviewPr
<1>2. CASE ReviewTaskEnds BY <1>2 DEF ReviewTaskEnds
<1>3. ASSUME NEW lines \in SUBSET Remarks, HeadMoves(lines)
      PROVE  StageInv'
  BY <1>3 DEF HeadMoves
<1>4. ASSUME NEW r \in Remarks, StageComment(r)
      PROVE  StageInv'
  BY <1>4 DEF StageComment
<1>5. ASSUME NEW r \in Remarks, PostNote(r)
      PROVE  StageInv'
  BY <1>5 DEF PostNote
<1>6. CASE SubmitPrReview BY <1>6 DEF SubmitPrReview
<1>7. ASSUME NEW f \in BOOLEAN, FilterComments(f)
      PROVE  StageInv'
  BY <1>7 DEF FilterComments
<1>8. ASSUME NEW f \in BOOLEAN, ReviewRejected(f)
      PROVE  StageInv'
  BY <1>8 DEF ReviewRejected
<1>9. CASE ReviewAccepted BY <1>9 DEF ReviewAccepted, Shown
<1>10. CASE PostSummary BY <1>10 DEF PostSummary
<1>11. CASE NotesPosted BY <1>11 DEF NotesPosted
<1>12. CASE FallbackFails BY <1>12 DEF FallbackFails
<1>13. CASE ClearStaged BY <1>13 DEF ClearStaged
<1>14. CASE UNCHANGED reviewVars BY <1>14
<1> QED
  BY <1>1, <1>2, <1>3, <1>4, <1>5, <1>6, <1>7, <1>8, <1>9,
     <1>10, <1>11, <1>12, <1>13, <1>14 DEF ReviewNext

\* The invariant holds in every state.
LEMMA StageInvariance == ReviewSpec => [](StageInv /\ Flags)
<1>1. ReviewInit => StageInv /\ Flags BY InitStage
<1>2. StageInv /\ Flags /\ [ReviewNext]_reviewVars => StageInv' /\ Flags'
  BY StepStage, StepFlags
<1> QED BY <1>1, <1>2, PTL DEF ReviewSpec

\* The variables of the model stay in their types.
THEOREM ReviewTypes == ReviewSpec => []ReviewTypeOK
<1>1. StageInv /\ Flags => ReviewTypeOK
  BY Zenon DEF StageInv, Remarked, Flags, ReviewTypeOK
<1> QED BY <1>1, StageInvariance, PTL

\* A remark the agent staged is on the pull request or still staged, in every
\* state: no rejection, fallback, moved head or dead task loses one.
THEOREM NoRemarkLost == ReviewSpec => []StagedIsNotLost
<1>1. StageInv => StagedIsNotLost BY DEF StageInv
<1> QED BY <1>1, StageInvariance, PTL

-----------------------------------------------------------------------------
(* NativesCache.                                                           *)

\* No workspace ever shares the inode of a companion, so a native build,
\* which writes the companions in place, writes to its workspace alone.
OwnInodes ==
    /\ native \in [Workspaces -> Files]
    /\ shares \in [Workspaces -> {None}]
    /\ source \in [Workspaces -> Keys]

Entry == [at : Nat, files : Files]

EntryInv ==
    /\ OwnInodes
    /\ entry \in [Keys -> Entry]
    /\ capturedAs \in [Keys -> Files]
    /\ captures \in Nat
    /\ EntryKeepsContents

\* The steps that do not touch the entries, what they were captured with, or
\* which of them is evicted.
Elsewhere == UNCHANGED <<entry, capturedAs, captures, torn, evicting>>

-----------------------------------------------------------------------------
USE DEF cacheVars, Cached

\* No entry, and no file.
LEMMA InitEntries == CacheInit => EntryInv
<1> SUFFICES ASSUME CacheInit
             PROVE  EntryInv
  OBVIOUS
<1>1. source \in [Workspaces -> Keys] BY CacheAssumption DEF CacheInit
<1>2. NoFiles \in Files BY DEF NoFiles, Files, FileContents
<1>3. entry \in [Keys -> Entry] /\ \A k \in Keys : entry[k].files = NoFiles
  BY <1>2 DEF CacheInit, NoEntry, NoManifest, Entry
<1>4. \A f \in Names : NoFiles[f] = None BY DEF NoFiles
<1> QED BY <1>1, <1>2, <1>3, <1>4 DEF CacheInit, EntryInv, OwnInodes, EntryKeepsContents

\* A step elsewhere leaves each entry as it was.
LEMMA ElsewhereKeeps ==
    ASSUME EntryInv, Elsewhere, OwnInodes'
    PROVE  EntryInv'
BY DEF EntryInv, Elsewhere, EntryKeepsContents

\* A file put in a workspace is one file of it.
LEMMA OneFile ==
    ASSUME OwnInodes, NEW w \in Workspaces, NEW f \in Names, NEW c \in FileContents,
           native' = [native EXCEPT ![w] = [@ EXCEPT ![f] = c]]
    PROVE  native' \in [Workspaces -> Files]
<1>1. [native[w] EXCEPT ![f] = c] \in Files BY DEF OwnInodes, Files
<1> QED BY <1>1 DEF OwnInodes

\* Only a capture and an eviction touch an entry.
LEMMA StepEntries ==
    ASSUME EntryInv, [CacheNext]_cacheVars
    PROVE  EntryInv'
<1> USE DEF EntryInv, OwnInodes
<1>1. ASSUME NEW w \in Workspaces,
             \/ StartCacheTask(w) \/ LookUpEntry(w) \/ ListNodes(w)
             \/ \E f \in Names : PopulateFails(w, f)
             \/ \E phase \in {"capture", "none"} : CacheTaskEnds(w, phase)
             \/ Capture(w)
      PROVE  EntryInv'
  <2>1. Elsewhere /\ UNCHANGED <<source, native, shares>>
    BY <1>1 DEF StartCacheTask, LookUpEntry, ListNodes, PopulateFails, CacheTaskEnds, Capture,
                Elsewhere
  <2> QED BY <2>1, ElsewhereKeeps
<1>2. ASSUME NEW w \in Workspaces, NEW f \in Names, PopulateFile(w, f)
      PROVE  EntryInv'
  <2>1. Elsewhere /\ UNCHANGED source BY <1>2 DEF PopulateFile, Elsewhere
  <2>2. shares' = shares \/ shares' = [shares EXCEPT ![w] = None]
    BY Zenon, <1>2 DEF PopulateFile, Copied
  <2>3. entry[source[w]].files[f] \in FileContents BY DEF Entry, Files
  <2>4. native' \in [Workspaces -> Files] BY <1>2, <2>3, OneFile DEF PopulateFile
  <2> QED BY <2>1, <2>2, <2>4, ElsewhereKeeps
<1>3. ASSUME NEW w \in Workspaces, NEW k \in Keys, CommitSources(w, k)
      PROVE  EntryInv'
  <2>1. Elsewhere /\ OwnInodes' BY <1>3 DEF CommitSources, Elsewhere
  <2> QED BY <2>1, ElsewhereKeeps
<1>4. ASSUME NEW w \in Workspaces, NEW v \in Variants, InstallBinary(w, v)
      PROVE  EntryInv'
  <2>1. Elsewhere /\ UNCHANGED <<source, shares>> BY <1>4 DEF InstallBinary, Elsewhere
  <2>2. v \in Names /\ source[w] \in FileContents BY DEF Names, FileContents
  <2>3. native' \in [Workspaces -> Files] BY <1>4, <2>2, OneFile DEF InstallBinary, Built
  <2> QED BY <2>1, <2>3, ElsewhereKeeps
<1>5. ASSUME NEW w \in Workspaces, InstallBindings(w)
      PROVE  EntryInv'
  <2>1. shares[w] \notin Keys BY CacheAssumption
  <2>2. entry' = entry BY <1>5, <2>1 DEF InstallBindings
  <2>3. Elsewhere /\ UNCHANGED <<source, shares>> BY <1>5, <2>2 DEF InstallBindings, Elsewhere
  <2>4. "companions" \in Names /\ source[w] \in FileContents BY DEF Names, FileContents
  <2>5. native' \in [Workspaces -> Files] BY <1>5, <2>4, OneFile DEF InstallBindings, Built
  <2> QED BY <2>3, <2>5, ElsewhereKeeps
<1>6. ASSUME NEW w \in Workspaces, PublishEntry(w)
      PROVE  EntryInv'
  <2> DEFINE k == source[w]
  <2>1. UNCHANGED <<source, native, shares, evicting>> BY <1>6 DEF PublishEntry
  <2>2. CASE UNCHANGED <<entry, torn, captures, capturedAs>>
    BY <2>1, <2>2, ElsewhereKeeps DEF Elsewhere
  <2>3. CASE /\ entry' = [entry EXCEPT ![k] = [at |-> captures', files |-> native[w]]]
             /\ captures' = captures + 1
             /\ capturedAs' = [capturedAs EXCEPT ![k] = native[w]]
             /\ torn' = torn \ {k}
    <3>1. k \in Keys /\ native[w] \in Files OBVIOUS
    <3>2. /\ entry'[k].files = native[w] /\ capturedAs'[k] = native[w]
          /\ \A j \in Keys \ {k} : entry'[j] = entry[j] /\ capturedAs'[j] = capturedAs[j]
      BY <2>3, <3>1
    <3>3. captures' \in Nat BY <2>3
    <3>4. entry' \in [Keys -> Entry] /\ capturedAs' \in [Keys -> Files]
      BY <2>3, <3>1, <3>3 DEF Entry
    <3>5. EntryKeepsContents' BY <2>1, <2>3, <3>2 DEF EntryKeepsContents
    <3> QED BY <2>1, <3>3, <3>4, <3>5
  <2> QED BY <1>6, <2>2, <2>3 DEF PublishEntry
<1>7. ASSUME NEW k \in Keys, Collect(k)
      PROVE  EntryInv'
  <2>1. /\ evicting = None /\ evicting' = k
        /\ UNCHANGED <<source, native, shares, entry, torn, captures, capturedAs>>
    BY <1>7 DEF Collect
  <2>2. \A j \in Keys : j \notin torn' \cup {evicting'} => j \notin torn \cup {evicting}
    BY <2>1, CacheAssumption
  <2> QED BY <2>1, <2>2 DEF EntryKeepsContents
<1>8. ASSUME NEW k \in Keys, NEW f \in Names, DeleteFile(k, f)
      PROVE  EntryInv'
  <2> DEFINE left == [entry[k].files EXCEPT ![f] = None]
  <2>1. /\ evicting = k
        /\ entry' = [entry EXCEPT ![k] = [@ EXCEPT !.files = left]]
        /\ UNCHANGED <<source, native, shares, evicting, torn, captures, capturedAs>>
    BY <1>8 DEF DeleteFile
  <2>2. left \in Files
    <3>1. entry[k].files \in Files /\ None \in FileContents BY DEF Entry, FileContents
    <3> QED BY <3>1 DEF Files
  <2>3. \A g \in Names : left[g] \in {capturedAs[k][g], None}
    BY DEF EntryKeepsContents, Entry, Files
  <2> HIDE DEF left
  <2>4. /\ entry' \in [Keys -> Entry] /\ entry'[k].files = left
        /\ \A j \in Keys \ {k} : entry'[j] = entry[j]
    BY <2>1, <2>2 DEF Entry
  <2>5. EntryKeepsContents' BY <2>1, <2>3, <2>4 DEF EntryKeepsContents
  <2> QED BY <2>1, <2>4, <2>5
<1>9. ASSUME NEW k \in Keys, DeleteManifest(k)
      PROVE  EntryInv'
  <2>1. /\ entry' = [entry EXCEPT ![k] = [@ EXCEPT !.at = NoManifest]]
        /\ UNCHANGED <<source, native, shares, evicting, torn, captures, capturedAs>>
    BY <1>9 DEF DeleteManifest
  <2>2. /\ entry' \in [Keys -> Entry]
        /\ \A j \in Keys : entry'[j].files = entry[j].files
    BY <2>1 DEF Entry, NoManifest
  <2>3. EntryKeepsContents' BY <2>1, <2>2 DEF EntryKeepsContents
  <2> QED BY <2>1, <2>2, <2>3
<1>10. ASSUME NEW k \in Keys, FinishEviction(k)
       PROVE  EntryInv'
  <2>1. /\ evicting = k /\ evicting' = None /\ entry[k].files = NoFiles
        /\ torn' = torn \ {k}
        /\ capturedAs' = [capturedAs EXCEPT ![k] = NoFiles]
        /\ UNCHANGED <<source, native, shares, entry, captures>>
    BY <1>10 DEF FinishEviction, Present
  <2>2. NoFiles \in Files BY DEF NoFiles, Files, FileContents
  <2>3. /\ capturedAs' \in [Keys -> Files] /\ capturedAs'[k] = NoFiles
        /\ \A j \in Keys \ {k} : capturedAs'[j] = capturedAs[j]
    BY <2>1, <2>2
  <2>4. EntryKeepsContents' BY <2>1, <2>3 DEF EntryKeepsContents
  <2> QED BY <2>1, <2>3, <2>4
<1>11. ASSUME StartSweep \/ EndCollection
       PROVE  EntryInv'
  <2>1. Elsewhere /\ UNCHANGED <<source, native, shares>>
    BY <1>11 DEF StartSweep, EndCollection, Elsewhere
  <2> QED BY <2>1, ElsewhereKeeps
<1>12. CASE CacheCrash
  <2>1. /\ torn' = torn \cup ({evicting} \ {None}) /\ evicting' = None
        /\ UNCHANGED <<source, native, shares, entry, captures, capturedAs>>
    BY <1>12 DEF CacheCrash
  <2>2. \A k \in Keys : k \notin torn' \cup {evicting'} => k \notin torn \cup {evicting}
    BY <2>1, CacheAssumption
  <2> QED BY <2>1, <2>2 DEF EntryKeepsContents
<1>13. CASE UNCHANGED cacheVars BY <1>13, ElsewhereKeeps DEF Elsewhere
<1> QED
  BY <1>1, <1>2, <1>3, <1>4, <1>5, <1>6, <1>7, <1>8, <1>9, <1>10, <1>11, <1>12, <1>13
  DEF CacheNext

\* An entry holds what it was captured with, in every state: populate copies
\* the companions, whose inodes a build rewrites, and links only the node files,
\* which a build replaces; and only an eviction takes files away.
THEOREM EntriesKeepContents == CacheSpec => []EntryKeepsContents
<1>1. CacheInit => EntryInv BY InitEntries
<1>2. EntryInv /\ [CacheNext]_cacheVars => EntryInv' BY StepEntries
<1>3. EntryInv => EntryKeepsContents BY DEF EntryInv
<1> QED BY <1>1, <1>2, <1>3, PTL DEF CacheSpec

\* No manifest is younger than the last capture; what is evicted are entries.
Collected ==
    /\ \A k \in Keys : entry[k].at <= captures
    /\ evicting \in Keys \cup {None}
    /\ torn \subseteq Keys

CacheTasks ==
    /\ tenant \in [Workspaces -> Phases]
    /\ todo \in [Workspaces -> SUBSET Names]
    /\ builds \in 0 .. MaxBuilds
    /\ cacheTasks \in 0 .. MaxCacheTasks

\* A capture is younger than every entry there is.
LEMMA StepCollected ==
    ASSUME EntryInv, Collected, [CacheNext]_cacheVars
    PROVE  Collected'
<1> USE DEF EntryInv, OwnInodes, Entry, NoManifest
<1>1. CASE UNCHANGED <<entry, captures, evicting, torn>> BY <1>1 DEF Collected
<1>2. ASSUME NEW w \in Workspaces, InstallBindings(w)
      PROVE  Collected'
  <2>1. shares[w] \notin Keys BY CacheAssumption
  <2>2. entry' = entry BY <1>2, <2>1 DEF InstallBindings
  <2> QED BY <1>2, <2>2 DEF InstallBindings, Collected
<1>3. ASSUME NEW w \in Workspaces, PublishEntry(w)
      PROVE  Collected'
  <2>1. \/ UNCHANGED <<entry, torn, captures>>
        \/ /\ entry' = [entry EXCEPT ![source[w]] = [at |-> captures', files |-> native[w]]]
           /\ captures' = captures + 1 /\ torn' = torn \ {source[w]}
    BY <1>3 DEF PublishEntry
  <2>2. UNCHANGED evicting BY <1>3 DEF PublishEntry
  <2> QED BY <2>1, <2>2 DEF Collected
<1>4. ASSUME NEW k \in Keys, \/ Collect(k) \/ FinishEviction(k) \/ DeleteManifest(k)
                             \/ \E f \in Names : DeleteFile(k, f)
      PROVE  Collected'
  <2>1. /\ captures' = captures /\ torn' \subseteq torn
        /\ evicting' \in {k, evicting, None}
    BY <1>4 DEF Collect, FinishEviction, DeleteManifest, DeleteFile
  <2>2. \A j \in Keys : entry'[j].at \in {entry[j].at, 0}
    BY <1>4 DEF Collect, FinishEviction, DeleteManifest, DeleteFile
  <2> QED BY <2>1, <2>2 DEF Collected
<1>5. CASE CacheCrash BY <1>5 DEF CacheCrash, Collected
<1> QED
  BY <1>1, <1>2, <1>3, <1>4, <1>5 DEF CacheNext, StartCacheTask, LookUpEntry, ListNodes,
     PopulateFile, PopulateFails, CommitSources, InstallBinary, CacheTaskEnds, Capture,
     StartSweep, EndCollection

\* Each step of a task leads to a phase of it.
LEMMA StepCacheTasks ==
    ASSUME CacheTasks, [CacheNext]_cacheVars
    PROVE  CacheTasks'
<1> USE CacheAssumption DEF CacheTasks, Goto, Phases
<1>1. ASSUME NEW w \in Workspaces,
             \/ StartCacheTask(w) \/ LookUpEntry(w) \/ ListNodes(w) \/ InstallBindings(w)
             \/ \E f \in Names : PopulateFile(w, f) \/ PopulateFails(w, f)
             \/ \E k \in Keys : CommitSources(w, k)
             \/ \E v \in Variants : InstallBinary(w, v)
             \/ \E phase \in {"capture", "none"} : CacheTaskEnds(w, phase)
             \/ Capture(w) \/ PublishEntry(w)
      PROVE  CacheTasks'
  <2>1. \/ tenant' = tenant
        \/ \E phase \in Phases : tenant' = [tenant EXCEPT ![w] = phase]
    BY <1>1 DEF StartCacheTask, LookUpEntry, ListNodes, InstallBindings, PopulateFile,
                PopulateFails, CommitSources, InstallBinary, CacheTaskEnds, Capture, PublishEntry
  <2>2. \/ todo' = todo
        \/ \E s \in SUBSET Names : todo' = [todo EXCEPT ![w] = s]
    BY <1>1 DEF StartCacheTask, LookUpEntry, ListNodes, InstallBindings, PopulateFile,
                PopulateFails, CommitSources, InstallBinary, CacheTaskEnds, Capture, PublishEntry,
                NodesIn, Names
  <2>3. builds' \in 0 .. MaxBuilds /\ cacheTasks' \in 0 .. MaxCacheTasks
    BY <1>1 DEF StartCacheTask, LookUpEntry, ListNodes, InstallBindings, PopulateFile,
                PopulateFails, CommitSources, InstallBinary, CacheTaskEnds, Capture, PublishEntry
  <2>4. tenant' \in [Workspaces -> Phases] BY <2>1
  <2>5. todo' \in [Workspaces -> SUBSET Names] BY <2>2
  <2> QED BY <2>3, <2>4, <2>5
<1>2. ASSUME NEW k \in Keys, \/ Collect(k) \/ FinishEviction(k) \/ DeleteManifest(k)
                             \/ \E f \in Names : DeleteFile(k, f)
      PROVE  CacheTasks'
  BY <1>2 DEF Collect, FinishEviction, DeleteManifest, DeleteFile
<1>3. CASE StartSweep BY <1>3 DEF StartSweep
<1>4. CASE EndCollection BY <1>4 DEF EndCollection
<1>5. CASE CacheCrash BY <1>5 DEF CacheCrash
<1>6. CASE UNCHANGED cacheVars BY <1>6
<1> QED BY <1>1, <1>2, <1>3, <1>4, <1>5, <1>6 DEF CacheNext

\* The sweep is on or off: a step of its own, as for every Boolean variable.
LEMMA StepSweeping ==
    ASSUME sweeping \in BOOLEAN, [CacheNext]_cacheVars
    PROVE  sweeping' \in BOOLEAN
<1>1. sweeping' = sweeping \/ sweeping' = TRUE \/ sweeping' = FALSE
  BY Zenon DEF CacheNext, StartCacheTask, LookUpEntry, ListNodes, PopulateFile, PopulateFails,
     CommitSources, InstallBinary, InstallBindings, CacheTaskEnds, Capture, PublishEntry,
     StartSweep, Collect, DeleteFile, DeleteManifest, FinishEviction, EndCollection, CacheCrash
<1> QED BY Zenon, <1>1

\* The variables of the model stay in their types.
THEOREM NativesTypes == CacheSpec => []NativesTypeOK
<1> DEFINE Inv == EntryInv /\ Collected /\ CacheTasks /\ sweeping \in BOOLEAN
<1>1. CacheInit => Inv
  <2> SUFFICES ASSUME CacheInit
               PROVE  Collected /\ CacheTasks /\ sweeping \in BOOLEAN
    BY InitEntries
  <2>1. Collected BY DEF CacheInit, Collected, NoEntry, NoManifest
  <2>2. CacheTasks BY CacheAssumption DEF CacheInit, CacheTasks, Phases
  <2>3. sweeping \in BOOLEAN BY DEF CacheInit
  <2> QED BY Zenon, <2>1, <2>2, <2>3
<1>2. Inv /\ [CacheNext]_cacheVars => Inv'
  BY Zenon, StepEntries, StepCollected, StepCacheTasks, StepSweeping
<1>3. Inv => NativesTypeOK
  <2> SUFFICES ASSUME Inv
               PROVE  NativesTypeOK
    OBVIOUS
  <2>1. entry \in [Keys -> [at : 0 .. captures, files : Files]]
    BY DEF EntryInv, Collected, Entry
  <2>2. shares \in [Workspaces -> Keys \cup {None}] BY DEF EntryInv, OwnInodes
  <2> QED BY Zenon, <2>1, <2>2 DEF EntryInv, OwnInodes, Collected, CacheTasks, NativesTypeOK
<1> QED BY <1>1, <1>2, <1>3, PTL DEF CacheSpec

-----------------------------------------------------------------------------
(* AgentWork.                                                              *)

Tasks == {"issue", "pull"}

Row == [state : IssueStates, branch : Branches \union {NoBranch},
        pull : PullIds \union {NoPull}, class : Classes \union {"none"}]
Task == [phase : {"idle", "setup", "agent", "push", "open", "create", "record", "cleanup"},
         kind : {"none", "triage", "comment", "review", "conversation"},
         branch : Branches \union {NoBranch},
         pull : PullIds \union {NoPull}, directive : Directives]

WorkTyped ==
    /\ issueRow \in Row
    /\ checkout \in Branches \union {NoBranch}
    /\ DOMAIN pulls = PullIds
    /\ \A n \in PullIds : pulls[n].head \in Branches \union {NoBranch}
    /\ threads \in [Tasks -> Task]

Authorized == authorized = TRUE \/ firstClass \in AutoPrClasses

Published ==
    \/ \E n \in PullIds : pulls[n].head # NoBranch
    \/ \E b \in Branches : remoteRefs[b] # {}

\* Whatever lets a tool or a handler publish has an authorization behind it:
\* the classification is the first one, a directive was recorded before its
\* task, and a row has a pull request only after one was opened.
Backed ==
    /\ Published => Authorized
    /\ issueRow.pull # NoPull => Authorized
    /\ issueRow.class = firstClass
    /\ \A t \in Tasks :
          /\ threads[t].phase \in {"push", "open", "create", "record"} => Authorized
          /\ threads[t].directive = "impl" => Authorized

AuthInv == WorkTyped /\ Backed

-----------------------------------------------------------------------------
USE DEF workVars, git, onGitHub

\* Nothing is published, authorized or classified at first.
LEMMA InitAuth == WorkInit => AuthInv
BY DEF WorkInit, AuthInv, WorkTyped, Row, Task, Backed, Published, IdleTask, Tasks, NoPull, NoBranch,
       IssueStates, Directives

\* Every step keeps the types.
LEMMA StepWorkTyped ==
    ASSUME AuthInv, [WorkNext]_workVars
    PROVE  WorkTyped'
<1> USE DEF AuthInv, WorkTyped, Row, Task, Tasks, NoPull, NoBranch, IssueStates, Directives
<1>1. CASE RecordDirective BY <1>1 DEF RecordDirective
<1>2. CASE TriageIssue BY <1>2 DEF TriageIssue, StartTask, RemoveIfFinalized, Upsert
<1>3. ASSUME NEW d \in Directives, HandleComment(d)
      PROVE  WorkTyped'
  BY <1>3 DEF HandleComment, StartTask, RemoveIfFinalized, Upsert
<1>4. ASSUME NEW n \in PullIds, HandleReview(n)
      PROVE  WorkTyped'
  BY <1>4 DEF HandleReview, StartTask, Resolved, RowOfPull, Known, ThreadOfPull
<1>5. ASSUME NEW n \in PullIds, NEW d \in Directives, HandlePrConversation(n, d)
      PROVE  WorkTyped'
  BY <1>5 DEF HandlePrConversation, StartTask, Resolved, RowOfPull, Known, ThreadOfPull, RemoveIfFinalized
<1>6. ASSUME NEW n \in PullIds \union {NoPull}, CleanupWorkspace(n)
      PROVE  WorkTyped'
  BY <1>6 DEF CleanupWorkspace, IdleTask
<1>7. ASSUME NEW t \in {"issue", "pull"}, FinishCleanup(t)
      PROVE  WorkTyped'
  BY <1>7 DEF FinishCleanup, IdleTask
<1>8. ASSUME NEW t \in {"issue", "pull"}, EnsureWorkspace(t)
      PROVE  WorkTyped'
  <2> DEFINE asked == threads[t].branch
             b == IF checkout # NoBranch THEN checkout
                  ELSE IF asked # NoBranch THEN asked ELSE "titled"
             d == IF threads[t].directive = "impl" THEN "impl" ELSE "none"
  <2>1. threads[t] \in Task OBVIOUS
  <2>2. b \in Branches /\ b # NoBranch BY <2>1 DEF Branches
  <2>3. d \in Directives BY <2>1
  <2>4. /\ checkout' = b /\ pulls' = pulls
        /\ issueRow' = issueRow \/ Upsert("active", b)
    BY Zenon, <1>8 DEF EnsureWorkspace, onGitHub
  <2>5. threads' = [threads EXCEPT ![t] =
            [threads[t] EXCEPT !.phase = "agent", !.kind = "none", !.branch = b, !.directive = d]]
    BY <1>8 DEF EnsureWorkspace
  <2> HIDE DEF b, d
  <2>6. issueRow' \in Row BY <2>2, <2>4 DEF Upsert
  <2>7. threads' \in [Tasks -> Task]
    <3> DEFINE new == [threads[t] EXCEPT !.phase = "agent", !.kind = "none", !.branch = b,
                                         !.directive = d]
    <3>1. new \in Task BY <2>1, <2>2, <2>3
    <3> HIDE DEF new
    <3> QED BY ONLY <2>5, <3>1, WorkTyped DEF WorkTyped, new
  <2> QED BY <2>2, <2>4, <2>6, <2>7
<1>9. ASSUME NEW t \in {"issue", "pull"}, EndTask(t)
      PROVE  WorkTyped'
  BY <1>9 DEF EndTask, IdleTask
<1>10. CASE OtherTaskFetches BY <1>10 DEF OtherTaskFetches, FetchPool
<1>11. ASSUME NEW t \in {"issue", "pull"}, AgentCommits(t)
      PROVE  WorkTyped'
  BY <1>11 DEF AgentCommits, AtWork
<1>12. ASSUME NEW t \in {"issue", "pull"}, NEW c \in Classes, NEW r \in BOOLEAN, NEW l \in BOOLEAN, ClassifyIssue(t, c, r, l)
      PROVE  WorkTyped'
  <2>1. issueRow'.branch \in Branches \union {NoBranch} /\ issueRow'.class \in Classes \union {"none"}
    BY <1>12 DEF ClassifyIssue, Branches
  <2>2. issueRow' \in Row
    <3>1. PICK br \in Branches \union {NoBranch}, cl \in Classes \union {"none"} :
              issueRow' = [issueRow EXCEPT !.branch = br, !.class = cl]
      <4> DEFINE br == IF r THEN "renamed" ELSE issueRow.branch
                 cl == IF l THEN c ELSE issueRow.class
      <4>1. issueRow' = [issueRow EXCEPT !.branch = br, !.class = cl]
        BY Zenon, <1>12 DEF ClassifyIssue
      <4>2. br \in Branches \union {NoBranch} BY DEF Branches
      <4>3. cl \in Classes \union {"none"} OBVIOUS
      <4> QED BY Zenon, <4>1, <4>2, <4>3
    <3> QED BY <3>1
  <2>3. threads' \in [Tasks -> Task]
    <3>1. threads' = threads \/ threads' = [threads EXCEPT ![t].branch = "renamed"]
      BY Zenon, <1>12 DEF ClassifyIssue, RenameBranch
    <3> QED BY <3>1 DEF Branches
  <2>4. pulls' = pulls BY <1>12 DEF ClassifyIssue
  <2>5. checkout' \in Branches \union {NoBranch} BY <1>12 DEF ClassifyIssue, RenameBranch, Branches
  <2> QED BY <2>2, <2>3, <2>4, <2>5
<1>13. ASSUME NEW t \in {"issue", "pull"}, NEW phase \in {"push", "open"}, PrePublish(t, phase)
      PROVE  WorkTyped'
  BY <1>13 DEF PrePublish, AtWork, ImplAuthorized, GoOn
<1>14. ASSUME NEW t \in {"issue", "pull"}, GateRefuses(t)
      PROVE  WorkTyped'
  BY <1>14 DEF GateRefuses, GoOn
<1>15. ASSUME NEW t \in {"issue", "pull"}, NEW r \in BOOLEAN, GuardedPush(t, r)
      PROVE  WorkTyped'
  BY <1>15 DEF GuardedPush, GoOn
<1>16. ASSUME NEW t \in {"issue", "pull"}, NEW n \in PullIds, CreatePull(t, n)
      PROVE  WorkTyped'
  <2>1. threads[t] \in Task OBVIOUS
  <2>2. threads' = [threads EXCEPT ![t] = [threads[t] EXCEPT !.phase = "record", !.pull = n]]
    BY <1>16 DEF CreatePull
  <2>3. threads' \in [Tasks -> Task] BY <2>1, <2>2
  <2>4. pulls' = [pulls EXCEPT ![n] = [head |-> threads[t].branch, open |-> TRUE]]
    BY <1>16 DEF CreatePull
  <2>5. \A m \in PullIds : pulls'[m].head \in Branches \union {NoBranch} BY <2>1, <2>4
  <2>6. UNCHANGED <<issueRow, checkout>> BY <1>16 DEF CreatePull
  <2> QED BY <2>3, <2>4, <2>5, <2>6
<1>17. ASSUME NEW t \in {"issue", "pull"}, RecordPull(t)
      PROVE  WorkTyped'
  <2>1. threads[t] \in Task /\ threads[t].pull \in PullIds \union {NoPull} BY DEF Task, Tasks
  <2>2. issueRow' = [issueRow EXCEPT !.pull = threads[t].pull, !.state = "active"]
    BY <1>17 DEF RecordPull
  <2>3. "active" \in IssueStates BY DEF IssueStates
  <2>4. issueRow' \in Row BY <2>1, <2>2, <2>3 DEF Row
  <2>5. threads' \in [Tasks -> Task] BY <1>17, <2>1 DEF RecordPull, GoOn, Task, Tasks
  <2> QED BY <1>17, <2>4, <2>5 DEF RecordPull
<1>18. ASSUME NEW t \in {"issue", "pull"}, MarkUnable(t)
      PROVE  WorkTyped'
  BY <1>18 DEF MarkUnable, AtWork
<1>19. ASSUME NEW t \in {"issue", "pull"}, AbortTask(t)
      PROVE  WorkTyped'
  BY <1>19 DEF AbortTask, AtWork, IdleTask
<1>20. ASSUME NEW b \in Branches, NEW f \in Foreigners, ForeignPush(b, f)
      PROVE  WorkTyped'
  BY <1>20 DEF ForeignPush
<1>21. ASSUME NEW n \in PullIds, NEW d \in BOOLEAN, ClosePull(n, d)
      PROVE  WorkTyped'
  BY <1>21 DEF ClosePull
<1>22. CASE UNCHANGED workVars BY <1>22
<1> QED
  BY <1>1, <1>2, <1>3, <1>4, <1>5, <1>6, <1>7, <1>8, <1>9,
     <1>10, <1>11, <1>12, <1>13, <1>14, <1>15, <1>16, <1>17,
     <1>18, <1>19, <1>20, <1>21, <1>22
  DEF WorkNext, Handlers, Tools, People

\* Every step keeps an authorization behind what may publish.
LEMMA StepBacked ==
    ASSUME AuthInv, [WorkNext]_workVars
    PROVE  Backed'
<1> USE DEF AuthInv, WorkTyped, Row, Task, Tasks, Backed, Published, Authorized
<1>1. CASE RecordDirective BY <1>1 DEF RecordDirective
<1>2. CASE TriageIssue BY <1>2 DEF TriageIssue, StartTask, RemoveIfFinalized, Upsert
<1>3. ASSUME NEW d \in Directives, HandleComment(d)
      PROVE  Backed'
  BY <1>3 DEF HandleComment, StartTask, RemoveIfFinalized, Upsert
<1>4. ASSUME NEW n \in PullIds, HandleReview(n)
      PROVE  Backed'
  BY <1>4 DEF HandleReview, StartTask, Resolved, RowOfPull, Known, ThreadOfPull
<1>5. ASSUME NEW n \in PullIds, NEW d \in Directives, HandlePrConversation(n, d)
      PROVE  Backed'
  BY <1>5 DEF HandlePrConversation, StartTask, Resolved, RowOfPull, Known, ThreadOfPull, RemoveIfFinalized
<1>6. ASSUME NEW n \in PullIds \union {NoPull}, CleanupWorkspace(n)
      PROVE  Backed'
  BY <1>6 DEF CleanupWorkspace, IdleTask
<1>7. ASSUME NEW t \in {"issue", "pull"}, FinishCleanup(t)
      PROVE  Backed'
  BY <1>7 DEF FinishCleanup, IdleTask
<1>8. ASSUME NEW t \in {"issue", "pull"}, EnsureWorkspace(t)
      PROVE  Backed'
  <2>1. UNCHANGED <<remoteRefs, pulls, authorized, firstClass>> BY <1>8 DEF EnsureWorkspace
  <2>2. issueRow'.pull = issueRow.pull /\ issueRow'.class = issueRow.class
    BY <1>8 DEF EnsureWorkspace, Upsert
  <2>3. PICK b : threads' = [threads EXCEPT ![t] =
            [threads[t] EXCEPT !.phase = "agent", !.kind = "none", !.branch = b,
                               !.directive = IF @ = "impl" THEN @ ELSE "none"]]
    BY Zenon, <1>8 DEF EnsureWorkspace
  <2>4. \A u \in Tasks : \/ threads'[u] = threads[u]
                         \/ /\ threads'[u].phase = "agent"
                            /\ threads'[u].directive = "impl" => threads[u].directive = "impl"
    BY <2>3
  <2> QED BY <2>1, <2>2, <2>4
<1>9. ASSUME NEW t \in {"issue", "pull"}, EndTask(t)
      PROVE  Backed'
  BY <1>9 DEF EndTask, IdleTask
<1>10. CASE OtherTaskFetches BY <1>10 DEF OtherTaskFetches, FetchPool
<1>11. ASSUME NEW t \in {"issue", "pull"}, AgentCommits(t)
      PROVE  Backed'
  BY <1>11 DEF AgentCommits, AtWork
<1>12. ASSUME NEW t \in {"issue", "pull"}, NEW c \in Classes, NEW r \in BOOLEAN, NEW l \in BOOLEAN, ClassifyIssue(t, c, r, l)
      PROVE  Backed'
  <2>1. /\ issueRow'.pull = issueRow.pull
        /\ UNCHANGED <<remoteRefs, pulls, authorized>>
        /\ issueRow.class = "none"
        /\ issueRow'.class = firstClass'
    <3>1. issueRow' = [issueRow EXCEPT !.branch = IF r THEN "renamed" ELSE @,
                                       !.class = IF l THEN c ELSE @]
      BY Zenon, <1>12 DEF ClassifyIssue
    <3>2. issueRow'.pull = issueRow.pull BY <3>1
    <3>3. issueRow'.class = IF l THEN c ELSE issueRow.class BY <3>1
    <3>4. issueRow.class = "none" BY <1>12 DEF ClassifyIssue, MayClassify
    <3>5. firstClass' = IF l /\ firstClass = "none" THEN c ELSE firstClass
      BY Zenon, <1>12 DEF ClassifyIssue
    <3>6. UNCHANGED <<remoteRefs, pulls, authorized>> BY <1>12 DEF ClassifyIssue
    <3> QED BY <3>2, <3>3, <3>4, <3>5, <3>6
  <2>2. firstClass \notin AutoPrClasses BY <2>1 DEF AutoPrClasses
  <2>3. Authorized => Authorized' BY <2>1, <2>2
  <2>4. \A u \in Tasks : /\ threads'[u].phase = threads[u].phase
                         /\ threads'[u].directive = threads[u].directive
    <3>1. threads' = threads \/ threads' = [threads EXCEPT ![t].branch = "renamed"]
      BY Zenon, <1>12 DEF ClassifyIssue, RenameBranch
    <3> QED BY <3>1
  <2> HIDE DEF Authorized
  <2> QED BY <2>1, <2>3, <2>4
<1>13. ASSUME NEW t \in {"issue", "pull"}, NEW phase \in {"push", "open"}, PrePublish(t, phase)
      PROVE  Backed'
  BY <1>13 DEF PrePublish, AtWork, ImplAuthorized, GoOn
<1>14. ASSUME NEW t \in {"issue", "pull"}, GateRefuses(t)
      PROVE  Backed'
  BY <1>14 DEF GateRefuses, GoOn
<1>15. ASSUME NEW t \in {"issue", "pull"}, NEW r \in BOOLEAN, GuardedPush(t, r)
      PROVE  Backed'
  BY <1>15 DEF GuardedPush, GoOn
<1>16. ASSUME NEW t \in {"issue", "pull"}, NEW n \in PullIds, CreatePull(t, n)
      PROVE  Backed'
  BY <1>16 DEF CreatePull
<1>17. ASSUME NEW t \in {"issue", "pull"}, RecordPull(t)
      PROVE  Backed'
  BY <1>17 DEF RecordPull, GoOn
<1>18. ASSUME NEW t \in {"issue", "pull"}, MarkUnable(t)
      PROVE  Backed'
  BY <1>18 DEF MarkUnable, AtWork
<1>19. ASSUME NEW t \in {"issue", "pull"}, AbortTask(t)
      PROVE  Backed'
  BY <1>19 DEF AbortTask, AtWork, IdleTask
<1>20. ASSUME NEW b \in Branches, NEW f \in Foreigners, ForeignPush(b, f)
      PROVE  Backed'
  BY <1>20 DEF ForeignPush
<1>21. ASSUME NEW n \in PullIds, NEW d \in BOOLEAN, ClosePull(n, d)
      PROVE  Backed'
  BY <1>21 DEF ClosePull
<1>22. CASE UNCHANGED workVars BY <1>22
<1> HIDE DEF AuthInv, WorkTyped, Row, Task, Tasks, Backed, Published, Authorized
<1> QED
  BY <1>1, <1>2, <1>3, <1>4, <1>5, <1>6, <1>7, <1>8, <1>9,
     <1>10, <1>11, <1>12, <1>13, <1>14, <1>15, <1>16, <1>17,
     <1>18, <1>19, <1>20, <1>21, <1>22
  DEF WorkNext, Handlers, Tools, People

\* The invariant holds in every state.
LEMMA AuthInvariance == WorkSpec => []AuthInv
<1>1. WorkInit => AuthInv BY InitAuth
<1>2. AuthInv /\ [WorkNext]_workVars => AuthInv' BY StepWorkTyped, StepBacked DEF AuthInv
<1> QED BY <1>1, <1>2, PTL DEF WorkSpec

\* The bot publishes nothing of an issue without an authorization, for any
\* order of tool calls, reclassifications, pull request events and reopenings.
THEOREM PublishingIsAuthorized == WorkSpec => []PublishedIsAuthorized
<1>1. AuthInv => PublishedIsAuthorized
  BY DEF AuthInv, Backed, Published, Authorized, PublishedIsAuthorized
<1> QED BY <1>1, AuthInvariance, PTL

-----------------------------------------------------------------------------
(* The lease.                                                              *)

\* What the pool clone knows of other people's commits it has fetched: its
\* refs of origin, and its own branches, which start there.
Seen ==
    /\ DOMAIN localRefs = Branches /\ DOMAIN originRefs = Branches /\ DOMAIN remoteRefs = Branches
    /\ checkout \in Branches \union {NoBranch}
    /\ \A b \in Branches : /\ ForeignIn(originRefs[b]) \subseteq fetched
                           /\ ForeignIn(localRefs[b]) \subseteq fetched

\* The foreign commits of a ref are those of the commits it names.
LEMMA ForeignOf ==
    /\ ForeignIn({}) = {}
    /\ ForeignIn({Base}) = {}
    /\ \A ref, c : c \in ref => c.foreign \subseteq ForeignIn(ref)
    /\ \A o, f : ForeignIn({[own |-> o, foreign |-> f]}) = f
    /\ \A b \in Branches : ForeignIn(remoteRefs[b]) \subseteq AllForeign(remoteRefs)
<1>1. ForeignIn({}) = {} BY DEF ForeignIn
<1>2. ForeignIn({Base}) = {} BY DEF ForeignIn, Base
<1>3. \A ref, c : c \in ref => c.foreign \subseteq ForeignIn(ref) BY DEF ForeignIn
<1>4. \A o, f : ForeignIn({[own |-> o, foreign |-> f]}) = f BY DEF ForeignIn
<1>5. \A b \in Branches : ForeignIn(remoteRefs[b]) \subseteq AllForeign(remoteRefs)
  BY DEF AllForeign
<1> QED BY <1>1, <1>2, <1>3, <1>4, <1>5

\* At first there are no refs.
LEMMA InitSeen == WorkInit => Seen
BY ForeignOf DEF WorkInit, Seen

\* Every step leaves in the pool clone only what a fetch brought.
LEMMA StepSeen ==
    ASSUME AuthInv, Seen, [WorkNext]_workVars
    PROVE  Seen'
<1> USE DEF Seen
<1>1. CASE RecordDirective BY <1>1 DEF RecordDirective
<1>2. CASE TriageIssue BY <1>2 DEF TriageIssue, StartTask, RemoveIfFinalized, Upsert
<1>3. ASSUME NEW d \in Directives, HandleComment(d)
      PROVE  Seen'
  BY <1>3 DEF HandleComment, StartTask, RemoveIfFinalized, Upsert
<1>4. ASSUME NEW n \in PullIds, HandleReview(n)
      PROVE  Seen'
  BY <1>4 DEF HandleReview, StartTask, RemoveIfFinalized
<1>5. ASSUME NEW n \in PullIds, NEW d \in Directives, HandlePrConversation(n, d)
      PROVE  Seen'
  BY <1>5 DEF HandlePrConversation, StartTask, RemoveIfFinalized
<1>6. ASSUME NEW n \in PullIds \union {NoPull}, CleanupWorkspace(n)
      PROVE  Seen'
  BY <1>6 DEF CleanupWorkspace, IdleTask
<1>7. ASSUME NEW t \in {"issue", "pull"}, FinishCleanup(t)
      PROVE  Seen'
  BY <1>7 DEF FinishCleanup, IdleTask
<1>8. ASSUME NEW t \in {"issue", "pull"}, EnsureWorkspace(t)
      PROVE  Seen'
  <2> DEFINE asked == threads[t].branch
             branch == IF checkout # NoBranch THEN checkout
                       ELSE IF asked # NoBranch THEN asked ELSE "titled"
  <2>0. originRefs' = remoteRefs /\ fetched' = fetched \union AllForeign(remoteRefs)
    BY <1>8 DEF EnsureWorkspace, FetchPool
  <2>1. /\ checkout' = branch /\ UNCHANGED remoteRefs
        /\ \/ localRefs' = localRefs
           \/ /\ localRefs' = [localRefs EXCEPT ![branch] = StartPoint(branch, asked # NoBranch)]
              /\ branch = asked \/ branch = "titled"
    BY Zenon, <1>8 DEF EnsureWorkspace
  <2>2. branch \in Branches \union {NoBranch} BY <1>8 DEF EnsureWorkspace, Branches, AuthInv, WorkTyped, Tasks, Task
  <2>3. \A br \in Branches : ForeignIn(StartPoint(br, asked # NoBranch)) \subseteq fetched'
    BY <2>0, ForeignOf DEF StartPoint
  <2>4. \A b \in Branches : ForeignIn(originRefs'[b]) \subseteq fetched' BY <2>0, ForeignOf
  <2>5. DOMAIN localRefs' = Branches BY <2>1
  <2> HIDE DEF branch
  <2>6. ASSUME NEW b \in Branches
        PROVE  ForeignIn(localRefs'[b]) \subseteq fetched'
    <3>1. \/ localRefs'[b] = localRefs[b]
          \/ localRefs'[b] = StartPoint(b, asked # NoBranch)
      BY <2>1
    <3> QED BY <2>0, <2>3, <3>1
  <2> QED BY <2>0, <2>1, <2>2, <2>4, <2>5, <2>6
<1>9. ASSUME NEW t \in {"issue", "pull"}, EndTask(t)
      PROVE  Seen'
  BY <1>9 DEF EndTask, IdleTask
<1>10. CASE OtherTaskFetches
  <2>1. originRefs' = remoteRefs /\ fetched' = fetched \union AllForeign(remoteRefs)
    BY <1>10 DEF OtherTaskFetches, FetchPool
  <2>2. UNCHANGED <<checkout, localRefs, remoteRefs>> BY <1>10 DEF OtherTaskFetches, onGitHub
  <2> QED BY <2>1, <2>2, ForeignOf
<1>11. ASSUME NEW t \in {"issue", "pull"}, AgentCommits(t)
      PROVE  Seen'
  <2>1. checkout \in Branches BY <1>11 DEF AgentCommits
  <2>2. PICK c \in localRefs[checkout], theirs \in {{}, ForeignIn(originRefs[checkout])} :
            localRefs' = [localRefs EXCEPT ![checkout] =
                            {[own |-> TRUE, foreign |-> c.foreign \union theirs]}]
    BY <1>11 DEF AgentCommits, Tip
  <2> DEFINE ref == {[own |-> TRUE, foreign |-> c.foreign \union theirs]}
  <2>3. ForeignIn(ref) \subseteq fetched
    <3>1. ForeignIn(ref) = c.foreign \union theirs BY Zenon, ForeignOf
    <3>2. c.foreign \subseteq ForeignIn(localRefs[checkout]) BY ForeignOf
    <3> QED BY <2>1, <3>1, <3>2
  <2>4. UNCHANGED <<checkout, originRefs, remoteRefs, fetched>> BY <1>11 DEF AgentCommits
  <2>5. localRefs' = [localRefs EXCEPT ![checkout] = ref] BY <2>2
  <2> HIDE DEF ref
  <2>6. \A b \in Branches : ForeignIn(localRefs'[b]) \subseteq fetched BY <2>1, <2>3, <2>5
  <2>7. DOMAIN localRefs' = Branches BY <2>5
  <2> QED BY <2>4, <2>6, <2>7
<1>12. ASSUME NEW t \in {"issue", "pull"}, NEW c \in Classes, NEW r \in BOOLEAN, NEW l \in BOOLEAN, ClassifyIssue(t, c, r, l)
      PROVE  Seen'
  <2>1. UNCHANGED <<originRefs, remoteRefs, fetched>> BY <1>12 DEF ClassifyIssue
  <2>2. \/ UNCHANGED <<localRefs, checkout>>
        \/ /\ localRefs' = [localRefs EXCEPT !["renamed"] = localRefs["titled"], !["titled"] = {}]
           /\ checkout' = IF checkout = "titled" THEN "renamed" ELSE checkout
    BY Zenon, <1>12 DEF ClassifyIssue, RenameBranch
  <2> QED BY <2>1, <2>2, ForeignOf DEF Branches
<1>13. ASSUME NEW t \in {"issue", "pull"}, NEW phase \in {"push", "open"}, PrePublish(t, phase)
      PROVE  Seen'
  BY <1>13 DEF PrePublish, AtWork, ImplAuthorized, GoOn
<1>14. ASSUME NEW t \in {"issue", "pull"}, GateRefuses(t)
      PROVE  Seen'
  BY <1>14 DEF GateRefuses, GoOn
<1>15. ASSUME NEW t \in {"issue", "pull"}, NEW r \in BOOLEAN, GuardedPush(t, r)
      PROVE  Seen'
  <2>1. /\ checkout \in Branches
        /\ UNCHANGED <<checkout, localRefs, fetched>>
        /\ remoteRefs' = [remoteRefs EXCEPT ![threads[t].branch] = localRefs[checkout]]
        /\ \/ originRefs' = originRefs
           \/ originRefs' = [originRefs EXCEPT ![threads[t].branch] = localRefs[checkout]]
    BY <1>15 DEF GuardedPush, Tip
  <2> QED BY <2>1
<1>16. ASSUME NEW t \in {"issue", "pull"}, NEW n \in PullIds, CreatePull(t, n)
      PROVE  Seen'
  BY <1>16 DEF CreatePull
<1>17. ASSUME NEW t \in {"issue", "pull"}, RecordPull(t)
      PROVE  Seen'
  BY <1>17 DEF RecordPull, GoOn
<1>18. ASSUME NEW t \in {"issue", "pull"}, MarkUnable(t)
      PROVE  Seen'
  BY <1>18 DEF MarkUnable, AtWork
<1>19. ASSUME NEW t \in {"issue", "pull"}, AbortTask(t)
      PROVE  Seen'
  BY <1>19 DEF AbortTask, AtWork, IdleTask
<1>20. ASSUME NEW b \in Branches, NEW f \in Foreigners, ForeignPush(b, f)
      PROVE  Seen'
  BY <1>20 DEF ForeignPush
<1>21. ASSUME NEW n \in PullIds, NEW d \in BOOLEAN, ClosePull(n, d)
      PROVE  Seen'
  BY <1>21 DEF ClosePull
<1>22. CASE UNCHANGED workVars BY <1>22
<1> QED
  BY <1>1, <1>2, <1>3, <1>4, <1>5, <1>6, <1>7, <1>8, <1>9,
     <1>10, <1>11, <1>12, <1>13, <1>14, <1>15, <1>16, <1>17,
     <1>18, <1>19, <1>20, <1>21, <1>22
  DEF WorkNext, Handlers, Tools, People

\* A step that changes a branch on GitHub is a push of the bot, a push of
\* somebody else, which adds to the branch, or the deletion of the branch.
Protected == \A b \in Branches : Dropped(b) \subseteq fetched

\* Every step of the bot and of other people is of one of these kinds.
LEMMA PushProtects ==
    ASSUME Seen, [WorkNext]_workVars
    PROVE  Protected
<1> USE DEF Protected, Dropped
<1>1. CASE RecordDirective BY <1>1 DEF RecordDirective
<1>2. CASE TriageIssue BY <1>2 DEF TriageIssue, StartTask, RemoveIfFinalized, Upsert
<1>3. ASSUME NEW d \in Directives, HandleComment(d)
      PROVE  Protected
  BY <1>3 DEF HandleComment, StartTask, RemoveIfFinalized, Upsert
<1>4. ASSUME NEW n \in PullIds, HandleReview(n)
      PROVE  Protected
  BY <1>4 DEF HandleReview, StartTask, RemoveIfFinalized
<1>5. ASSUME NEW n \in PullIds, NEW d \in Directives, HandlePrConversation(n, d)
      PROVE  Protected
  BY <1>5 DEF HandlePrConversation, StartTask, RemoveIfFinalized
<1>6. ASSUME NEW n \in PullIds \union {NoPull}, CleanupWorkspace(n)
      PROVE  Protected
  BY <1>6 DEF CleanupWorkspace, IdleTask
<1>7. ASSUME NEW t \in {"issue", "pull"}, FinishCleanup(t)
      PROVE  Protected
  BY <1>7 DEF FinishCleanup, IdleTask
<1>8. ASSUME NEW t \in {"issue", "pull"}, EnsureWorkspace(t)
      PROVE  Protected
  BY <1>8 DEF EnsureWorkspace, FetchPool
<1>9. ASSUME NEW t \in {"issue", "pull"}, EndTask(t)
      PROVE  Protected
  BY <1>9 DEF EndTask, IdleTask
<1>10. CASE OtherTaskFetches BY <1>10 DEF OtherTaskFetches, FetchPool
<1>11. ASSUME NEW t \in {"issue", "pull"}, AgentCommits(t)
      PROVE  Protected
  BY <1>11 DEF AgentCommits, AtWork
<1>12. ASSUME NEW t \in {"issue", "pull"}, NEW c \in Classes, NEW r \in BOOLEAN, NEW l \in BOOLEAN, ClassifyIssue(t, c, r, l)
      PROVE  Protected
  BY <1>12 DEF ClassifyIssue, AtWork, MayClassify, RenameBranch, CanRename
<1>13. ASSUME NEW t \in {"issue", "pull"}, NEW phase \in {"push", "open"}, PrePublish(t, phase)
      PROVE  Protected
  BY <1>13 DEF PrePublish, AtWork, ImplAuthorized, GoOn
<1>14. ASSUME NEW t \in {"issue", "pull"}, GateRefuses(t)
      PROVE  Protected
  BY <1>14 DEF GateRefuses, GoOn
<1>15. ASSUME NEW t \in {"issue", "pull"}, NEW r \in BOOLEAN, GuardedPush(t, r)
      PROVE  Protected
  <2>1. /\ remoteRefs' = [remoteRefs EXCEPT ![threads[t].branch] = Tip]
        /\ LeaseHolds(threads[t].branch)
    BY Zenon, <1>15 DEF GuardedPush
  <2> QED BY <2>1 DEF LeaseHolds, Seen
<1>16. ASSUME NEW t \in {"issue", "pull"}, NEW n \in PullIds, CreatePull(t, n)
      PROVE  Protected
  BY <1>16 DEF CreatePull
<1>17. ASSUME NEW t \in {"issue", "pull"}, RecordPull(t)
      PROVE  Protected
  BY <1>17 DEF RecordPull, GoOn
<1>18. ASSUME NEW t \in {"issue", "pull"}, MarkUnable(t)
      PROVE  Protected
  BY <1>18 DEF MarkUnable, AtWork
<1>19. ASSUME NEW t \in {"issue", "pull"}, AbortTask(t)
      PROVE  Protected
  BY <1>19 DEF AbortTask, AtWork, IdleTask
<1>20. ASSUME NEW b \in Branches, NEW f \in Foreigners, ForeignPush(b, f)
      PROVE  Protected
  <2>1. remoteRefs' = [remoteRefs EXCEPT ![b] =
                         {[own |-> c.own, foreign |-> c.foreign \union {f}] : c \in remoteRefs[b]}]
    BY <1>20 DEF ForeignPush
  <2> DEFINE added == {[own |-> c.own, foreign |-> c.foreign \union {f}] : c \in remoteRefs[b]}
  <2>2. ForeignIn(remoteRefs[b]) \subseteq ForeignIn(added)
    <3>1. SUFFICES ASSUME NEW x, x \in ForeignIn(remoteRefs[b])
                   PROVE  x \in ForeignIn(added)
      OBVIOUS
    <3>2. PICK c \in remoteRefs[b] : x \in c.foreign BY <3>1 DEF ForeignIn
    <3>3. [own |-> c.own, foreign |-> c.foreign \union {f}] \in added OBVIOUS
    <3>4. x \in [own |-> c.own, foreign |-> c.foreign \union {f}].foreign BY <3>2
    <3> HIDE DEF added
    <3> QED BY <3>3, <3>4, ForeignOf
  <2> QED BY <2>1, <2>2 DEF Seen
<1>21. ASSUME NEW n \in PullIds, NEW d \in BOOLEAN, ClosePull(n, d)
      PROVE  Protected
  <2>1. \A b \in Branches : remoteRefs'[b] = {} \/ remoteRefs'[b] = remoteRefs[b]
    BY <1>21 DEF ClosePull
  <2> QED BY <2>1
<1>22. CASE UNCHANGED workVars BY <1>22
<1> QED
  BY <1>1, <1>2, <1>3, <1>4, <1>5, <1>6, <1>7, <1>8, <1>9,
     <1>10, <1>11, <1>12, <1>13, <1>14, <1>15, <1>16, <1>17,
     <1>18, <1>19, <1>20, <1>21, <1>22
  DEF WorkNext, Handlers, Tools, People

\* The lease of every push protects what no fetch has brought, for any pushes
\* of other people between the fetches of any tasks.
THEOREM LeaseIsHonored == WorkSpec => LeaseProtects
<1>1. WorkInit => Seen BY InitSeen
<1>2. AuthInv /\ Seen /\ [WorkNext]_workVars => Seen' BY StepSeen
<1>3. Seen /\ [WorkNext]_workVars => [Protected]_workVars BY PushProtects
<1> QED BY <1>1, <1>2, <1>3, AuthInvariance, PTL DEF WorkSpec, LeaseProtects, Protected

\* A ref names one commit or does not exist.
Refs == {{}} \union {{c} : c \in Commit}

RefsTyped ==
    /\ localRefs \in [Branches -> Refs]
    /\ originRefs \in [Branches -> Refs]
    /\ remoteRefs \in [Branches -> Refs]
    /\ fetched \subseteq Foreigners

WorkSides ==
    /\ starts \in 0 .. MaxStarts
    /\ firstClass \in Classes \union {"none"}

WorkFlags ==
    /\ authorized \in BOOLEAN
    /\ pulls \in [PullIds -> [head : Branches \union {NoBranch}, open : BOOLEAN]]

\* Commits are made of the bot's work and of what a ref contains already.
LEMMA RefFacts ==
    /\ {} \in Refs /\ {Base} \in Refs
    /\ \A ref \in Refs : ForeignIn(ref) \subseteq Foreigners /\ ref \subseteq Commit
    /\ \A o \in BOOLEAN, f \in SUBSET Foreigners : {[own |-> o, foreign |-> f]} \in Refs
    /\ \A ref \in Refs, f \in Foreigners :
          {[own |-> c.own, foreign |-> c.foreign \union {f}] : c \in ref} \in Refs
    /\ \A ref \in Refs : Cardinality(ref) <= 1
<1>1. \A o \in BOOLEAN, f \in SUBSET Foreigners :
          /\ [own |-> o, foreign |-> f] \in Commit
          /\ {[own |-> o, foreign |-> f]} \in Refs
  BY DEF Refs, Commit
<1>2. {} \in Refs /\ {Base} \in Refs BY <1>1 DEF Refs, Base
<1>3. ASSUME NEW ref \in Refs
      PROVE  ForeignIn(ref) \subseteq Foreigners /\ ref \subseteq Commit
  <2>1. ref \subseteq Commit BY DEF Refs
  <2>2. \A c \in ref : c.foreign \subseteq Foreigners BY <2>1 DEF Commit
  <2> QED BY <2>1, <2>2 DEF ForeignIn
<1>4. ASSUME NEW ref \in Refs, NEW f \in Foreigners
      PROVE  {[own |-> c.own, foreign |-> c.foreign \union {f}] : c \in ref} \in Refs
  <2>1. CASE ref = {} BY <2>1, <1>2
  <2>2. ASSUME NEW c \in Commit, ref = {c}
        PROVE  {[own |-> d.own, foreign |-> d.foreign \union {f}] : d \in ref} \in Refs
    <3>1. {[own |-> d.own, foreign |-> d.foreign \union {f}] : d \in ref} =
             {[own |-> c.own, foreign |-> c.foreign \union {f}]}
      BY <2>2
    <3>2. c.own \in BOOLEAN /\ c.foreign \union {f} \in SUBSET Foreigners
      BY DEF Commit
    <3> QED BY <1>1, <3>1, <3>2
  <2> QED BY <2>1, <2>2 DEF Refs
<1>5. ASSUME NEW ref \in Refs
      PROVE  Cardinality(ref) <= 1
  <2>1. CASE ref = {} BY <2>1, FS_EmptySet
  <2>2. ASSUME NEW c \in Commit, ref = {c}
        PROVE  Cardinality(ref) <= 1
    BY <2>2, FS_Singleton
  <2> QED BY <2>1, <2>2 DEF Refs
<1> QED BY <1>1, <1>2, <1>3, <1>4, <1>5

\* No step brings a ref out of its type.
LEMMA StepRefs ==
    ASSUME AuthInv, RefsTyped, [WorkNext]_workVars
    PROVE  RefsTyped'
<1> USE DEF RefsTyped
<1>1. AllForeign(remoteRefs) \subseteq Foreigners BY RefFacts DEF AllForeign
<1>2. ASSUME NEW t \in {"issue", "pull"}, EnsureWorkspace(t)
      PROVE  RefsTyped'
  <2>1. \A b \in Branches, n \in BOOLEAN : StartPoint(b, n) \in Refs
    BY RefFacts DEF StartPoint
  <2>2. /\ UNCHANGED remoteRefs
        /\ \/ localRefs' = localRefs
           \/ \E b, n : localRefs' = [localRefs EXCEPT ![b] = StartPoint(b, n)] /\ n \in BOOLEAN
    BY <1>2 DEF EnsureWorkspace
  <2>3. localRefs' \in [Branches -> Refs] BY <2>1, <2>2
  <2>4. originRefs' = remoteRefs /\ fetched' \subseteq Foreigners
    BY <1>1, <1>2 DEF EnsureWorkspace, FetchPool
  <2> QED BY <2>2, <2>3, <2>4
<1>3. CASE OtherTaskFetches
  <2>1. originRefs' = remoteRefs /\ fetched' \subseteq Foreigners
    BY <1>1, <1>3 DEF OtherTaskFetches, FetchPool
  <2>2. UNCHANGED <<localRefs, remoteRefs>> BY <1>3 DEF OtherTaskFetches, onGitHub
  <2> QED BY <2>1, <2>2
<1>4. ASSUME NEW t \in {"issue", "pull"}, AgentCommits(t)
      PROVE  RefsTyped'
  <2>1. checkout \in Branches BY <1>4 DEF AgentCommits, AuthInv, WorkTyped
  <2>2. PICK c \in localRefs[checkout], theirs \in {{}, ForeignIn(originRefs[checkout])} :
            localRefs' = [localRefs EXCEPT ![checkout] =
                            {[own |-> TRUE, foreign |-> c.foreign \union theirs]}]
    BY <1>4 DEF AgentCommits, Tip
  <2> DEFINE ref == {[own |-> TRUE, foreign |-> c.foreign \union theirs]}
  <2>3. c.foreign \subseteq Foreigners BY <2>1, RefFacts DEF Commit
  <2>4. c.foreign \union theirs \in SUBSET Foreigners BY <2>1, <2>3, RefFacts
  <2>5. ref \in Refs BY <2>4, RefFacts
  <2>6. localRefs' = [localRefs EXCEPT ![checkout] = ref] BY <2>2
  <2>7. UNCHANGED <<originRefs, remoteRefs, fetched>> BY <1>4 DEF AgentCommits
  <2> HIDE DEF ref
  <2> QED BY <2>5, <2>6, <2>7
<1>5. ASSUME NEW t \in {"issue", "pull"}, NEW c \in Classes, NEW r \in BOOLEAN, NEW l \in BOOLEAN,
             ClassifyIssue(t, c, r, l)
      PROVE  RefsTyped'
  <2>1. UNCHANGED <<originRefs, remoteRefs, fetched>> BY <1>5 DEF ClassifyIssue
  <2>2. \/ localRefs' = localRefs
        \/ localRefs' = [localRefs EXCEPT !["renamed"] = localRefs["titled"], !["titled"] = {}]
    BY Zenon, <1>5 DEF ClassifyIssue, RenameBranch
  <2> QED BY <2>1, <2>2, RefFacts DEF Branches
<1>6. ASSUME NEW t \in {"issue", "pull"}, NEW r \in BOOLEAN, GuardedPush(t, r)
      PROVE  RefsTyped'
  <2>1. /\ checkout \in Branches
        /\ UNCHANGED <<localRefs, fetched>>
        /\ remoteRefs' = [remoteRefs EXCEPT ![threads[t].branch] = localRefs[checkout]]
        /\ \/ originRefs' = originRefs
           \/ originRefs' = [originRefs EXCEPT ![threads[t].branch] = localRefs[checkout]]
    BY <1>6 DEF GuardedPush, Tip, AuthInv, WorkTyped
  <2> QED BY <2>1
<1>7. ASSUME NEW b \in Branches, NEW f \in Foreigners, ForeignPush(b, f)
      PROVE  RefsTyped'
  <2> DEFINE ref == {[own |-> c.own, foreign |-> c.foreign \union {f}] : c \in remoteRefs[b]}
  <2>1. ref \in Refs BY RefFacts
  <2>2. remoteRefs' = [remoteRefs EXCEPT ![b] = ref] BY <1>7 DEF ForeignPush
  <2>3. UNCHANGED <<localRefs, originRefs, fetched>> BY <1>7 DEF ForeignPush
  <2> HIDE DEF ref
  <2> QED BY <2>1, <2>2, <2>3
<1>8. ASSUME NEW n \in PullIds, NEW d \in BOOLEAN, ClosePull(n, d)
      PROVE  RefsTyped'
  BY <1>8, RefFacts DEF ClosePull
<1>9. ASSUME UNCHANGED <<localRefs, originRefs, remoteRefs, fetched>>
      PROVE  RefsTyped'
  BY <1>9
<1>10. \/ UNCHANGED <<localRefs, originRefs, remoteRefs, fetched>>
       \/ \E t \in {"issue", "pull"} :
             \/ EnsureWorkspace(t) \/ AgentCommits(t)
             \/ \E c \in Classes, r, l \in BOOLEAN : ClassifyIssue(t, c, r, l)
             \/ \E r \in BOOLEAN : GuardedPush(t, r)
       \/ OtherTaskFetches
       \/ \E b \in Branches, f \in Foreigners : ForeignPush(b, f)
       \/ \E n \in PullIds, d \in BOOLEAN : ClosePull(n, d)
  BY DEF WorkNext, Handlers, Tools, People, RecordDirective, TriageIssue, HandleComment,
         HandleReview, HandlePrConversation, StartTask, CleanupWorkspace, FinishCleanup, EndTask,
         PrePublish, GateRefuses, CreatePull, RecordPull, MarkUnable, AbortTask
<1> QED BY <1>2, <1>3, <1>4, <1>5, <1>6, <1>7, <1>8, <1>9, <1>10

\* The rest of the types: the count of tasks, the first class, the record of a
\* directive, and the pull requests.
LEMMA StepWorkSides ==
    ASSUME AuthInv, WorkSides, WorkFlags, [WorkNext]_workVars
    PROVE  WorkSides' /\ WorkFlags'
<1>1. WorkSides'
  <2>1. \/ starts' = starts
        \/ starts < MaxStarts /\ starts' = starts + 1
    BY DEF WorkNext, Handlers, Tools, People, RecordDirective, TriageIssue, HandleComment,
           HandleReview, HandlePrConversation, StartTask, CleanupWorkspace, FinishCleanup, EndTask,
           EnsureWorkspace, OtherTaskFetches, AgentCommits, ClassifyIssue, GuardedPush,
           PrePublish, GateRefuses, CreatePull, RecordPull, MarkUnable, AbortTask,
           ForeignPush, ClosePull
  <2>2. \/ firstClass' = firstClass
        \/ firstClass' \in Classes
    BY DEF WorkNext, Handlers, Tools, People, RecordDirective, TriageIssue, HandleComment,
           HandleReview, HandlePrConversation, StartTask, CleanupWorkspace, FinishCleanup, EndTask,
           EnsureWorkspace, OtherTaskFetches, AgentCommits, ClassifyIssue, GuardedPush,
           PrePublish, GateRefuses, CreatePull, RecordPull, MarkUnable, AbortTask,
           ForeignPush, ClosePull
  <2> QED BY <2>1, <2>2, WorkAssumption DEF WorkSides
<1>2. authorized' \in BOOLEAN
  <2>1. authorized' = authorized \/ authorized' = TRUE
    BY Zenon DEF WorkNext, Handlers, Tools, People, RecordDirective, TriageIssue, HandleComment,
           HandleReview, HandlePrConversation, StartTask, CleanupWorkspace, FinishCleanup, EndTask,
           EnsureWorkspace, OtherTaskFetches, AgentCommits, ClassifyIssue, GuardedPush,
           PrePublish, GateRefuses, CreatePull, RecordPull, MarkUnable, AbortTask,
           ForeignPush, ClosePull
  <2> QED BY Zenon, <2>1 DEF WorkFlags
<1>3. pulls' \in [PullIds -> [head : Branches \union {NoBranch}, open : BOOLEAN]]
  <2>1. ASSUME NEW t \in {"issue", "pull"}, NEW n \in PullIds, CreatePull(t, n)
        PROVE  pulls' \in [PullIds -> [head : Branches \union {NoBranch}, open : BOOLEAN]]
    <3>1. threads[t].branch \in Branches \union {NoBranch} BY DEF AuthInv, WorkTyped, Tasks, Task
    <3>2. pulls' = [pulls EXCEPT ![n] = [head |-> threads[t].branch, open |-> TRUE]]
      BY <2>1 DEF CreatePull
    <3> QED BY <3>1, <3>2 DEF WorkFlags
  <2>2. ASSUME NEW n \in PullIds, NEW d \in BOOLEAN, ClosePull(n, d)
        PROVE  pulls' \in [PullIds -> [head : Branches \union {NoBranch}, open : BOOLEAN]]
    BY <2>2 DEF ClosePull, WorkFlags
  <2>3. \/ pulls' = pulls
        \/ \E t \in {"issue", "pull"}, n \in PullIds : CreatePull(t, n)
        \/ \E n \in PullIds, d \in BOOLEAN : ClosePull(n, d)
    BY DEF WorkNext, Handlers, Tools, People, RecordDirective, TriageIssue, HandleComment,
           HandleReview, HandlePrConversation, StartTask, CleanupWorkspace, FinishCleanup, EndTask,
           EnsureWorkspace, OtherTaskFetches, AgentCommits, ClassifyIssue, GuardedPush,
           PrePublish, GateRefuses, RecordPull, MarkUnable, AbortTask, ForeignPush
  <2> QED BY <2>1, <2>2, <2>3 DEF WorkFlags
<1> QED BY <1>1, <1>2, <1>3 DEF WorkFlags

\* The variables of the model stay in their types.
THEOREM WorkTypes == WorkSpec => []WorkTypeOK
<1> DEFINE Inv == AuthInv /\ RefsTyped /\ WorkSides /\ WorkFlags
<1>1. WorkInit => Inv
  <2> SUFFICES ASSUME WorkInit
               PROVE  RefsTyped /\ WorkSides /\ WorkFlags
    BY InitAuth
  <2>1. RefsTyped BY RefFacts DEF WorkInit, RefsTyped
  <2>2. WorkSides BY WorkAssumption DEF WorkInit, WorkSides
  <2>3. WorkFlags BY DEF WorkInit, WorkFlags
  <2> QED BY <2>1, <2>2, <2>3
<1>2. Inv /\ [WorkNext]_workVars => Inv'
  BY StepWorkTyped, StepBacked, StepRefs, StepWorkSides DEF AuthInv
<1>3. Inv => WorkTypeOK
  <2> SUFFICES ASSUME Inv
               PROVE  WorkTypeOK
    OBVIOUS
  <2>1. \A refs \in {localRefs, originRefs, remoteRefs} :
            /\ refs \in [Branches -> SUBSET Commit]
            /\ \A b \in Branches : Cardinality(refs[b]) <= 1
    BY RefFacts DEF RefsTyped
  <2>2. \A t \in {"issue", "pull"} : threads[t] \in Task BY DEF AuthInv, WorkTyped, Tasks
  <2>3. issueRow \in Row /\ checkout \in Branches \union {NoBranch} BY DEF AuthInv, WorkTyped
  <2>4. fetched \subseteq Foreigners BY DEF RefsTyped
  <2> HIDE DEF Inv
  <2> QED BY Zenon, <2>1, <2>2, <2>3, <2>4, Inv DEF Inv, WorkTypeOK, WorkSides, WorkFlags, Row, Task
<1> QED BY <1>1, <1>2, <1>3, PTL DEF WorkSpec

-----------------------------------------------------------------------------
(* ReleaseTrain.                                                           *)

ReleaseRow == [state : {"none", "awaiting_ci", "fixing"} \union Terminal,
               sha : 0 .. MaxShas, failed : 0 .. MaxShas, rounds : Nat]

SentinelTask == [phase : {"idle", "verdict", "workspace", "agent", "push", "record"},
                 tag : Tags \union {NoTag}, sha : 0 .. MaxShas, fix : 0 .. MaxShas]

TrainTyped ==
    /\ releases \in [Tags -> ReleaseRow]
    /\ tagSha \in [Tags -> 0 .. MaxShas]
    /\ releaseOf \in [Shas -> Tags \union {NoTag}]
    /\ mainSha \in 0 .. MaxShas
    /\ sentinel \in SentinelTask
    /\ failedShas \in [Tags -> SUBSET Shas]

\* The Boolean of a verdict is kept apart from the rest.
Judged == verdicts \in [Shas -> [done : SUBSET Conclusions, running : BOOLEAN]]

\* A task works for one release, and no other is active meanwhile.
OneRelease ==
    /\ sentinel.phase # "idle" =>
        /\ sentinel.tag \in Tags
        /\ \A u \in Tags : u # sentinel.tag => ~IsActive(releases[u])
    /\ \A t, u \in Tags : IsActive(releases[t]) /\ IsActive(releases[u]) => t = u

\* The commit a tag is on has failed before only if its round is under way or
\* the release is over.  Tags move to fresh commits, so a tag that was moved
\* is on a commit that has not failed; the row may say "awaiting_ci" again
\* only then.
Fresh ==
    /\ \A t \in Tags : tagSha[t] <= mainSha /\ \A s \in failedShas[t] : s <= mainSha
    /\ sentinel.phase = "record" => tagSha[sentinel.tag] \notin failedShas[sentinel.tag]
    /\ \A t \in Tags : tagSha[t] \in failedShas[t] =>
            \/ releases[t].state \in Terminal
            \/ releases[t].state = "fixing" /\ releases[t].failed = tagSha[t]

ReleaseInv == TrainTyped /\ OneRelease /\ Fresh /\ OneRoundPerFailure

-----------------------------------------------------------------------------
USE DEF releaseVars, actions

\* Before the first event there are no rows and no rounds.
LEMMA InitRelease == ReleaseInit => ReleaseInv /\ Judged
<1> SUFFICES ASSUME ReleaseInit
             PROVE  ReleaseInv /\ Judged
  OBVIOUS
<1>a. /\ releases = [t \in Tags |-> [state |-> "none", sha |-> 0, failed |-> 0, rounds |-> 0]]
      /\ tagSha = [t \in Tags |-> 0] /\ releaseOf = [s \in Shas |-> NoTag]
      /\ mainSha = 0 /\ sentinel = Asleep /\ failedShas = [t \in Tags |-> {}]
  BY Zenon DEF ReleaseInit
<1>1. TrainTyped BY <1>a, ReleaseAssumption DEF TrainTyped, ReleaseRow, SentinelTask, Asleep
<1>2. OneRelease BY <1>a DEF OneRelease, IsActive, Asleep
<1>3. Fresh BY <1>a DEF Fresh, Asleep
<1>4. OneRoundPerFailure BY <1>a, FS_EmptySet DEF OneRoundPerFailure
<1>5. Judged
  <2>1. verdicts = [s \in Shas |-> [done |-> {}, running |-> TRUE]] BY Zenon DEF ReleaseInit
  <2>2. [done |-> {}, running |-> TRUE] \in [done : SUBSET Conclusions, running : BOOLEAN]
    BY Zenon
  <2> QED BY Zenon, <2>1, <2>2 DEF Judged
<1> QED BY <1>1, <1>2, <1>3, <1>4, <1>5 DEF ReleaseInv

\* Verdicts are added to, one run after the other.
LEMMA StepJudged ==
    ASSUME Judged, [ReleaseNext]_releaseVars
    PROVE  Judged'
<1> USE DEF Judged
<1>1. ASSUME NEW g \in Tags \union {NoTag}, PersonCommits(g)
      PROVE  Judged'
  BY Zenon, <1>1 DEF PersonCommits
<1>2. ASSUME NEW s \in Shas, NEW c \in Conclusions, RunCompletes(s, c)
      PROVE  Judged'
  <2> DEFINE v == [done |-> verdicts[s].done \union {c}, running |-> verdicts[s].done = {}]
  <2>1. v.done \in SUBSET Conclusions BY <1>2 DEF RunCompletes
  <2>2. v \in [done : SUBSET Conclusions, running : BOOLEAN] BY Zenon, <2>1
  <2>3. verdicts' = [verdicts EXCEPT ![s] = v] BY Zenon, <1>2 DEF RunCompletes
  <2> QED BY Zenon, <2>2, <2>3
<1>3. ASSUME NEW s \in Shas, NEW c \in Conclusions, HandleReleaseCi(s, c)
      PROVE  Judged'
  BY Zenon, <1>3 DEF HandleReleaseCi
<1>4. ASSUME NEW p \in BOOLEAN, Conclude(p)
      PROVE  Judged'
  BY Zenon, <1>4 DEF Conclude
<1>5. CASE EnsureReleaseWorkspace BY Zenon, <1>5 DEF EnsureReleaseWorkspace
<1>6. CASE ReleaseRetag BY Zenon, <1>6 DEF ReleaseRetag
<1>7. CASE PushRelease BY Zenon, <1>7 DEF PushRelease
<1>8. CASE PushRefused BY Zenon, <1>8 DEF PushRefused
<1>9. CASE RecordRetag BY Zenon, <1>9 DEF RecordRetag
<1>10. ASSUME NEW a \in BOOLEAN, RoundEnds(a)
      PROVE  Judged'
  BY Zenon, <1>10 DEF RoundEnds
<1>11. CASE SentinelDies BY Zenon, <1>11 DEF SentinelDies
<1>12. CASE UNCHANGED releaseVars BY Zenon, <1>12
<1> QED
  BY <1>1, <1>2, <1>3, <1>4, <1>5, <1>6, <1>7, <1>8, <1>9,
     <1>10, <1>11, <1>12 DEF ReleaseNext

\* The rows before a conclusion is looked at: other releases are over, and
\* the row of the event has the state, the failure and the rounds it had.
LEMMA EventRows ==
    ASSUME TrainTyped, NEW t \in Tags, NEW s \in Shas
    PROVE  /\ RowsForEvent(t, s) \in [Tags -> ReleaseRow]
           /\ \A u \in Tags : /\ RowsForEvent(t, s)[u].rounds = releases[u].rounds
                              /\ RowsForEvent(t, s)[u].failed = releases[u].failed
                              /\ u # t => ~IsActive(RowsForEvent(t, s)[u])
                              /\ releases[u].state \in Terminal =>
                                    RowsForEvent(t, s)[u].state \in Terminal
                              /\ releases[u].state = "fixing" =>
                                    RowsForEvent(t, s)[u].state \in Terminal \union {"fixing"}
<1> USE DEF TrainTyped
<1>1. s \in 0 .. MaxShas BY ReleaseAssumption DEF Shas
<1>2. ASSUME NEW u \in Tags
      PROVE  /\ RowsForEvent(t, s)[u] \in ReleaseRow
             /\ RowsForEvent(t, s)[u].rounds = releases[u].rounds
             /\ RowsForEvent(t, s)[u].failed = releases[u].failed
             /\ u # t => ~IsActive(RowsForEvent(t, s)[u])
             /\ releases[u].state \in Terminal => RowsForEvent(t, s)[u].state \in Terminal
             /\ releases[u].state = "fixing" =>
                    RowsForEvent(t, s)[u].state \in Terminal \union {"fixing"}
  <2> DEFINE r == RowsForEvent(t, s)[u]
  <2>1. releases[u] \in ReleaseRow OBVIOUS
  <2>2. CASE u # t /\ IsActive(releases[u])
    <3>1. r = [releases[u] EXCEPT !.state = "superseded"] BY <2>2 DEF RowsForEvent
    <3> QED BY <2>1, <2>2, <3>1 DEF ReleaseRow, IsActive, Terminal
  <2>3. CASE u # t /\ ~IsActive(releases[u])
    <3>1. r = releases[u] BY <2>3 DEF RowsForEvent
    <3> QED BY <2>1, <2>3, <3>1 DEF IsActive
  <2>4. CASE u = t
    <3>1. \/ releases[u].state = "none" /\ r = [releases[u] EXCEPT !.state = "awaiting_ci", !.sha = s]
          \/ releases[u].state \in Terminal /\ r = releases[u]
          \/ r = [releases[u] EXCEPT !.sha = s]
      BY <2>4 DEF RowsForEvent
    <3> QED BY <1>1, <2>1, <2>4, <3>1 DEF ReleaseRow, Terminal
  <2> QED BY <2>2, <2>3, <2>4
<1>3. RowsForEvent(t, s) = [u \in Tags |-> RowsForEvent(t, s)[u]] BY DEF RowsForEvent
<1> QED BY <1>2, <1>3


\* A task falls asleep or goes on with its release.
LEMMA TaskTypes ==
    ASSUME NEW k \in SentinelTask
    PROVE  /\ Asleep \in SentinelTask
           /\ [k EXCEPT !.phase = "agent"] \in SentinelTask
           /\ \A fix \in 0 .. MaxShas :
                [k EXCEPT !.phase = "record", !.fix = fix] \in SentinelTask
<1>1. Asleep \in SentinelTask BY ReleaseAssumption DEF SentinelTask, Asleep
<1>2. [k EXCEPT !.phase = "agent"] \in SentinelTask BY DEF SentinelTask
<1>3. ASSUME NEW fix \in 0 .. MaxShas
      PROVE  [k EXCEPT !.phase = "record", !.fix = fix] \in SentinelTask
  BY DEF SentinelTask
<1> QED BY <1>1, <1>2, <1>3

\* A round makes a row from a row.
LEMMA RoundTypes ==
    ASSUME NEW r \in ReleaseRow, NEW s \in 0 .. MaxShas
    PROVE  [r EXCEPT !.state = "fixing", !.failed = s, !.rounds = @ + 1] \in ReleaseRow
<1> DEFINE n == r.rounds + 1
<1>1. n \in Nat BY DEF ReleaseRow
<1>2. [r EXCEPT !.state = "fixing", !.failed = s, !.rounds = @ + 1]
        = [r EXCEPT !.state = "fixing", !.failed = s, !.rounds = n]
  OBVIOUS
<1> HIDE DEF n
<1>3. [r EXCEPT !.state = "fixing", !.failed = s, !.rounds = n] \in ReleaseRow
  BY <1>1 DEF ReleaseRow
<1> QED BY <1>2, <1>3

\* The steps that conclude the work on a release leave its row as it is or
\* make it terminal, and change no other.
Settled ==
    /\ UNCHANGED <<tagSha, releaseOf, mainSha, failedShas>>
    /\ sentinel.phase # "idle"
    /\ sentinel' = Asleep \/ sentinel' = [sentinel EXCEPT !.phase = "agent"]
    /\ releases' \in [Tags -> ReleaseRow]
    /\ \A u \in Tags : /\ releases'[u].rounds = releases[u].rounds
                       /\ releases'[u].failed = releases[u].failed
                       /\ releases'[u] = releases[u] \/ releases'[u].state \in Terminal

\* Conclude, RoundEnds and EnsureReleaseWorkspace are such steps.
LEMMA ConcludingSteps ==
    ASSUME TrainTyped, OneRelease,
           \/ \E p \in BOOLEAN : Conclude(p) \/ RoundEnds(p)
           \/ EnsureReleaseWorkspace
    PROVE  Settled
<1>1. /\ UNCHANGED <<tagSha, releaseOf, mainSha, failedShas>>
      /\ sentinel.phase # "idle"
      /\ sentinel' = Asleep \/ sentinel' = [sentinel EXCEPT !.phase = "agent"]
      /\ \/ releases' = releases
         \/ releases' = [releases EXCEPT ![sentinel.tag].state = "green"]
         \/ releases' = [releases EXCEPT ![sentinel.tag].state = "failed"]
  BY Zenon DEF Conclude, RoundEnds, EnsureReleaseWorkspace, SetState, Sleep
<1>2. sentinel.tag \in Tags BY <1>1 DEF OneRelease
<1>3. releases' \in [Tags -> ReleaseRow] BY <1>1, <1>2 DEF TrainTyped, ReleaseRow, Terminal
<1>4. ASSUME NEW u \in Tags
      PROVE  /\ releases'[u].rounds = releases[u].rounds
             /\ releases'[u].failed = releases[u].failed
             /\ releases'[u] = releases[u] \/ releases'[u].state \in Terminal
  BY <1>1, <1>2 DEF TrainTyped, ReleaseRow, Terminal
<1> QED BY <1>1, <1>3, <1>4 DEF Settled

\* Every step keeps the types.
LEMMA StepTrainTyped ==
    ASSUME ReleaseInv, [ReleaseNext]_releaseVars
    PROVE  TrainTyped'
<1> USE ReleaseAssumption DEF ReleaseInv, TrainTyped, OneRelease, SentinelTask, Wake, Sleep, Asleep, Shas
<1>1. ASSUME NEW g \in Tags \union {NoTag}, PersonCommits(g)
      PROVE  TrainTyped'
  BY <1>1 DEF PersonCommits
<1>2. ASSUME NEW s \in Shas, NEW c \in Conclusions, RunCompletes(s, c)
      PROVE  TrainTyped'
  BY <1>2 DEF RunCompletes
<1>3. ASSUME NEW s \in Shas, NEW c \in Conclusions, HandleReleaseCi(s, c)
      PROVE  TrainTyped'
  <2> DEFINE t == releaseOf[s]
             rows == RowsForEvent(t, s)
  <2>1. t \in Tags BY <1>3 DEF HandleReleaseCi, IsCurrent
  <2>2. rows \in [Tags -> ReleaseRow]
    BY <2>1, EventRows
  <2>3. sentinel.phase = "idle" /\ UNCHANGED <<tagSha, releaseOf, mainSha>>
    BY <1>3 DEF HandleReleaseCi
  <2>4. failedShas' \in [Tags -> SUBSET Shas]
    <3>1. UNCHANGED failedShas \/ failedShas' = [failedShas EXCEPT ![t] = @ \union {s}]
      BY <1>3 DEF HandleReleaseCi
    <3> QED BY <2>1, <3>1
  <2>5. UNCHANGED sentinel \/ \E ph \in {"verdict", "workspace"} :
            sentinel' = [phase |-> ph, tag |-> t, sha |-> s, fix |-> 0]
    BY <1>3 DEF HandleReleaseCi
  <2>6. \/ releases' = rows
        \/ releases' = [rows EXCEPT ![t].state = "failed"]
        \/ releases' = [rows EXCEPT ![t] =
                [rows[t] EXCEPT !.state = "fixing", !.failed = s, !.rounds = @ + 1]]
    BY Zenon, <1>3 DEF HandleReleaseCi
  <2> HIDE DEF t, rows
  <2>7. releases' \in [Tags -> ReleaseRow]
    <3>1. rows[t] \in ReleaseRow BY <2>1, <2>2
    <3>2. s \in 0 .. MaxShas OBVIOUS
    <3>3. [rows[t] EXCEPT !.state = "failed"] \in ReleaseRow
      BY <3>1 DEF ReleaseRow, Terminal
    <3>4. [rows[t] EXCEPT !.state = "fixing", !.failed = s, !.rounds = @ + 1] \in ReleaseRow
      BY <3>1, <3>2, RoundTypes
    <3> QED BY <2>1, <2>2, <2>6, <3>3, <3>4
  <2>8. sentinel' \in SentinelTask
    BY <2>1, <2>5
  <2> QED BY <2>3, <2>4, <2>7, <2>8
<1>4. ASSUME NEW p \in BOOLEAN, Conclude(p)
      PROVE  TrainTyped'
  <2>1. Settled BY <1>4, ConcludingSteps
  <2>2. sentinel' \in SentinelTask
    BY Zenon, <2>1, TaskTypes DEF Settled, ReleaseInv, TrainTyped
  <2> QED BY Zenon, <2>1, <2>2 DEF Settled
<1>5. CASE EnsureReleaseWorkspace
  <2>1. Settled BY <1>5, ConcludingSteps
  <2>2. sentinel' \in SentinelTask
    BY Zenon, <2>1, TaskTypes DEF Settled, ReleaseInv, TrainTyped
  <2> QED BY Zenon, <2>1, <2>2 DEF Settled
<1>6. CASE ReleaseRetag BY <1>6 DEF ReleaseRetag
<1>7. CASE PushRelease
  <2>1. sentinel.tag \in Tags BY <1>7 DEF PushRelease
  <2>2. mainSha + 1 \in 1 .. MaxShas BY <1>7 DEF PushRelease
  <2>3. sentinel' \in SentinelTask
    <3>1. sentinel' = [sentinel EXCEPT !.phase = "record", !.fix = mainSha + 1]
      BY Zenon, <1>7 DEF PushRelease
    <3>2. mainSha + 1 \in 0 .. MaxShas BY <2>2
    <3> QED BY Zenon, <3>1, <3>2, TaskTypes DEF ReleaseInv, TrainTyped
  <2>4. tagSha' \in [Tags -> 0 .. MaxShas] BY <1>7, <2>1, <2>2 DEF PushRelease
  <2>5. releaseOf' \in [Shas -> Tags \union {NoTag}] BY <1>7, <2>1, <2>2 DEF PushRelease
  <2> QED BY <1>7, <2>3, <2>2, <2>4, <2>5 DEF PushRelease
<1>8. CASE PushRefused BY <1>8 DEF PushRefused
<1>9. CASE RecordRetag
  <2>1. sentinel' \in SentinelTask
    BY <1>9 DEF RecordRetag
  <2>2. sentinel.tag \in Tags /\ sentinel.fix \in 0 .. MaxShas BY <1>9 DEF RecordRetag
  <2>3. [releases[sentinel.tag] EXCEPT !.sha = sentinel.fix, !.state = "awaiting_ci"] \in ReleaseRow
    <3>1. releases[sentinel.tag] \in ReleaseRow BY <2>2
    <3> QED BY ONLY <3>1, <2>2 DEF ReleaseRow, Terminal
  <2>4. releases' \in [Tags -> ReleaseRow] BY <1>9, <2>2, <2>3 DEF RecordRetag
  <2> QED BY <1>9, <2>1, <2>4 DEF RecordRetag
<1>10. ASSUME NEW a \in BOOLEAN, RoundEnds(a)
      PROVE  TrainTyped'
  <2>1. Settled BY <1>10, ConcludingSteps
  <2>2. sentinel' \in SentinelTask
    BY Zenon, <2>1, TaskTypes DEF Settled, ReleaseInv, TrainTyped
  <2> QED BY Zenon, <2>1, <2>2 DEF Settled
<1>11. CASE SentinelDies BY <1>11 DEF SentinelDies
<1>12. CASE UNCHANGED releaseVars BY <1>12
<1> QED
  BY <1>1, <1>2, <1>3, <1>4, <1>5, <1>6, <1>7, <1>8, <1>9,
     <1>10, <1>11, <1>12 DEF ReleaseNext

\* Such a step ends a release or nothing, so no other becomes active.
LEMMA SettledKeepsOneRelease ==
    ASSUME TrainTyped, OneRelease, Settled
    PROVE  OneRelease'
<1>1. \A u \in Tags : IsActive(releases'[u]) => IsActive(releases[u])
  BY DEF Settled, IsActive, Terminal
<1>2. sentinel'.phase # "idle" => sentinel'.tag = sentinel.tag \/ sentinel' = Asleep
  BY DEF Settled, TrainTyped, SentinelTask
<1>3. Asleep.phase = "idle" BY DEF Asleep
<1>4. sentinel.phase # "idle" BY DEF Settled
<1> QED BY <1>1, <1>2, <1>3, <1>4 DEF OneRelease

\* Every step keeps at most one release active.
LEMMA StepOneRelease ==
    ASSUME ReleaseInv, [ReleaseNext]_releaseVars
    PROVE  OneRelease'
<1> USE DEF ReleaseInv, TrainTyped, OneRelease, SentinelTask, IsActive, Terminal, Wake, Sleep, Asleep
<1>1. ASSUME NEW g \in Tags \union {NoTag}, PersonCommits(g)
      PROVE  OneRelease'
  BY <1>1 DEF PersonCommits
<1>2. ASSUME NEW s \in Shas, NEW c \in Conclusions, RunCompletes(s, c)
      PROVE  OneRelease'
  BY <1>2 DEF RunCompletes
<1>3. ASSUME NEW s \in Shas, NEW c \in Conclusions, HandleReleaseCi(s, c)
      PROVE  OneRelease'
  <2> DEFINE t == releaseOf[s]
             rows == RowsForEvent(t, s)
  <2>1. t \in Tags BY <1>3 DEF HandleReleaseCi, IsCurrent
  <2>2. \A u \in Tags : u # t => ~IsActive(rows[u]) BY <2>1, EventRows
  <2>3. DOMAIN rows = Tags BY DEF RowsForEvent
  <2>4. \A u \in Tags : u # t => ~IsActive(releases'[u])
    BY <1>3, <2>1, <2>2, <2>3 DEF HandleReleaseCi
  <2>5. UNCHANGED sentinel \/ sentinel'.tag = t BY <1>3 DEF HandleReleaseCi
  <2>6. sentinel.phase = "idle" BY <1>3 DEF HandleReleaseCi
  <2> HIDE DEF t, rows
  <2> QED BY <2>1, <2>4, <2>5, <2>6
<1>4. ASSUME NEW p \in BOOLEAN, Conclude(p)
      PROVE  OneRelease'
  <2>1. Settled BY <1>4, ConcludingSteps
  <2> QED BY ONLY <2>1, ReleaseInv, SettledKeepsOneRelease DEF ReleaseInv
<1>5. CASE EnsureReleaseWorkspace
  <2>1. Settled BY <1>5, ConcludingSteps
  <2> QED BY ONLY <2>1, ReleaseInv, SettledKeepsOneRelease DEF ReleaseInv
<1>6. CASE ReleaseRetag BY <1>6 DEF ReleaseRetag
<1>7. CASE PushRelease BY <1>7 DEF PushRelease
<1>8. CASE PushRefused BY <1>8 DEF PushRefused
<1>9. CASE RecordRetag BY <1>9 DEF RecordRetag
<1>10. ASSUME NEW a \in BOOLEAN, RoundEnds(a)
      PROVE  OneRelease'
  <2>1. Settled BY <1>10, ConcludingSteps
  <2> QED BY ONLY <2>1, ReleaseInv, SettledKeepsOneRelease DEF ReleaseInv
<1>11. CASE SentinelDies BY <1>11 DEF SentinelDies
<1>12. CASE UNCHANGED releaseVars BY <1>12
<1> QED
  BY <1>1, <1>2, <1>3, <1>4, <1>5, <1>6, <1>7, <1>8, <1>9,
     <1>10, <1>11, <1>12 DEF ReleaseNext

\* Every step keeps Fresh.
LEMMA StepFresh ==
    ASSUME ReleaseInv, [ReleaseNext]_releaseVars
    PROVE  Fresh'
<1> USE ReleaseAssumption DEF ReleaseInv, TrainTyped, OneRelease, SentinelTask, Fresh, Wake, Sleep, Asleep, Terminal, Shas
<1>1. ASSUME NEW g \in Tags \union {NoTag}, PersonCommits(g)
      PROVE  Fresh'
  BY <1>1 DEF PersonCommits
<1>2. ASSUME NEW s \in Shas, NEW c \in Conclusions, RunCompletes(s, c)
      PROVE  Fresh'
  BY <1>2 DEF RunCompletes
<1>3. ASSUME NEW s \in Shas, NEW c \in Conclusions, HandleReleaseCi(s, c)
      PROVE  Fresh'
  <2> DEFINE t == releaseOf[s]
             rows == RowsForEvent(t, s)
  <2>1. t \in Tags /\ tagSha[t] = s /\ sentinel.phase = "idle" /\ UNCHANGED <<tagSha, mainSha>>
    BY <1>3 DEF HandleReleaseCi, IsCurrent
  <2>2. /\ \A u \in Tags : /\ rows[u].failed = releases[u].failed
                           /\ releases[u].state \in Terminal => rows[u].state \in Terminal
                           /\ releases[u].state = "fixing" =>
                                 rows[u].state \in Terminal \union {"fixing"}
        /\ rows \in [Tags -> ReleaseRow]
    BY <2>1, EventRows
  <2>3. \/ /\ UNCHANGED failedShas
           /\ releases' = rows \/ releases' = [rows EXCEPT ![t].state = "failed"]
        \/ /\ rows[t].state \notin Terminal /\ ~RoundUnderWay(rows[t], s)
           /\ releases' = [rows EXCEPT ![t] =
                    [rows[t] EXCEPT !.state = "fixing", !.failed = s, !.rounds = @ + 1]]
           /\ failedShas' = [failedShas EXCEPT ![t] = @ \union {s}]
    BY Zenon, <1>3 DEF HandleReleaseCi
  <2>4. sentinel'.phase # "record" BY <1>3, <2>1 DEF HandleReleaseCi
  <2>5. s <= mainSha BY <2>1
  <2> HIDE DEF t, rows
  <2>6. CASE UNCHANGED failedShas /\ (releases' = rows \/ releases' = [rows EXCEPT ![t].state = "failed"])
    <3>0. rows[t] \in ReleaseRow BY <2>1, <2>2
    <3>1. \A u \in Tags : releases'[u] = rows[u] \/ releases'[u].state = "failed"
      BY ONLY <2>1, <2>2, <2>6, <3>0 DEF ReleaseRow, Terminal
    <3> QED BY <2>1, <2>2, <2>4, <2>6, <3>1
  <2>7. CASE /\ releases' = [rows EXCEPT ![t] =
                    [rows[t] EXCEPT !.state = "fixing", !.failed = s, !.rounds = @ + 1]]
             /\ failedShas' = [failedShas EXCEPT ![t] = @ \union {s}]
    <3>1. releases'[t].state = "fixing" /\ releases'[t].failed = s
      BY <2>1, <2>2, <2>7 DEF ReleaseRow
    <3>2. \A u \in Tags : u # t => releases'[u] = rows[u] /\ failedShas'[u] = failedShas[u]
      BY <2>1, <2>2, <2>7
    <3>3. failedShas'[t] = failedShas[t] \union {s} BY <2>1, <2>7
    <3>4. \A u \in Tags : tagSha'[u] \in failedShas'[u] =>
              \/ releases'[u].state \in Terminal
              \/ releases'[u].state = "fixing" /\ releases'[u].failed = tagSha'[u]
      BY <2>1, <2>2, <3>1, <3>2
    <3>5. \A u \in Tags : tagSha'[u] <= mainSha' /\ \A i \in failedShas'[u] : i <= mainSha'
      BY <2>1, <2>5, <3>2, <3>3
    <3> QED BY <2>4, <3>4, <3>5
  <2> QED BY <2>3, <2>6, <2>7
<1>4. ASSUME NEW p \in BOOLEAN, Conclude(p)
      PROVE  Fresh'
  <2>1. \A t \in Tags : tagSha'[t] <= mainSha' /\ \A s \in failedShas'[t] : s <= mainSha'
    BY <1>4, ConcludingSteps DEF Settled
  <2>2. sentinel'.phase = "record" => tagSha'[sentinel'.tag] \notin failedShas'[sentinel'.tag]
    BY <1>4, ConcludingSteps DEF Settled
  <2>3. \A t \in Tags : tagSha'[t] \in failedShas'[t] =>
            \/ releases'[t].state \in Terminal
            \/ releases'[t].state = "fixing" /\ releases'[t].failed = tagSha'[t]
    BY <1>4, ConcludingSteps DEF Settled
  <2> QED BY <2>1, <2>2, <2>3
<1>5. CASE EnsureReleaseWorkspace
  <2>1. \A t \in Tags : tagSha'[t] <= mainSha' /\ \A s \in failedShas'[t] : s <= mainSha'
    BY <1>5, ConcludingSteps DEF Settled
  <2>2. sentinel'.phase = "record" => tagSha'[sentinel'.tag] \notin failedShas'[sentinel'.tag]
    BY <1>5, ConcludingSteps DEF Settled
  <2>3. \A t \in Tags : tagSha'[t] \in failedShas'[t] =>
            \/ releases'[t].state \in Terminal
            \/ releases'[t].state = "fixing" /\ releases'[t].failed = tagSha'[t]
    BY <1>5, ConcludingSteps DEF Settled
  <2> QED BY <2>1, <2>2, <2>3
<1>6. CASE ReleaseRetag BY <1>6 DEF ReleaseRetag
<1>7. CASE PushRelease
  <2>1. \A t \in Tags : tagSha'[t] <= mainSha' /\ \A s \in failedShas'[t] : s <= mainSha'
    BY <1>7 DEF PushRelease
  <2>2. sentinel'.phase = "record" => tagSha'[sentinel'.tag] \notin failedShas'[sentinel'.tag]
    BY <1>7 DEF PushRelease
  <2>3. \A t \in Tags : tagSha'[t] \in failedShas'[t] =>
            \/ releases'[t].state \in Terminal
            \/ releases'[t].state = "fixing" /\ releases'[t].failed = tagSha'[t]
    BY <1>7 DEF PushRelease
  <2> QED BY <2>1, <2>2, <2>3
<1>8. CASE PushRefused BY <1>8 DEF PushRefused
<1>9. CASE RecordRetag
  <2>1. \A t \in Tags : tagSha'[t] <= mainSha' /\ \A s \in failedShas'[t] : s <= mainSha'
    BY <1>9 DEF RecordRetag
  <2>2. sentinel'.phase = "record" => tagSha'[sentinel'.tag] \notin failedShas'[sentinel'.tag]
    BY <1>9 DEF RecordRetag
  <2>3. \A t \in Tags : tagSha'[t] \in failedShas'[t] =>
            \/ releases'[t].state \in Terminal
            \/ releases'[t].state = "fixing" /\ releases'[t].failed = tagSha'[t]
    BY <1>9 DEF RecordRetag
  <2> QED BY <2>1, <2>2, <2>3
<1>10. ASSUME NEW a \in BOOLEAN, RoundEnds(a)
      PROVE  Fresh'
  <2>1. \A t \in Tags : tagSha'[t] <= mainSha' /\ \A s \in failedShas'[t] : s <= mainSha'
    BY <1>10, ConcludingSteps DEF Settled
  <2>2. sentinel'.phase = "record" => tagSha'[sentinel'.tag] \notin failedShas'[sentinel'.tag]
    BY <1>10, ConcludingSteps DEF Settled
  <2>3. \A t \in Tags : tagSha'[t] \in failedShas'[t] =>
            \/ releases'[t].state \in Terminal
            \/ releases'[t].state = "fixing" /\ releases'[t].failed = tagSha'[t]
    BY <1>10, ConcludingSteps DEF Settled
  <2> QED BY <2>1, <2>2, <2>3
<1>11. CASE SentinelDies BY <1>11 DEF SentinelDies
<1>12. CASE UNCHANGED releaseVars BY <1>12
<1> QED
  BY <1>1, <1>2, <1>3, <1>4, <1>5, <1>6, <1>7, <1>8, <1>9,
     <1>10, <1>11, <1>12 DEF ReleaseNext

\* A round is counted when, and only when, its commit joins those that failed.
LEMMA StepRounds ==
    ASSUME ReleaseInv, [ReleaseNext]_releaseVars
    PROVE  OneRoundPerFailure'
<1> USE DEF ReleaseInv, TrainTyped, OneRelease, OneRoundPerFailure
<1>1. ASSUME NEW g \in Tags \union {NoTag}, PersonCommits(g)
      PROVE  OneRoundPerFailure'
  BY <1>1 DEF PersonCommits
<1>2. ASSUME NEW s \in Shas, NEW c \in Conclusions, RunCompletes(s, c)
      PROVE  OneRoundPerFailure'
  BY <1>2 DEF RunCompletes
<1>3. ASSUME NEW s \in Shas, NEW c \in Conclusions, HandleReleaseCi(s, c)
      PROVE  OneRoundPerFailure'
  <2> DEFINE t == releaseOf[s]
             rows == RowsForEvent(t, s)
  <2>1. t \in Tags /\ tagSha[t] = s BY <1>3 DEF HandleReleaseCi, IsCurrent
  <2>2. /\ \A u \in Tags : rows[u].rounds = releases[u].rounds /\ rows[u].failed = releases[u].failed
        /\ rows \in [Tags -> ReleaseRow]
        /\ releases[t].state \in Terminal => rows[t].state \in Terminal
        /\ releases[t].state = "fixing" => rows[t].state \in Terminal \union {"fixing"}
    BY <2>1, EventRows
  <2>3. \/ /\ UNCHANGED failedShas
           /\ releases' = rows \/ releases' = [rows EXCEPT ![t].state = "failed"]
        \/ /\ rows[t].state \notin Terminal /\ ~RoundUnderWay(rows[t], s)
           /\ releases' = [rows EXCEPT ![t] =
                    [rows[t] EXCEPT !.state = "fixing", !.failed = s, !.rounds = @ + 1]]
           /\ failedShas' = [failedShas EXCEPT ![t] = @ \union {s}]
    BY Zenon, <1>3 DEF HandleReleaseCi
  <2>4. CASE UNCHANGED failedShas /\ (releases' = rows \/ releases' = [rows EXCEPT ![t].state = "failed"])
    <3> HIDE DEF t, rows
    <3>1. \A u \in Tags : releases'[u].rounds = rows[u].rounds
      BY <2>1, <2>2, <2>4 DEF ReleaseRow
    <3> QED BY <2>2, <2>4, <3>1
  <2>5. CASE /\ rows[t].state \notin Terminal /\ ~RoundUnderWay(rows[t], s)
             /\ releases' = [rows EXCEPT ![t] =
                    [rows[t] EXCEPT !.state = "fixing", !.failed = s, !.rounds = @ + 1]]
             /\ failedShas' = [failedShas EXCEPT ![t] = @ \union {s}]
    <3> HIDE DEF t, rows
    <3>2. s \notin failedShas[t]
      BY <2>1, <2>2, <2>5 DEF Fresh, RoundUnderWay
    <3>3. IsFiniteSet(failedShas[t])
      <4>1. IsFiniteSet(Shas) BY FS_Interval, ReleaseAssumption DEF Shas
      <4>2. failedShas[t] \subseteq Shas BY <2>1
      <4> QED BY <4>1, <4>2, FS_Subset
    <3>4. Cardinality(failedShas[t] \union {s}) = Cardinality(failedShas[t]) + 1
      BY <3>2, <3>3, FS_AddElement
    <3>5. releases'[t].rounds = rows[t].rounds + 1 BY <2>1, <2>2, <2>5 DEF ReleaseRow
    <3>6. \A u \in Tags : u # t => releases'[u].rounds = rows[u].rounds /\ failedShas'[u] = failedShas[u]
      BY <2>1, <2>2, <2>5
    <3>7. failedShas'[t] = failedShas[t] \union {s} BY <2>1, <2>5
    <3>8. ASSUME NEW u \in Tags
          PROVE  releases'[u].rounds = Cardinality(failedShas'[u])
      <4>1. CASE u = t BY <2>2, <3>4, <3>5, <3>7, <4>1
      <4>2. CASE u # t BY <2>2, <3>6, <4>2
      <4> QED BY <4>1, <4>2
    <3> QED BY <3>8
  <2> QED BY <2>3, <2>4, <2>5
<1>4. ASSUME NEW p \in BOOLEAN, Conclude(p)
      PROVE  OneRoundPerFailure'
  BY <1>4, ConcludingSteps DEF Settled
<1>5. CASE EnsureReleaseWorkspace BY <1>5, ConcludingSteps DEF Settled
<1>6. CASE ReleaseRetag BY <1>6 DEF ReleaseRetag
<1>7. CASE PushRelease BY <1>7 DEF PushRelease
<1>8. CASE PushRefused BY <1>8 DEF PushRefused
<1>9. CASE RecordRetag BY <1>9 DEF RecordRetag
<1>10. ASSUME NEW a \in BOOLEAN, RoundEnds(a)
      PROVE  OneRoundPerFailure'
  BY <1>10, ConcludingSteps DEF Settled
<1>11. CASE SentinelDies BY <1>11 DEF SentinelDies
<1>12. CASE UNCHANGED releaseVars BY <1>12
<1> QED
  BY <1>1, <1>2, <1>3, <1>4, <1>5, <1>6, <1>7, <1>8, <1>9,
     <1>10, <1>11, <1>12 DEF ReleaseNext

\* The invariant holds in every state.
LEMMA ReleaseInvariance == ReleaseSpec => [](ReleaseInv /\ Judged)
<1>1. ReleaseInit => ReleaseInv /\ Judged BY InitRelease
<1>2. ReleaseInv /\ Judged /\ [ReleaseNext]_releaseVars => ReleaseInv' /\ Judged'
  BY StepTrainTyped, StepOneRelease, StepFresh, StepRounds, StepJudged DEF ReleaseInv
<1> QED BY <1>1, <1>2, PTL DEF ReleaseSpec

\* The variables stay in their types, and at most one release is active, as
\* get_active_release relies on.
THEOREM ReleaseTypes == ReleaseSpec => []ReleaseTypeOK
<1>1. ASSUME ReleaseInv, Judged
      PROVE  ReleaseTypeOK
  <2> DEFINE active == {t \in Tags : IsActive(releases[t])}
  <2>1. \A t, u \in active : t = u BY <1>1 DEF ReleaseInv, OneRelease
  <2> HIDE DEF active
  <2>2. Cardinality(active) <= 1
    <3>1. CASE active = {} BY <3>1, FS_EmptySet
    <3>2. CASE active # {}
      <4>1. PICK t \in active : TRUE BY <3>2
      <4>2. active = {t} BY <2>1, <4>1
      <4> QED BY <4>2, FS_Singleton
    <3> QED BY <3>1, <3>2
  <2> USE DEF active
  <2> QED BY Zenon, <1>1, <2>2 DEF ReleaseInv, TrainTyped, ReleaseRow, SentinelTask, Judged, ReleaseTypeOK
<1> QED BY <1>1, ReleaseInvariance, PTL

\* The rounds of a release are the commits whose failure started one, for any
\* number of releases, reruns, late events and dead tasks.
THEOREM RoundsAreFailures == ReleaseSpec => []OneRoundPerFailure
<1>1. ReleaseInv => OneRoundPerFailure BY DEF ReleaseInv
<1> QED BY <1>1, ReleaseInvariance, PTL
=============================================================================
