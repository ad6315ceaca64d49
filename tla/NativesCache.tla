---------------------------- MODULE NativesCache ----------------------------
(***************************************************************************)
(* The cache of native build outputs of one repository.  Preparing a       *)
(* workspace links the node files of a matching entry and copies its       *)
(* companions, without a lock; a task that succeeded stores what its       *)
(* workspace holds under the key of its sources, under the lock, and       *)
(* evicts the oldest entries, file by file.                                *)
(*                                                                         *)
(* A file is the key of the sources it was built from.  The native build,  *)
(* which is not part of this program, replaces a node file and rewrites    *)
(* the companions in place.  The three companions are always handled       *)
(* together and are one file here: with one of them missing an entry is    *)
(* refused as with none.  Staging directories, which nothing reads, are    *)
(* left out.                                                               *)
(***************************************************************************)
EXTENDS Naturals, FiniteSets

CONSTANTS
    Keys,           \* hashes of the inputs of a build
    Workspaces,
    Variants,       \* of the node file: pi_natives.<variant>.node
    None,           \* no file, no entry
    MaxEntries,     \* max_entries_per_repo
    MaxBuilds,      \* bound: node files built in all
    MaxCacheTasks   \* bound: tasks started in all

ASSUME CacheAssumption ==
    /\ Keys # {}
    /\ None \notin Keys
    /\ "companions" \notin Variants
    /\ MaxEntries \in Nat \ {0}
    /\ MaxBuilds \in Nat /\ MaxCacheTasks \in Nat

VARIABLES
    source,         \* [Workspaces -> Keys]: compute_key of HEAD
    native,         \* [Workspaces -> files]: packages/natives/native
    shares,         \* [Workspaces -> entry]: whose inode the companions there are
    entry,          \* [Keys -> entry directory]: captured_at of its manifest, files
    evicting,       \* the entry that rmtree is deleting
    torn,           \* entries whose eviction a crash cut short
    captures,       \* entries captured, the clock of captured_at
    capturedAs,     \* history: the files each entry was captured with
    tenant,         \* [Workspaces -> phase of the task there]
    todo,           \* [Workspaces -> names]: what populate_workspace has still to fetch
    sweeping,       \* the periodic gc holds the lock
    builds,         \* node files built, for the bound
    cacheTasks      \* tasks started, for the bound

cacheVars == <<source, native, shares, entry, evicting, torn, captures, capturedAs,
               tenant, todo, sweeping, builds, cacheTasks>>
Cached == <<entry, evicting, torn, captures, capturedAs>>

FileContents == Keys \cup {None}
Names == Variants \cup {"companions"}
Files == [Names -> FileContents]
Phases == {"none", "lookup", "listing", "populate", "agent", "building", "capture",
           "staged", "gc"}

NoFiles == [f \in Names |-> None]
NoManifest == 0
NoEntry == [at |-> NoManifest, files |-> NoFiles]

NativesTypeOK ==
    /\ source \in [Workspaces -> Keys]
    /\ native \in [Workspaces -> Files]
    /\ shares \in [Workspaces -> Keys \cup {None}]
    /\ entry \in [Keys -> [at : 0 .. captures, files : Files]]
    /\ evicting \in Keys \cup {None} /\ torn \subseteq Keys
    /\ captures \in Nat
    /\ capturedAs \in [Keys -> Files]
    /\ tenant \in [Workspaces -> Phases]
    /\ todo \in [Workspaces -> SUBSET Names]
    /\ sweeping \in BOOLEAN
    /\ builds \in 0 .. MaxBuilds
    /\ cacheTasks \in 0 .. MaxCacheTasks

CacheInit ==
    /\ source = [w \in Workspaces |-> CHOOSE k \in Keys : TRUE]
    /\ native = [w \in Workspaces |-> NoFiles]
    /\ shares = [w \in Workspaces |-> None]
    /\ entry = [k \in Keys |-> NoEntry]
    /\ evicting = None /\ torn = {}
    /\ captures = 0
    /\ capturedAs = [k \in Keys |-> NoFiles]
    /\ tenant = [w \in Workspaces |-> "none"]
    /\ todo = [w \in Workspaces |-> {}]
    /\ sweeping = FALSE
    /\ builds = 0 /\ cacheTasks = 0

-----------------------------------------------------------------------------
(* Preparing a workspace.                                                  *)

At(w, phase) == tenant[w] = phase
Goto(w, phase) == tenant' = [tenant EXCEPT ![w] = phase]

NodesIn(files) == {v \in Variants : files[v] # None}

\* A directory with its manifest, any node file and every companion.
Lookup(k) == /\ entry[k].at # NoManifest
             /\ NodesIn(entry[k].files) # {}
             /\ entry[k].files["companions"] # None

StartCacheTask(w) ==
    /\ At(w, "none") /\ cacheTasks < MaxCacheTasks
    /\ cacheTasks' = cacheTasks + 1
    /\ Goto(w, "lookup")
    /\ UNCHANGED <<source, native, shares, Cached, todo, sweeping, builds>>

LookUpEntry(w) ==
    /\ At(w, "lookup")
    /\ Goto(w, IF Lookup(source[w]) THEN "listing" ELSE "agent")
    /\ UNCHANGED <<source, native, shares, Cached, todo, sweeping, builds, cacheTasks>>

\* The node files that are there now, and the companions whatever is there.
ListNodes(w) ==
    /\ At(w, "listing")
    /\ todo' = [todo EXCEPT ![w] = NodesIn(entry[source[w]].files) \cup {"companions"}]
    /\ Goto(w, "populate")
    /\ UNCHANGED <<source, native, shares, Cached, sweeping, builds, cacheTasks>>

\* Mutant: the companions are linked as the node files are.
CopiedByLink(w) == shares' = [shares EXCEPT ![w] = source[w]]

\* _atomic_copy gives the workspace inodes of its own.
Copied(w) == shares' = [shares EXCEPT ![w] = None]

\* _atomic_link puts the inode of a node file in the workspace; the companions
\* come last.
PopulateFile(w, f) ==
    /\ At(w, "populate")
    /\ f \in todo[w] /\ (f = "companions" => todo[w] = {f})
    /\ entry[source[w]].files[f] # None
    /\ native' = [native EXCEPT ![w] = [@ EXCEPT ![f] = entry[source[w]].files[f]]]
    /\ IF f = "companions" THEN Copied(w) /\ Goto(w, "agent") ELSE UNCHANGED <<shares, tenant>>
    /\ todo' = [todo EXCEPT ![w] = @ \ {f}]
    /\ UNCHANGED <<source, Cached, sweeping, builds, cacheTasks>>

\* A file evicted since fails the populate.  The failure is logged and the
\* agent starts with what is there.
PopulateFails(w, f) ==
    /\ At(w, "populate")
    /\ f \in todo[w] /\ (f = "companions" => todo[w] = {f})
    /\ entry[source[w]].files[f] = None
    /\ todo' = [todo EXCEPT ![w] = {}]
    /\ Goto(w, "agent")
    /\ UNCHANGED <<source, native, shares, Cached, sweeping, builds, cacheTasks>>

-----------------------------------------------------------------------------
(* The agent changes the sources, and builds.                              *)

CommitSources(w, k) ==
    /\ At(w, "agent")
    /\ source[w] # k
    /\ source' = [source EXCEPT ![w] = k]
    /\ UNCHANGED <<native, shares, Cached, tenant, todo, sweeping, builds, cacheTasks>>

Built(w, f) == native' = [native EXCEPT ![w] = [@ EXCEPT ![f] = source[w]]]

\* installBinary: a temporary file and a rename.
InstallBinary(w, v) ==
    /\ At(w, "agent") \/ At(w, "building")
    /\ Built(w, v)
    /\ Goto(w, "building")
    /\ builds < MaxBuilds /\ builds' = builds + 1
    /\ UNCHANGED <<source, shares, Cached, todo, sweeping, cacheTasks>>

\* installGeneratedBindings opens the companions for writing: whoever shares
\* their inodes sees what is written.
InstallBindings(w) ==
    /\ At(w, "building")
    /\ Built(w, "companions")
    /\ entry' = [k \in Keys |->
            IF k = shares[w]
            THEN [entry[k] EXCEPT !.files = [@ EXCEPT !["companions"] = source[w]]]
            ELSE entry[k]]
    /\ Goto(w, "agent")
    /\ UNCHANGED <<source, shares, evicting, torn, captures, capturedAs, todo, sweeping,
                   builds, cacheTasks>>

\* Only a task that succeeded captures.
CacheTaskEnds(w, phase) ==
    /\ At(w, "agent") \/ At(w, "building")
    /\ phase = "capture" => At(w, "agent")
    /\ Goto(w, phase)
    /\ UNCHANGED <<source, native, shares, Cached, todo, sweeping, builds, cacheTasks>>

-----------------------------------------------------------------------------
(* Capturing, under the lock of the repository.                            *)

Unlocked == ~sweeping /\ \A v \in Workspaces : tenant[v] \notin {"staged", "gc"}

\* Nothing to store, or another worker stored the key while this one waited.
Capture(w) ==
    /\ At(w, "capture") /\ Unlocked
    /\ Goto(w, IF \/ NodesIn(native[w]) = {} \/ native[w]["companions"] = None
                   \/ Lookup(source[w])
               THEN "none" ELSE "staged")
    /\ UNCHANGED <<source, native, shares, Cached, todo, sweeping, builds, cacheTasks>>

Present(k) == entry[k].at # NoManifest \/ entry[k].files # NoFiles

\* os.replace does not replace a directory that holds files: what is left of
\* an eviction makes the capture fail, and its staging directory is removed.
PublishEntry(w) ==
    LET k == source[w] IN
    /\ At(w, "staged")
    /\ IF Present(k)
       THEN Goto(w, "none") /\ UNCHANGED <<entry, torn, captures, capturedAs>>
       ELSE /\ captures' = captures + 1
            /\ entry' = [entry EXCEPT ![k] = [at |-> captures', files |-> native[w]]]
            /\ capturedAs' = [capturedAs EXCEPT ![k] = native[w]]
            /\ torn' = torn \ {k}
            /\ Goto(w, "gc")
    /\ UNCHANGED <<source, native, shares, evicting, todo, sweeping, builds, cacheTasks>>

\* _natives_cache_gc_loop.
StartSweep ==
    /\ Unlocked
    /\ sweeping' = TRUE
    /\ UNCHANGED <<source, native, shares, Cached, tenant, todo, builds, cacheTasks>>

Collecting == sweeping \/ \E w \in Workspaces : At(w, "gc")

Incomplete == {k \in Keys : Present(k) /\ entry[k].at = NoManifest}
Entries == {k \in Keys : entry[k].at # NoManifest}
Oldest(k) == k \in Entries /\ \A j \in Entries : entry[k].at <= entry[j].at

\* _gc_locked picks what to evict: what has no manifest, then the oldest beyond
\* the cap on entries, then the oldest while the sizes, which are not modelled,
\* exceed the cap on bytes, down to one entry.
Collect(k) ==
    /\ Collecting /\ evicting = None
    /\ \/ k \in Incomplete
       \/ Incomplete = {} /\ Oldest(k) /\ Cardinality(Entries) > 1
    /\ evicting' = k
    /\ UNCHANGED <<source, native, shares, entry, torn, captures, capturedAs, tenant, todo,
                   sweeping, builds, cacheTasks>>

\* shutil.rmtree: the files in any order; then the directory.
DeleteFile(k, f) ==
    LET left == [entry[k].files EXCEPT ![f] = None] IN
    /\ evicting = k
    /\ entry[k].files[f] # None
    /\ entry' = [entry EXCEPT ![k] = [@ EXCEPT !.files = left]]
    /\ UNCHANGED <<source, native, shares, evicting, torn, captures, capturedAs, tenant, todo,
                   sweeping, builds, cacheTasks>>

DeleteManifest(k) ==
    /\ evicting = k
    /\ entry[k].at # NoManifest
    /\ entry' = [entry EXCEPT ![k] = [@ EXCEPT !.at = NoManifest]]
    /\ UNCHANGED <<source, native, shares, evicting, torn, captures, capturedAs, tenant, todo,
                   sweeping, builds, cacheTasks>>

FinishEviction(k) ==
    /\ evicting = k
    /\ ~Present(k)
    /\ evicting' = None
    /\ torn' = torn \ {k}
    /\ capturedAs' = [capturedAs EXCEPT ![k] = NoFiles]
    /\ UNCHANGED <<source, native, shares, entry, captures, tenant, todo, sweeping, builds,
                   cacheTasks>>

EndCollection ==
    /\ Collecting /\ evicting = None
    /\ Incomplete = {} /\ Cardinality(Entries) <= MaxEntries
    /\ tenant' = [w \in Workspaces |-> IF At(w, "gc") THEN "none" ELSE tenant[w]]
    /\ sweeping' = FALSE
    /\ UNCHANGED <<source, native, shares, Cached, todo, builds, cacheTasks>>

\* The process dies, perhaps in an eviction.
CacheCrash ==
    /\ sweeping \/ \E w \in Workspaces : ~At(w, "none")
    /\ torn' = torn \cup ({evicting} \ {None})
    /\ evicting' = None
    /\ tenant' = [w \in Workspaces |-> "none"]
    /\ todo' = [w \in Workspaces |-> {}]
    /\ sweeping' = FALSE
    /\ UNCHANGED <<source, native, shares, entry, captures, capturedAs, builds, cacheTasks>>

CacheNext ==
    \/ \E w \in Workspaces :
        \/ StartCacheTask(w) \/ LookUpEntry(w) \/ ListNodes(w)
        \/ \E f \in Names : PopulateFile(w, f) \/ PopulateFails(w, f)
        \/ \E k \in Keys : CommitSources(w, k)
        \/ \E v \in Variants : InstallBinary(w, v)
        \/ InstallBindings(w)
        \/ \E phase \in {"capture", "none"} : CacheTaskEnds(w, phase)
        \/ Capture(w) \/ PublishEntry(w)
    \/ StartSweep
    \/ \E k \in Keys :
        \/ Collect(k) \/ DeleteManifest(k) \/ FinishEviction(k)
        \/ \E f \in Names : DeleteFile(k, f)
    \/ EndCollection
    \/ CacheCrash

CacheSpec == CacheInit /\ [][CacheNext]_cacheVars

-----------------------------------------------------------------------------
(* What is in an entry is what was captured: a workspace that rebuilds,    *)
(* changes its sources or dies alters no file of an entry that others will *)
(* be given, and a file is missing only from an entry whose eviction is    *)
(* under way or was when the process died.                                 *)
EntryKeepsContents ==
    \A k \in Keys :
        /\ \A f \in Names : entry[k].files[f] \in {capturedAs[k][f], None}
        /\ k \notin torn \cup {evicting} => entry[k].files = capturedAs[k]
=============================================================================
