----------------------------- MODULE RepoScan -----------------------------
(***************************************************************************)
(* ScanWithOptions of common/scan in its parallel modes: a full scan that  *)
(* bypasses the caches, and a scan with subtree caching.  Every directory  *)
(* is walked by a goroutine of its own (walkSubtreeCached), which is       *)
(* started by the goroutine of its parent and holds one of Limit slots of  *)
(* a semaphore until it returns; the caller walks the root, holds no slot  *)
(* and then waits for the WaitGroup.  A directory has its entries in any   *)
(* order.  The tree is chosen in Init and does not change.                 *)
(***************************************************************************)
EXTENDS Naturals, FiniteSets

CONSTANTS
    Dirs, Root, Files,
    Trees,       \* the trees: parent of every other directory, home of every file
    Options,     \* the options that a scan may have
    Limit,       \* slots of the semaphore
    MaxScans,    \* bound: scans one after the other
    None

Entries == Dirs \cup Files

(* bypass is BypassCache, otherwise CacheSubtrees; ignored are the         *)
(* directories whose name is in IgnoreDirs; a limit of zero is none.       *)
ASSUME ScanAssumption ==
    /\ IsFiniteSet(Dirs) /\ IsFiniteSet(Files)
    /\ Root \in Dirs /\ Dirs \cap Files = {}
    /\ None \notin Entries
    /\ \A t \in Trees : t \in [parent : [Dirs \ {Root} -> Dirs], home : [Files -> Dirs]]
    /\ Options \subseteq [bypass : BOOLEAN, ignored : SUBSET Dirs, maxDepth : Nat, maxPerDir : Nat]
    /\ Limit \in Nat \ {0} /\ MaxScans \in Nat

VARIABLES
    tree,      \* the repository
    opts,      \* the options
    scanning,  \* the caller is inside ScanWithOptions
    pc,        \* where the goroutine of each directory is
    depth,     \* its depth argument
    todo,      \* entries of the directory it has not looked at yet
    pending,   \* the child it has added to the WaitGroup and not started yet
    sem,       \* who holds a slot
    wg,        \* counter of the WaitGroup
    cache,     \* subtreeCache: what a directory has collected, or None
    visits,    \* history: how often the callback was given each entry in this scan
    gone,      \* history: directories of this scan that could not be read
    replayed,  \* history: directories of this scan that came out of the cache
    scans      \* scans begun

scanVars == <<tree, opts, scanning, pc, depth, todo, pending, sem, wg, cache,
              visits, gone, replayed, scans>>

Children(d) == {c \in Dirs \ {Root} : tree.parent[c] = d}
FilesIn(d) == {f \in Files : tree.home[f] = d}

Init ==
    /\ tree \in Trees
    /\ opts \in Options /\ scanning = FALSE
    /\ pc = [d \in Dirs |-> "none"]
    /\ depth = [d \in Dirs |-> 0]
    /\ todo = [d \in Dirs |-> {}]
    /\ pending = [d \in Dirs |-> None]
    /\ sem = {} /\ wg = 0
    /\ cache = [d \in Dirs |-> None]
    /\ visits = [e \in Entries |-> 0]
    /\ gone = {} /\ replayed = {}
    /\ scans = 0

----------------------------------------------------------------------------
(* The caller *)

(* A scan, after the subtrees of the changed prefixes have been forgotten. *)
Begin(changed) ==
    /\ ~scanning /\ scans < MaxScans
    /\ scanning' = TRUE /\ scans' = scans + 1
    /\ cache' = [d \in Dirs |-> IF d \in changed THEN None ELSE cache[d]]
    /\ pc' = [d \in Dirs |-> IF d = Root THEN "ready" ELSE "none"]
    /\ visits' = [e \in Entries |-> 0]
    /\ gone' = {} /\ replayed' = {}
    /\ UNCHANGED <<tree, opts, depth, todo, pending, sem, wg>>

(* Variant: the caller does not wait for the goroutines. *)
ReturnUnwaited ==
    /\ scanning /\ pc[Root] = "done"
    /\ scanning' = FALSE
    /\ UNCHANGED <<tree, opts, pc, depth, todo, pending, sem, wg, cache, visits, gone,
                   replayed, scans>>

(* The walk of the root has returned and the WaitGroup is at zero. *)
Return ==
    /\ scanning /\ pc[Root] = "done" /\ wg = 0
    /\ scanning' = FALSE
    /\ UNCHANGED <<tree, opts, pc, depth, todo, pending, sem, wg, cache, visits, gone,
                   replayed, scans>>

----------------------------------------------------------------------------
(* walkSubtreeCached(d) *)

Emit(v, e) == [v EXCEPT ![e] = @ + 1]

(* The goroutine returns; the one of the root is the caller itself. *)
Leave(d) ==
    /\ pc' = [pc EXCEPT ![d] = "done"]
    /\ sem' = sem \ {d}
    /\ wg' = IF d = Root THEN wg ELSE wg - 1

Skipped(d) == d # Root /\ (d \in opts.ignored \/ (opts.maxDepth > 0 /\ depth[d] > opts.maxDepth))

Skip(d) ==
    /\ pc[d] = "ready" /\ Skipped(d)
    /\ Leave(d)
    /\ UNCHANGED <<tree, opts, scanning, depth, todo, pending, cache, visits, gone,
                   replayed, scans>>

Cached(d) == ~opts.bypass /\ d # Root /\ cache[d] # None

(* What the directory collected goes to the callback again, under its own  *)
(* path: itself, itself once more for every child that the depth limit had *)
(* kept it from entering (its path was recorded as "."), and its files.    *)
Replay(d) ==
    /\ pc[d] = "ready" /\ ~Skipped(d) /\ Cached(d)
    /\ pc' = [pc EXCEPT ![d] = "replay"]
    /\ todo' = [todo EXCEPT ![d] = cache[d].files]
    /\ visits' = [visits EXCEPT ![d] = @ + 1 + cache[d].stubs]
    /\ replayed' = replayed \cup {d}
    /\ UNCHANGED <<tree, opts, scanning, depth, pending, sem, wg, cache, gone, scans>>

(* Variant: the early return misses the WaitGroup. *)
ReadDirFailsUndone(d) ==
    /\ pc[d] = "ready" /\ ~Skipped(d) /\ ~Cached(d)
    /\ gone' = gone \cup {d}
    /\ pc' = [pc EXCEPT ![d] = "done"] /\ sem' = sem \ {d}
    /\ UNCHANGED <<tree, opts, scanning, depth, todo, pending, wg, cache, visits, replayed,
                   scans>>

(* An unreadable directory is passed over without an error. *)
ReadDirFails(d) ==
    /\ pc[d] = "ready" /\ ~Skipped(d) /\ ~Cached(d)
    /\ gone' = gone \cup {d}
    /\ Leave(d)
    /\ UNCHANGED <<tree, opts, scanning, depth, todo, pending, cache, visits, replayed,
                   scans>>

(* The entries are listed; a directory other than the root goes to the     *)
(* callback itself.                                                        *)
ReadDir(d) ==
    /\ pc[d] = "ready" /\ ~Skipped(d) /\ ~Cached(d)
    /\ pc' = [pc EXCEPT ![d] = "walk"]
    /\ todo' = [todo EXCEPT ![d] = Children(d) \cup FilesIn(d)]
    /\ visits' = IF d = Root THEN visits ELSE Emit(visits, d)
    /\ UNCHANGED <<tree, opts, scanning, depth, pending, sem, wg, cache, gone, replayed,
                   scans>>

Walking(d) == pc[d] = "walk" /\ pending[d] = None

AtDepthLimit(d) == opts.maxDepth > 0 /\ depth[d] + 1 >= opts.maxDepth

(* A child at the depth limit is given to the callback and not entered. *)
StubChild(d, c) ==
    /\ Walking(d) /\ c \in todo[d] \cap Dirs /\ AtDepthLimit(d)
    /\ visits' = Emit(visits, c)
    /\ todo' = [todo EXCEPT ![d] = @ \ {c}]
    /\ UNCHANGED <<tree, opts, scanning, pc, depth, pending, sem, wg, cache, gone,
                   replayed, scans>>

(* wg.Add(1); the goroutine then waits for a slot, keeping its own. *)
AddChild(d, c) ==
    /\ Walking(d) /\ c \in todo[d] \cap Dirs /\ ~AtDepthLimit(d)
    /\ wg' = wg + 1
    /\ pending' = [pending EXCEPT ![d] = c]
    /\ todo' = [todo EXCEPT ![d] = @ \ {c}]
    /\ UNCHANGED <<tree, opts, scanning, pc, depth, sem, cache, visits, gone, replayed,
                   scans>>

(* A slot is free: the goroutine of the child starts. *)
StartChild(d) ==
    /\ pc[d] = "walk" /\ pending[d] # None
    /\ Cardinality(sem) < Limit
    /\ sem' = sem \cup {pending[d]}
    /\ pc' = [pc EXCEPT ![pending[d]] = "ready"]
    /\ depth' = [depth EXCEPT ![pending[d]] = depth[d] + 1]
    /\ pending' = [pending EXCEPT ![d] = None]
    /\ UNCHANGED <<tree, opts, scanning, todo, wg, cache, visits, gone, replayed, scans>>

Seen(d) == {f \in FilesIn(d) : visits[f] > 0}
Over(d) == opts.maxPerDir > 0 /\ Cardinality(Seen(d)) >= opts.maxPerDir

(* A file goes to the callback. *)
VisitFile(d, f) ==
    /\ f \in todo[d] \cap Files
    /\ \/ Walking(d) /\ ~Over(d)
       \/ pc[d] = "replay"
    /\ visits' = Emit(visits, f)
    /\ todo' = [todo EXCEPT ![d] = @ \ {f}]
    /\ UNCHANGED <<tree, opts, scanning, pc, depth, pending, sem, wg, cache, gone,
                   replayed, scans>>

(* The directory has had its share of files. *)
PassOver(d, f) ==
    /\ f \in todo[d] \cap Files
    /\ Walking(d) /\ Over(d)
    /\ todo' = [todo EXCEPT ![d] = @ \ {f}]
    /\ UNCHANGED <<tree, opts, scanning, pc, depth, pending, sem, wg, cache, visits,
                   gone, replayed, scans>>

(* What is kept of a directory: its files and the children that were only  *)
(* named, but nothing of the children that have their own goroutine.       *)
Collected(d) == [files |-> Seen(d),
                 stubs |-> IF AtDepthLimit(d) THEN Cardinality(Children(d)) ELSE 0]

Finish(d) ==
    /\ Walking(d) \/ pc[d] = "replay"
    /\ todo[d] = {}
    /\ cache' = IF d # Root /\ ~opts.bypass /\ pc[d] = "walk" THEN [cache EXCEPT ![d] = Collected(d)] ELSE cache
    /\ Leave(d)
    /\ UNCHANGED <<tree, opts, scanning, depth, todo, pending, visits, gone, replayed,
                   scans>>

----------------------------------------------------------------------------

Enter(d) == Skip(d) \/ Replay(d) \/ ReadDirFails(d) \/ ReadDir(d)

Descend(d) == \E c \in todo[d] : StubChild(d, c) \/ AddChild(d, c) \/ PassOver(d, c)

(* The steps of the goroutine of d, other than waiting for a slot and      *)
(* calling back.                                                           *)
Walk(d) == Enter(d) \/ Descend(d) \/ Finish(d)

----------------------------------------------------------------------------
(* Properties *)

Listed(d) == pc[d] = "done" /\ ~Skipped(d) /\ d \notin gone \cup replayed

(* A scan that returns has given every entry to the callback exactly once: *)
(* the root has been walked, and of every directory that was read each     *)
(* file (up to MaxPerDir) and each child, which the walk has entered       *)
(* unless it is at the depth limit, although every directory is walked by  *)
(* a goroutine of its own and the WaitGroup is the only thing the caller   *)
(* waits for.  Nothing is required here of a child at the depth limit that *)
(* is to be ignored, but that it is not given twice.                       *)
EveryEntryOnce ==
    ~scanning /\ scans > 0 =>
        /\ pc[Root] = "done"
        /\ \A d \in Dirs : Listed(d) =>
             /\ d # Root => visits[d] = 1
             /\ \A f \in FilesIn(d) : visits[f] = 1 \/ (Over(d) /\ visits[f] = 0)
             /\ \A c \in Children(d) :
                  IF AtDepthLimit(d) THEN visits[c] = 1 \/ (c \in opts.ignored /\ visits[c] = 0)
                  ELSE pc[c] = "done"
        /\ \A d \in Dirs : pc[d] = "done" /\ (Skipped(d) \/ d \in gone) => visits[d] = 0

(* IgnoreDirs are "directory basenames to skip entirely": none of them is  *)
(* given to the callback.  The code does not keep it: a child at the depth *)
(* limit is given to the callback before anybody has looked at its name.   *)
IgnoredSkipped == \A d \in opts.ignored \ {Root} : visits[d] = 0

(* Nothing of a scan goes on when it has returned: no goroutine is left    *)
(* that would call back, no slot is taken, the WaitGroup is at zero.       *)
NothingAfterReturn ==
    ~scanning => /\ \A d \in Dirs : pc[d] \in {"none", "done"} /\ pending[d] = None
                 /\ sem = {} /\ wg = 0
=============================================================================
