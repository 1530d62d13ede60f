----------------------------- MODULE WordIndex -----------------------------
(***************************************************************************)
(* AggIndex of common/wordidx on top of the scan: StartFromScans feeds the *)
(* files that the scan finds to a pool of workers over a channel, closes   *)
(* the channel, waits for the workers and closes doneCh; Wait and Find     *)
(* wait for doneCh or for the end of their context, which is the one the   *)
(* index was started with.  The callback of the scan is the send on the    *)
(* channel, so that a full channel holds up the walk.                      *)
(***************************************************************************)
EXTENDS RepoScan, Sequences

CONSTANTS
    Workers,   \* goroutines of the pool
    Wanted,    \* files that the extension filter lets through
    TaskCap,   \* capacity of the task channel (256)
    Roots      \* number of roots that are scanned one after the other

ASSUME IndexAssumption ==
    /\ Wanted \subseteq Files /\ TaskCap \in Nat \ {0} /\ Workers # {}
    /\ Roots \in Nat \ {0} /\ Roots <= MaxScans
    /\ IsFiniteSet(Workers)
    /\ {"idle", "exited"} \cap Files = {} /\ None \notin {"nil", "error", "ctx"}

VARIABLES
    feeder,    \* the goroutine that scans: "scan", "closing" or "done"
    tasks,     \* the task channel
    worker,    \* what each worker does: the file it indexes, "idle" or "exited"
    ctxDone,   \* the context has ended
    files,     \* files of the index, with how often each one is in it
    firstErr,  \* an error is recorded
    fed,       \* history: files given to the pool, how often
    answer     \* what Wait returned: None, "nil", "error" or "ctx"

indexVars == <<feeder, tasks, worker, ctxDone, files, firstErr, fed, answer>>
vars == <<scanVars, indexVars>>

IndexInit ==
    /\ Init
    /\ feeder = "scan" /\ tasks = <<>>
    /\ worker = [w \in Workers |-> "idle"]
    /\ ctxDone = FALSE
    /\ files = [f \in Files |-> 0] /\ fed = [f \in Files |-> 0]
    /\ firstErr = FALSE /\ answer = None

----------------------------------------------------------------------------
(* The goroutine that scans *)

ScanRoot ==
    /\ feeder = "scan" /\ scans < Roots /\ ~ctxDone
    /\ \E changed \in {{}, Dirs} : Begin(changed)
    /\ UNCHANGED indexVars

(* The root cannot be resolved or read: the error is kept, the rest of the *)
(* roots is not scanned.                                                   *)
RootFails ==
    /\ feeder = "scan" /\ ~scanning /\ scans < Roots /\ ~ctxDone
    /\ firstErr' = TRUE /\ feeder' = "closing"
    /\ UNCHANGED <<scanVars, tasks, worker, ctxDone, files, fed, answer>>

(* close(tasks), after the last root or when the context has ended. *)
CloseTasks ==
    /\ feeder = "scan" /\ ~scanning /\ (scans = Roots \/ ctxDone)
    /\ feeder' = "closing"
    /\ UNCHANGED <<scanVars, tasks, worker, ctxDone, files, firstErr, fed, answer>>

(* Variant: doneCh is closed without waiting for the workers. *)
DoneEarly ==
    /\ feeder = "closing"
    /\ feeder' = "done"
    /\ UNCHANGED <<scanVars, tasks, worker, ctxDone, files, firstErr, fed, answer>>

(* wg.Wait, then doneCh is closed. *)
Done ==
    /\ feeder = "closing" /\ \A w \in Workers : worker[w] = "exited"
    /\ feeder' = "done"
    /\ UNCHANGED <<scanVars, tasks, worker, ctxDone, files, firstErr, fed, answer>>

(* The callback: a file that is wanted is sent to the workers, unless the  *)
(* context has ended.                                                      *)
Feed(d, f) ==
    /\ VisitFile(d, f)
    /\ IF f \in Wanted
       THEN \/ Len(tasks) < TaskCap /\ tasks' = Append(tasks, f) /\ fed' = [fed EXCEPT ![f] = @ + 1]
            \/ ctxDone /\ UNCHANGED <<tasks, fed>>
       ELSE UNCHANGED <<tasks, fed>>
    /\ UNCHANGED <<feeder, worker, ctxDone, files, firstErr, answer>>

----------------------------------------------------------------------------
(* The workers *)

Take(w) ==
    /\ worker[w] = "idle" /\ tasks # <<>>
    /\ worker' = [worker EXCEPT ![w] = Head(tasks)]
    /\ tasks' = Tail(tasks)
    /\ UNCHANGED <<scanVars, feeder, ctxDone, files, firstErr, fed, answer>>

(* The channel is closed and empty, or the context has ended. *)
Exit(w) ==
    /\ worker[w] = "idle"
    /\ ctxDone \/ (feeder = "closing" /\ tasks = <<>>)
    /\ worker' = [worker EXCEPT ![w] = "exited"]
    /\ UNCHANGED <<scanVars, feeder, tasks, ctxDone, files, firstErr, fed, answer>>

(* The words of the file are added to the index, or the error is kept. *)
indexOne(w) ==
    /\ worker[w] \in Files
    /\ \/ files' = [files EXCEPT ![worker[w]] = @ + 1] /\ firstErr' = firstErr
       \/ files' = files /\ firstErr' = TRUE
    /\ worker' = [worker EXCEPT ![w] = "idle"]
    /\ UNCHANGED <<scanVars, feeder, tasks, ctxDone, fed, answer>>

----------------------------------------------------------------------------
(* The caller *)

Cancel ==
    /\ ~ctxDone
    /\ ctxDone' = TRUE
    /\ UNCHANGED <<scanVars, feeder, tasks, worker, files, firstErr, fed, answer>>

(* If both are ready the select takes either. *)
Wait ==
    /\ answer = None
    /\ \/ feeder = "done" /\ answer' = IF firstErr THEN "error" ELSE "nil"
       \/ ctxDone /\ answer' = "ctx"
    /\ UNCHANGED <<scanVars, feeder, tasks, worker, ctxDone, files, firstErr, fed>>

Next ==
    \/ ScanRoot \/ RootFails \/ CloseTasks \/ Done \/ Cancel \/ Wait
    \/ Return /\ UNCHANGED indexVars
    \/ \E d \in Dirs :
         \/ (Walk(d) \/ StartChild(d)) /\ UNCHANGED indexVars
         \/ \E f \in todo[d] : Feed(d, f)
    \/ \E w \in Workers : Take(w) \/ Exit(w) \/ indexOne(w)

Spec == IndexInit /\ [][Next]_vars

(* Goroutines run.  Those that wait to send on a channel, a task or a slot *)
(* of the semaphore, queue there, so that none is passed over for ever.    *)
FairSpec ==
    /\ Spec
    /\ WF_vars(ScanRoot \/ RootFails \/ CloseTasks \/ Done)
    /\ WF_vars(Return /\ UNCHANGED indexVars)
    /\ \A d \in Dirs :
         /\ WF_vars(Walk(d) /\ UNCHANGED indexVars)
         /\ SF_vars(StartChild(d) /\ UNCHANGED indexVars)
         /\ SF_vars(\E f \in todo[d] : Feed(d, f))
    /\ \A w \in Workers : WF_vars(Take(w) \/ Exit(w)) /\ WF_vars(indexOne(w))

----------------------------------------------------------------------------
(* Properties *)

(* When Wait returns without an error and the context has not ended, every *)
(* file that the scans gave to the pool is in the index, as often as it    *)
(* was given: no task is left in the channel or in a worker.               *)
IndexComplete ==
    answer = "nil" /\ ~ctxDone => files = fed /\ tasks = <<>>

(* Directories whose goroutine needs a slot for a child while it holds one. *)
Nested == {d \in Dirs \ {Root} : Children(d) # {}}

(* The goroutine of d waits for others: for a slot, or for room in the     *)
(* task channel for every entry it has still to look at.                   *)
AwaitsSlot(d) == pending[d] # None /\ ~(Cardinality(sem) < Limit)
AwaitsRoom(d) ==
    /\ pending[d] = None /\ todo[d] # {} /\ todo[d] \subseteq Wanted
    /\ ~(Len(tasks) < TaskCap) /\ ~ctxDone

Runs(d) == pc[d] \in {"ready", "walk", "replay"} /\ ~AwaitsSlot(d) /\ ~AwaitsRoom(d)

Works(w) ==
    \/ worker[w] \in Files
    \/ worker[w] = "idle" /\ (tasks # <<>> \/ ctxDone \/ feeder = "closing")

(* The goroutine that scans: the next root, the end of a scan, close(tasks) *)
(* or close(doneCh).                                                       *)
Feeds ==
    \/ feeder = "scan" /\ ~scanning /\ (scans <= Roots \/ ctxDone)
    \/ feeder = "scan" /\ scanning /\ pc[Root] = "done" /\ wg = 0
    \/ feeder = "closing" /\ \A w \in Workers : worker[w] = "exited"

(* Until the pool is done somebody can go on, if fewer directories than    *)
(* the semaphore has slots have directories in them: neither do the        *)
(* goroutines of the scan wait for each other's slots in a circle, nor     *)
(* they and the workers for each other at a full or an empty channel, and  *)
(* no early return keeps a slot or misses the WaitGroup.                   *)
NeverStuck ==
    Cardinality(Nested) < Limit /\ feeder # "done" =>
        \/ Feeds
        \/ \E d \in Dirs : Runs(d)
        \/ \E w \in Workers : Works(w)

(* Indexing ends and Wait returns, if fewer directories than the semaphore *)
(* has slots have directories in them: then not every slot can be held by  *)
(* a goroutine that waits for another one.                                 *)
IndexingEnds == Cardinality(Nested) < Limit => <>(feeder = "done")

(* "Aggregated index builds asynchronously via scan.ScanParallel; Find     *)
(* blocks until completion" (indexer.go:26): the index of every repository *)
(* is completed, unless the context ends.                                  *)
IndexAlwaysEnds == <>(feeder = "done" \/ ctxDone)
=============================================================================
