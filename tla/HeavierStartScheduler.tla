------------------------ MODULE HeavierStartScheduler ------------------------
(***************************************************************************)
(* ScheduleHeavierStart (internal/common/scheduler): an event-driven       *)
(* scheduler that packs the ready nodes of a DAG into chunks under a       *)
(* capacity, keeps up to nParallel chunks in flight and promotes nodes as  *)
(* chunks complete.                                                        *)
(*                                                                         *)
(* The scheduler is one goroutine; every chunk it launches is run by the   *)
(* caller's ChunkRunner and reports through completionCh.  One iteration   *)
(* of each loop of the code is one action, so that chunks may finish       *)
(* between any two of them.  The graph, the targets and the weights are    *)
(* arguments of the call: variables that Init chooses and nothing changes. *)
(***************************************************************************)
EXTENDS Integers, Sequences, FiniteSets

CONSTANTS
    N,            \* nodes are 1..N
    Weights,      \* the weights nodes may have
    CapPerChunk,
    NParallel     \* after the default of the code: at least 1

ASSUME SchedulerAssumption ==
    /\ N \in Nat
    /\ \A w \in Weights : w \in Nat
    /\ CapPerChunk \in Nat \ {0}
    /\ NParallel \in Nat \ {0}

Nodes == 1..N

VARIABLES
    adj, targets, weight,   \* arguments of the call
    pc, result,             \* control, and what the call returned
    retry,                  \* tryLaunch was called because nothing is in flight
    ready, completed, indeg, inflight,
    running,                \* chunks launched and not finished
    completionCh,           \* chunks finished and not handled
    event,                  \* rest of the chunk whose completion is handled
    chunk, simReady, simIndeg, total,  \* locals of buildChunkDesc
    launched                \* history: nodes of the chunks that were launched

args  == <<adj, targets, weight>>
build == <<chunk, simReady, simIndeg, total>>
vars  == <<args, pc, result, retry, ready, completed, indeg, inflight, running,
           completionCh, event, build, launched>>

------------------------------------------------------------------------------
(* Graph facts, as operators on an adjacency map g. *)

Preds(g, v) == {u \in Nodes : v \in g[u]}

\* toposortAny succeeds: every nonempty set of nodes has a source.
Acyclic(g) ==
    \A S \in SUBSET Nodes : S # {} => \E u \in S : Preds(g, u) \cap S = {}

\* descendantCounts: the number of nodes reachable from u.
descendantCount(g, u) ==
    Cardinality({v \in Nodes : \A C \in SUBSET Nodes :
        g[u] \subseteq C /\ (\A x \in C : g[x] \subseteq C) => v \in C})

\* Variants: the targets without their ancestors; the whole graph.
TargetsOnly(g, ts) == ts
AllNodes(g, ts) == Nodes

\* computeNeededNodes: the targets and their ancestors, the least set that
\* holds the targets and is closed under predecessors.
computeNeededNodes(g, ts) ==
    {v \in Nodes : \A C \in SUBSET Nodes :
        ts \subseteq C /\ (\A x \in C : Preds(g, x) \subseteq C) => v \in C}

Need == computeNeededNodes(adj, targets)

computeIndegrees(g) == [v \in Nodes |-> Cardinality(Preds(g, v))]

SeqSet(s) == {s[i] : i \in DOMAIN s}

\* The priority of buildChunkDesc: more descendants, then lighter, then lower id.
Before(u, v) ==
    LET du == descendantCount(adj, u)
        dv == descendantCount(adj, v)
    IN  \/ du > dv
        \/ du = dv /\ weight[u] < weight[v]
        \/ du = dv /\ weight[u] = weight[v] /\ u < v

\* Variant: an exclusive limit.
FitsStrictly(u) == total + weight[u] < CapPerChunk

Fits(u) == total + weight[u] <= CapPerChunk

\* Variant: the ready set as it is.
CandsUnfiltered == ready

Cands == ready \ completed

------------------------------------------------------------------------------
Init ==
    /\ adj \in [Nodes -> SUBSET Nodes]
    /\ targets \in SUBSET Nodes
    /\ weight \in [Nodes -> Weights]
    /\ pc = "start"
    /\ result = "none"
    /\ retry = FALSE
    /\ ready = {}
    /\ completed = {}
    /\ indeg = computeIndegrees(adj)
    /\ inflight = 0
    /\ running = {}
    /\ completionCh = <<>>
    /\ event = <<>>
    /\ chunk = <<>>
    /\ simReady = {}
    /\ simIndeg = computeIndegrees(adj)
    /\ total = 0
    /\ launched = {}

Return(r) == pc' = "returned" /\ result' = r

\* A cyclic graph is refused; otherwise the needed sources become ready.
Start ==
    /\ pc = "start"
    /\ IF Acyclic(adj)
       THEN /\ ready' = {u \in Need : indeg[u] = 0}
            /\ pc' = "launch"
            /\ UNCHANGED result
       ELSE Return("cycle") /\ UNCHANGED ready
    /\ UNCHANGED <<args, retry, completed, indeg, inflight, running,
                   completionCh, event, build, launched>>

------------------------------------------------------------------------------
(* tryLaunch. *)

\* Variant: the limit is compared after the chunk is counted.
BeginBuildOver ==
    /\ pc = "launch" /\ inflight <= NParallel /\ Cands # {}
    /\ chunk' = <<>> /\ simReady' = Cands /\ simIndeg' = indeg /\ total' = 0
    /\ pc' = "build"
    /\ UNCHANGED <<args, result, retry, ready, completed, indeg, inflight,
                   running, completionCh, event, launched>>

\* One more chunk may be launched: buildChunkDesc starts on the candidates.
BeginBuild ==
    /\ pc = "launch"
    /\ inflight < NParallel
    /\ Cands # {}
    /\ chunk' = <<>>
    /\ simReady' = Cands
    /\ simIndeg' = indeg
    /\ total' = 0
    /\ pc' = "build"
    /\ UNCHANGED <<args, result, retry, ready, completed, indeg, inflight,
                   running, completionCh, event, launched>>

\* Variant: one predecessor in the chunk is enough.
UnlockedByOne(u) ==
    {v \in adj[u] : v \in Need /\ v \notin completed \cup SeqSet(chunk) \cup {u}}

\* Nodes that the admission of u makes ready within the chunk.
Unlocked(u) ==
    {v \in adj[u] : /\ simIndeg[v] = 1
                    /\ v \in Need
                    /\ v \notin completed \cup SeqSet(chunk) \cup {u}}

\* One iteration of buildChunkDesc: the first node that fits is admitted.
Admit(u) ==
    /\ pc = "build"
    /\ u \in simReady /\ Fits(u)
    /\ \A v \in simReady : Fits(v) => ~Before(v, u)
    /\ chunk' = Append(chunk, u)
    /\ total' = total + weight[u]
    /\ simReady' = (simReady \ {u}) \cup Unlocked(u)
    /\ simIndeg' = [v \in Nodes |-> IF v \in adj[u] THEN simIndeg[v] - 1
                                    ELSE simIndeg[v]]
    /\ UNCHANGED <<args, pc, result, retry, ready, completed, indeg, inflight,
                   running, completionCh, event, launched>>

Full == pc = "build" /\ \A u \in simReady : ~Fits(u)

\* An empty chunk: every candidate is heavier than a chunk may be.
HeavyError ==
    /\ Full
    /\ chunk = <<>>
    /\ Return("heavy")
    /\ UNCHANGED <<args, retry, ready, completed, indeg, inflight, running,
                   completionCh, event, build, launched>>

\* Reserving permits for the chunk, or starting it, fails.
LaunchError ==
    /\ Full
    /\ chunk # <<>>
    /\ ready' = ready \ SeqSet(chunk)
    /\ Return("launch_error")
    /\ UNCHANGED <<args, retry, completed, indeg, inflight, running,
                   completionCh, event, build, launched>>

Launch ==
    /\ Full
    /\ chunk # <<>>
    /\ ready' = ready \ SeqSet(chunk)
    /\ running' = running \cup {chunk}
    /\ launched' = launched \cup SeqSet(chunk)
    /\ inflight' = inflight + 1
    /\ pc' = "launch"
    /\ UNCHANGED <<args, result, retry, completed, indeg, completionCh, event,
                   build>>

\* tryLaunch returns without an error.
LaunchExit ==
    /\ pc = "launch"
    /\ inflight >= NParallel \/ Cands = {}
    /\ retry' = FALSE
    /\ IF ~retry THEN pc' = "head" /\ UNCHANGED result
       ELSE IF inflight = 0 THEN Return("deadlock")
            ELSE pc' = "select" /\ UNCHANGED result
    /\ UNCHANGED <<args, ready, completed, indeg, inflight, running,
                   completionCh, event, build, launched>>

------------------------------------------------------------------------------
(* The main loop. *)

LoopHead ==
    /\ pc = "head"
    /\ IF targets \subseteq completed THEN Return("ok") /\ UNCHANGED retry
       ELSE /\ UNCHANGED result
            /\ pc' = IF inflight = 0 THEN "launch" ELSE "select"
            /\ retry' = (inflight = 0)
    /\ UNCHANGED <<args, ready, completed, indeg, inflight, running,
                   completionCh, event, build, launched>>

CtxDone ==
    /\ pc = "select"
    /\ Return("ctx")
    /\ UNCHANGED <<args, retry, ready, completed, indeg, inflight, running,
                   completionCh, event, build, launched>>

TakeCompletion ==
    /\ pc = "select"
    /\ completionCh # <<>>
    /\ event' = Head(completionCh)
    /\ completionCh' = Tail(completionCh)
    /\ inflight' = inflight - 1
    /\ pc' = "relax"
    /\ UNCHANGED <<args, result, retry, ready, completed, indeg, running, build,
                   launched>>

\* The next node of the chunk is marked completed and its edges are relaxed.
Relax ==
    /\ pc = "relax"
    /\ event # <<>>
    /\ LET u == Head(event) IN
         IF u \in completed THEN UNCHANGED <<completed, indeg, ready>>
         ELSE /\ completed' = completed \cup {u}
              /\ indeg' = [v \in Nodes |-> IF v \in adj[u] THEN indeg[v] - 1
                                           ELSE indeg[v]]
              /\ ready' = ready \cup {v \in adj[u] : /\ indeg[v] = 1
                                                     /\ v \in Need
                                                     /\ v \notin completed \cup {u}}
    /\ event' = Tail(event)
    /\ UNCHANGED <<args, pc, result, retry, inflight, running, completionCh,
                   build, launched>>

RelaxDone ==
    /\ pc = "relax"
    /\ event = <<>>
    /\ pc' = "launch"
    /\ UNCHANGED <<args, result, retry, ready, completed, indeg, inflight,
                   running, completionCh, event, build, launched>>

\* Variant: the completion is not reported.
FinishSilently(c) ==
    /\ c \in running
    /\ running' = running \ {c}
    /\ UNCHANGED <<args, pc, result, retry, ready, completed, indeg, inflight,
                   completionCh, event, build, launched>>

\* The ChunkRunner closes the done channel of a chunk and the goroutine that
\* watches it reports the completion.
Finish(c) ==
    /\ c \in running
    /\ running' = running \ {c}
    /\ completionCh' = Append(completionCh, c)
    /\ UNCHANGED <<args, pc, result, retry, ready, completed, indeg, inflight,
                   event, build, launched>>

------------------------------------------------------------------------------
Scheduler ==
    \/ Start \/ BeginBuild \/ (\E u \in Nodes : Admit(u)) \/ HeavyError
    \/ LaunchError \/ Launch \/ LaunchExit \/ LoopHead
    \/ TakeCompletion \/ Relax \/ RelaxDone

Next == Scheduler \/ CtxDone \/ \E c \in running : Finish(c)

Spec == Init /\ [][Next]_vars

\* The scheduler's goroutine runs, and every chunk finishes (the contract of
\* ChunkRunner).  Nothing makes the caller cancel the context.
Fairness == WF_vars(Scheduler) /\ WF_vars(\E c \in running : Finish(c))

FairSpec == Spec /\ Fairness

------------------------------------------------------------------------------
(* Properties. *)

Outcomes == {"none", "ok", "cycle", "heavy", "launch_error", "deadlock", "ctx"}

TypeOK ==
    /\ adj \in [Nodes -> SUBSET Nodes]
    /\ targets \subseteq Nodes
    /\ weight \in [Nodes -> Weights]
    /\ pc \in {"start", "launch", "build", "head", "select", "relax", "returned"}
    /\ result \in Outcomes
    /\ retry \in BOOLEAN
    /\ ready \subseteq Nodes
    /\ completed \subseteq Nodes
    /\ indeg \in [Nodes -> Int]
    /\ inflight \in Int
    /\ running \subseteq Seq(Nodes)
    /\ completionCh \in Seq(Seq(Nodes))
    /\ event \in Seq(Nodes)
    /\ chunk \in Seq(Nodes)
    /\ simReady \subseteq Nodes
    /\ simIndeg \in [Nodes -> Int]
    /\ total \in Int
    /\ launched \subseteq Nodes

\* Chunks launched and not yet fully handled.
Outstanding == running \cup SeqSet(completionCh) \cup {event}

\* No node is run twice: the chunk being built holds no node twice and none of
\* an earlier chunk, although the lookahead draws nodes in before their
\* predecessors complete and completing a chunk puts nodes of that same chunk
\* back into the ready set.
RunAtMostOnce ==
    pc = "build" =>
        /\ \A i, j \in DOMAIN chunk : chunk[i] = chunk[j] => i = j
        /\ SeqSet(chunk) \cap launched = {}

\* What each node of chunk c depends on in graph g is in `done' or comes earlier in c.
Ordered(g, c, done) ==
    \A i \in DOMAIN c : Preds(g, c[i]) \subseteq done \cup {c[j] : j \in 1..(i - 1)}

\* Only needed nodes are run, and a node never before what it depends on: the
\* predecessors are completed or come earlier in the same chunk.
DependenciesRespected ==
    \A c \in Outstanding : SeqSet(c) \subseteq Need /\ Ordered(adj, c, completed)

\* The counter of chunks in flight is exact and never exceeds nParallel.
InflightExact ==
    /\ inflight = Cardinality(running) + Len(completionCh)
    /\ inflight <= NParallel

\* The "deadlock" error is unreachable: on an acyclic graph something can always
\* be launched, is in flight, or is too heavy.
NoSpuriousDeadlock == result # "deadlock"

\* A successful return leaves no chunk behind: everything needed is completed
\* and nothing is still in flight.
SuccessIsComplete ==
    result = "ok" => /\ completed = Need
                     /\ running = {} /\ completionCh = <<>> /\ inflight = 0

HeavyNeeded == {u \in Need : weight[u] > CapPerChunk}

\* The capacity error is returned only if some needed node exceeds the capacity,
\* and success never is if one does: as the call returns (Terminates), such a node
\* is reported, however many light nodes are launched first.
HeavyErrorJustified ==
    /\ result = "heavy" => HeavyNeeded # {}
    /\ result = "ok" => HeavyNeeded = {}

\* The call returns: chunks that keep finishing lead to an outcome.
Terminates == <>(pc = "returned")
==============================================================================
