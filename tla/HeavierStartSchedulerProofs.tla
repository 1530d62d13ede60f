--------------------- MODULE HeavierStartSchedulerProofs ---------------------
(* Proofs about HeavierStartScheduler, for every finite graph, every set of  *)
(* targets, every weights and every parallelism.                             *)
EXTENDS HeavierStartScheduler, FiniteSetTheorems, TLAPS

(* Sequences of nodes. *)

LEMMA EmptySeqSet == SeqSet(<<>>) = {}
  BY DEF SeqSet

LEMMA SeqSetAppend ==
    ASSUME NEW S, NEW c \in Seq(S), NEW u \in S
    PROVE  Append(c, u) \in Seq(S) /\ SeqSet(Append(c, u)) = SeqSet(c) \cup {u}
<1>1. /\ Append(c, u) \in Seq(S)
      /\ Len(c) \in Nat /\ DOMAIN c = 1..Len(c)
      /\ DOMAIN Append(c, u) = 1..(Len(c) + 1)
      /\ Append(c, u)[Len(c) + 1] = u
      /\ \A i \in 1..Len(c) : Append(c, u)[i] = c[i]
  OBVIOUS
<1>2. SeqSet(Append(c, u)) = SeqSet(c) \cup {u}
  BY <1>1 DEF SeqSet
<1> QED
  BY <1>1, <1>2

LEMMA SeqSetSub ==
    ASSUME NEW S, NEW c \in Seq(S)
    PROVE  SeqSet(c) \subseteq S
  BY DEF SeqSet

LEMMA SeqSetTail ==
    ASSUME NEW S, NEW c \in Seq(S), c # <<>>
    PROVE  /\ Head(c) \in S /\ Tail(c) \in Seq(S)
           /\ SeqSet(c) = SeqSet(Tail(c)) \cup {Head(c)}
           /\ Len(Tail(c)) = Len(c) - 1
<1>1. /\ Head(c) = c[1] /\ Tail(c) \in Seq(S) /\ Len(c) \in Nat \ {0}
      /\ DOMAIN c = 1..Len(c)
      /\ Len(Tail(c)) = Len(c) - 1
      /\ DOMAIN Tail(c) = 1..(Len(c) - 1)
      /\ \A i \in 1..(Len(c) - 1) : Tail(c)[i] = c[i + 1]
  OBVIOUS
<1>2. c[1] \in S
  BY <1>1
<1>3. SeqSet(c) \subseteq SeqSet(Tail(c)) \cup {c[1]}
  <2> SUFFICES ASSUME NEW i \in 1..Len(c), i # 1 PROVE c[i] \in SeqSet(Tail(c))
    BY <1>1 DEF SeqSet
  <2>1. i - 1 \in 1..(Len(c) - 1) /\ Tail(c)[i - 1] = c[i]
    BY <1>1
  <2> QED
    BY <1>1, <2>1 DEF SeqSet
<1>4. SeqSet(Tail(c)) \cup {c[1]} \subseteq SeqSet(c)
  <2> SUFFICES ASSUME NEW i \in 1..(Len(c) - 1) PROVE Tail(c)[i] \in SeqSet(c)
    BY <1>1 DEF SeqSet
  <2>1. i + 1 \in 1..Len(c) /\ Tail(c)[i] = c[i + 1]
    BY <1>1
  <2> QED
    BY <1>1, <2>1 DEF SeqSet
<1> QED
  BY <1>1, <1>2, <1>3, <1>4

\* A chunk without repetitions.
Distinct(c) == \A i, j \in DOMAIN c : c[i] = c[j] => i = j

LEMMA DistinctAppend ==
    ASSUME NEW c \in Seq(Nodes), NEW u \in Nodes, Distinct(c), u \notin SeqSet(c)
    PROVE  Distinct(Append(c, u))
  BY DEF Distinct, SeqSet

LEMMA DistinctTail ==
    ASSUME NEW c \in Seq(Nodes), c # <<>>, Distinct(c)
    PROVE  Distinct(Tail(c)) /\ Head(c) \notin SeqSet(Tail(c))
<1>1. /\ Head(c) = c[1] /\ Len(c) \in Nat \ {0}
      /\ DOMAIN c = 1..Len(c)
      /\ DOMAIN Tail(c) = 1..(Len(c) - 1)
      /\ \A i \in 1..(Len(c) - 1) : Tail(c)[i] = c[i + 1]
  OBVIOUS
<1>2. \A i \in 1..(Len(c) - 1) : i + 1 \in 1..Len(c) /\ i + 1 # 1
  BY <1>1
<1>3. Distinct(Tail(c))
  BY <1>1, <1>2 DEF Distinct
<1>4. Head(c) \notin SeqSet(Tail(c))
  BY <1>1, <1>2 DEF Distinct, SeqSet
<1> QED
  BY <1>3, <1>4

LEMMA OrderedMono ==
    ASSUME NEW g, NEW c, NEW D, NEW E, D \subseteq E, Ordered(g, c, D)
    PROVE  Ordered(g, c, E)
  BY DEF Ordered

LEMMA OrderedAppend ==
    ASSUME NEW g, NEW c \in Seq(Nodes), NEW u \in Nodes, NEW D, Ordered(g, c, D),
           Preds(g, u) \subseteq D \cup SeqSet(c)
    PROVE  Ordered(g, Append(c, u), D)
<1>1. /\ Len(c) \in Nat /\ DOMAIN c = 1..Len(c)
      /\ DOMAIN Append(c, u) = 1..(Len(c) + 1)
      /\ Append(c, u)[Len(c) + 1] = u
      /\ \A i \in 1..Len(c) : Append(c, u)[i] = c[i]
  OBVIOUS
<1> SUFFICES ASSUME NEW i \in 1..(Len(c) + 1)
             PROVE  Preds(g, Append(c, u)[i]) \subseteq
                       D \cup {Append(c, u)[j] : j \in 1..(i - 1)}
  BY <1>1 DEF Ordered
<1>2. CASE i = Len(c) + 1
  <2>1. SeqSet(c) = {Append(c, u)[j] : j \in 1..(i - 1)}
    BY <1>1, <1>2 DEF SeqSet
  <2> QED
    BY <1>1, <1>2, <2>1
<1>3. CASE i \in 1..Len(c)
  <2>1. \A j \in 1..(i - 1) : j \in 1..Len(c)
    BY <1>1, <1>3
  <2>2. {c[j] : j \in 1..(i - 1)} = {Append(c, u)[j] : j \in 1..(i - 1)}
    BY <1>1, <2>1
  <2>3. Preds(g, c[i]) \subseteq D \cup {c[j] : j \in 1..(i - 1)}
    BY <1>1, <1>3 DEF Ordered
  <2> QED
    BY <1>1, <1>3, <2>2, <2>3
<1> QED
  BY <1>1, <1>2, <1>3

LEMMA OrderedTail ==
    ASSUME NEW g, NEW c \in Seq(Nodes), c # <<>>, NEW D, Ordered(g, c, D)
    PROVE  Preds(g, Head(c)) \subseteq D /\ Ordered(g, Tail(c), D \cup {Head(c)})
<1>1. /\ Head(c) = c[1] /\ Len(c) \in Nat \ {0}
      /\ DOMAIN c = 1..Len(c)
      /\ DOMAIN Tail(c) = 1..(Len(c) - 1)
      /\ \A i \in 1..(Len(c) - 1) : Tail(c)[i] = c[i + 1]
  OBVIOUS
<1>2. Preds(g, c[1]) \subseteq D
  <2>1. Preds(g, c[1]) \subseteq D \cup {c[j] : j \in 1..(1 - 1)}
    BY <1>1 DEF Ordered
  <2>2. {c[j] : j \in 1..(1 - 1)} = {}
    OBVIOUS
  <2> QED
    BY <2>1, <2>2
<1>3. ASSUME NEW i \in 1..(Len(c) - 1)
      PROVE  Preds(g, Tail(c)[i]) \subseteq (D \cup {c[1]}) \cup {Tail(c)[j] : j \in 1..(i - 1)}
  <2>1. i + 1 \in 1..Len(c)
    BY <1>1
  <2>2. Preds(g, c[i + 1]) \subseteq D \cup {c[j] : j \in 1..i}
    BY <1>1, <2>1 DEF Ordered
  <2>3. \A j \in 1..i : c[j] \in {c[1]} \cup {Tail(c)[k] : k \in 1..(i - 1)}
    <3> SUFFICES ASSUME NEW j \in 1..i, j # 1
                 PROVE  c[j] \in {Tail(c)[k] : k \in 1..(i - 1)}
      OBVIOUS
    <3>1. j - 1 \in 1..(i - 1) /\ j - 1 \in 1..(Len(c) - 1)
      BY <1>1
    <3>2. Tail(c)[j - 1] = c[j]
      BY <1>1, <3>1
    <3> QED
      BY <3>1, <3>2
  <2> QED
    BY <1>1, <2>2, <2>3
<1> QED
  BY <1>1, <1>2, <1>3 DEF Ordered

------------------------------------------------------------------------------
(* The graph. *)

\* Need is the least set that holds the targets and is closed under predecessors.
LEMMA NeedFacts ==
    ASSUME TypeOK
    PROVE  /\ Need \subseteq Nodes
           /\ targets \subseteq Need
           /\ \A x \in Need : Preds(adj, x) \subseteq Need
           /\ \A C \in SUBSET Nodes :
                targets \subseteq C /\ (\A x \in C : Preds(adj, x) \subseteq C) => Need \subseteq C
<1>1. \A x : Preds(adj, x) \subseteq Nodes
  BY DEF Preds
<1>2. \A x \in Need : Preds(adj, x) \subseteq Need
  <2> SUFFICES ASSUME NEW x \in Need, NEW y \in Preds(adj, x), NEW C \in SUBSET Nodes,
                      targets \subseteq C, \A z \in C : Preds(adj, z) \subseteq C
               PROVE  y \in C
    BY <1>1 DEF Need, computeNeededNodes
  <2>1. x \in C
    BY DEF Need, computeNeededNodes
  <2> QED
    BY <2>1
<1> QED
  BY <1>2 DEF Need, computeNeededNodes, TypeOK

LEMMA PredsFinite ==
    ASSUME NEW g, NEW v, NEW D
    PROVE  /\ IsFiniteSet(Preds(g, v) \ D)
           /\ Cardinality(Preds(g, v) \ D) \in Nat
           /\ Cardinality(Preds(g, v) \ D) = 0 <=> Preds(g, v) \subseteq D
<1>1. IsFiniteSet(Nodes)
  BY SchedulerAssumption, FS_Interval DEF Nodes
<1>2. IsFiniteSet(Preds(g, v) \ D)
  BY <1>1, FS_Subset DEF Preds
<1> QED
  BY <1>2, FS_CardinalityType, FS_EmptySet

\* Completing (or admitting) u takes one from the count of open predecessors of
\* its successors and nothing from the others.
LEMMA CountDown ==
    ASSUME NEW P, IsFiniteSet(P), NEW Q, NEW u, Q = P \ {u}
    PROVE  Cardinality(Q) = IF u \in P THEN Cardinality(P) - 1 ELSE Cardinality(P)
<1>1. CASE u \in P
  BY <1>1, FS_RemoveElement
<1>2. CASE u \notin P
  <2>1. Q = P
    BY <1>2
  <2> QED
    BY <1>2, <2>1
<1> QED
  BY <1>1, <1>2

------------------------------------------------------------------------------
(* The inductive invariant. *)

Apart(c, d) == SeqSet(c) \cap SeqSet(d) = {}

\* A launched chunk whose nodes are not completed: distinct, needed, ordered.
Pending(c) ==
    /\ c \in Seq(Nodes)
    /\ Distinct(c)
    /\ SeqSet(c) \subseteq Need
    /\ SeqSet(c) \subseteq launched
    /\ SeqSet(c) \cap completed = {}
    /\ Ordered(adj, c, completed)

\* The counters the code keeps are the numbers of open predecessors.
Counters ==
    /\ \A v \in Nodes : indeg[v] = Cardinality(Preds(adj, v) \ completed)
    /\ pc = "build" => \A v \in Nodes :
         simIndeg[v] = Cardinality(Preds(adj, v) \ (completed \cup SeqSet(chunk)))

\* The outstanding chunks are pending and pairwise disjoint.
Chunks ==
    /\ \A c \in running : Pending(c) /\ c # <<>> /\ Apart(c, event)
    /\ \A i \in DOMAIN completionCh : /\ Pending(completionCh[i])
                                      /\ completionCh[i] # <<>>
                                      /\ Apart(completionCh[i], event)
    /\ Pending(event)
    /\ pc # "relax" => event = <<>>
    /\ \A c, d \in running : c # d => Apart(c, d)
    /\ \A c \in running : \A i \in DOMAIN completionCh : Apart(c, completionCh[i])
    /\ \A i, j \in DOMAIN completionCh : i # j => Apart(completionCh[i], completionCh[j])

\* Every launched node is completed or outstanding; completed nodes were launched
\* and so were their predecessors.
Progress ==
    /\ completed \subseteq launched
    /\ completed \subseteq Need
    /\ \A u \in launched : \/ u \in completed
                           \/ u \in SeqSet(event)
                           \/ \E c \in running : u \in SeqSet(c)
                           \/ \E i \in DOMAIN completionCh : u \in SeqSet(completionCh[i])
    /\ \A u \in completed : Preds(adj, u) \subseteq completed

\* The ready set: sound (its nodes can run and, unless they are of the chunk being
\* handled, were not launched) and complete (a needed node that can run is there or
\* was launched).
ReadySet ==
    /\ \A u \in ready : /\ u \in Need
                        /\ Preds(adj, u) \subseteq completed
                        /\ u \in launched => u \in completed \cup SeqSet(event)
    /\ pc \notin {"start", "returned"} =>
         \A u \in Need : Preds(adj, u) \subseteq completed => u \in ready \cup launched

\* The chunk under construction and the nodes that may still join it.
Building ==
    pc = "build" =>
        /\ Distinct(chunk)
        /\ SeqSet(chunk) \subseteq Need
        /\ SeqSet(chunk) \cap launched = {}
        /\ Ordered(adj, chunk, completed)
        /\ \A u \in simReady : /\ u \in Need
                               /\ u \notin launched
                               /\ u \notin SeqSet(chunk)
                               /\ Preds(adj, u) \subseteq completed \cup SeqSet(chunk)

\* The counter of chunks in flight.
Flight ==
    /\ IsFiniteSet(running)
    /\ inflight = Cardinality(running) + Len(completionCh)
    /\ inflight <= NParallel
    /\ pc = "build" => inflight < NParallel

\* Control: the graph is acyclic once the call is past its checks, tryLaunch is
\* retried only while a target is missing, and success means all are there.
Control ==
    /\ pc \notin {"start", "returned"} => Acyclic(adj)
    /\ retry => pc \in {"launch", "build", "returned"} /\ ~(targets \subseteq completed)
    /\ result = "ok" => pc = "returned" /\ targets \subseteq completed
    /\ result # "deadlock"
    /\ pc = "start" => launched = {} /\ result = "none"

IInv == /\ TypeOK /\ Counters /\ Chunks /\ Progress /\ ReadySet /\ Building
        /\ Flight /\ Control
------------------------------------------------------------------------------
(* Preservation. *)

LEMMA TypeStep == TypeOK /\ [Next]_vars => TypeOK'
<1> SUFFICES ASSUME TypeOK, [Next]_vars PROVE TypeOK'
  OBVIOUS
<1> USE SchedulerAssumption DEF TypeOK, Outcomes
<1>1. CASE Start
  BY <1>1, NeedFacts DEF Start, Return, args, build
<1>2. CASE BeginBuild
  BY <1>2 DEF BeginBuild, Cands, args
<1>3. ASSUME NEW u \in Nodes, Admit(u) PROVE TypeOK'
  <2>1. chunk' \in Seq(Nodes)
    BY <1>3, SeqSetAppend DEF Admit
  <2>2. weight[u] \in Int
    <3>1. weight[u] \in Weights
      OBVIOUS
    <3> QED
      BY <3>1
  <2>3. simReady' \subseteq Nodes
    BY <1>3 DEF Admit, Unlocked
  <2> QED
    BY <1>3, <2>1, <2>2, <2>3 DEF Admit, args
<1>4. CASE HeavyError \/ LaunchError \/ CtxDone
  BY <1>4 DEF HeavyError, LaunchError, CtxDone, Return, args, build
<1>5. CASE Launch
  BY <1>5, SeqSetSub DEF Launch, args, build
<1>6. CASE LaunchExit \/ LoopHead \/ RelaxDone
  BY <1>6 DEF LaunchExit, LoopHead, RelaxDone, Return, args, build
<1>7. CASE TakeCompletion
  <2>1. event' \in Seq(Nodes) /\ completionCh' \in Seq(Seq(Nodes))
    BY <1>7, SeqSetTail DEF TakeCompletion
  <2> QED
    BY <1>7, <2>1 DEF TakeCompletion, args, build
<1>8. CASE Relax
  <2>1. Head(event) \in Nodes /\ Tail(event) \in Seq(Nodes)
    BY <1>8, SeqSetTail DEF Relax
  <2>2. indeg' \in [Nodes -> Int]
    BY <1>8 DEF Relax
  <2>3. completed' \subseteq Nodes /\ ready' \subseteq Nodes
    BY <1>8, <2>1 DEF Relax
  <2> QED
    BY <1>8, <2>1, <2>2, <2>3 DEF Relax, args, build
<1>9. ASSUME NEW c \in running, Finish(c) PROVE TypeOK'
  <2>1. completionCh' \in Seq(Seq(Nodes))
    BY <1>9, SeqSetAppend DEF Finish
  <2> QED
    BY <1>9, <2>1 DEF Finish, args, build
<1>10. CASE UNCHANGED vars
  BY <1>10 DEF vars, args, build
<1> QED
  BY <1>1, <1>2, <1>3, <1>4, <1>5, <1>6, <1>7, <1>8, <1>9, <1>10 DEF Next, Scheduler


\* With nothing in flight, nothing to launch and a target missing, some needed
\* node would have all its predecessors completed: it would be ready.
LEMMA AlwaysSomethingToDo ==
    ASSUME IInv, pc = "launch", retry, inflight = 0, Cands = {} PROVE FALSE
<1>1. running = {} /\ completionCh = <<>>
  <2>1. Cardinality(running) \in Nat /\ Len(completionCh) \in Nat
    BY FS_CardinalityType DEF IInv, Flight, TypeOK
  <2>2. Cardinality(running) = 0 /\ Len(completionCh) = 0
    BY <2>1 DEF IInv, Flight
  <2>3. running = {}
    BY <2>2, FS_EmptySet DEF IInv, Flight
  <2>4. completionCh = <<>>
    BY <2>2 DEF IInv, TypeOK
  <2> QED
    BY <2>3, <2>4
<1>2. event = <<>>
  BY DEF IInv, Chunks
<1>3. launched \subseteq completed
  BY <1>1, <1>2, EmptySeqSet DEF IInv, Progress
<1>4. Need \ completed # {}
  BY NeedFacts DEF IInv, Control
<1>5. Acyclic(adj)
  BY DEF IInv, Control
<1>6. PICK u \in Need \ completed : Preds(adj, u) \cap (Need \ completed) = {}
  BY <1>4, <1>5, NeedFacts DEF Acyclic, IInv
<1>7. Preds(adj, u) \subseteq completed
  BY <1>6, NeedFacts DEF IInv
<1>8. u \in ready \cup launched
  BY <1>6, <1>7 DEF IInv, ReadySet
<1> QED
  BY <1>3, <1>6, <1>8 DEF Cands

\* Steps that move the control only.
LEMMA ControlStep ==
    ASSUME IInv,
           \/ HeavyError \/ LaunchError \/ LaunchExit \/ LoopHead \/ CtxDone
           \/ RelaxDone \/ UNCHANGED vars
    PROVE  (Counters /\ Chunks /\ Progress /\ ReadySet /\ Building /\ Flight /\ Control)'
<1>1. /\ UNCHANGED <<adj, targets, completed, launched, running, completionCh, event,
                     inflight, indeg, chunk, simReady, simIndeg>>
      /\ ready' \subseteq ready
      /\ pc' = "build" => pc = "build"
      /\ ready' = ready \/ pc' = "returned"
      /\ pc' \notin {"start", "returned"} => pc \notin {"start", "returned"}
      /\ pc = "relax" /\ pc' # "relax" => event = <<>>
  BY DEF HeavyError, LaunchError, LaunchExit, LoopHead, CtxDone, RelaxDone, Return, vars, args, build, Full
<1>2. Need' = Need
  BY <1>1 DEF Need
<1>3. Counters'
  BY <1>1 DEF IInv, Counters
<1>4. Chunks'
  BY <1>1, <1>2 DEF IInv, Chunks, Pending
<1>5. Progress'
  BY <1>1, <1>2 DEF IInv, Progress
<1>6. ReadySet'
  BY <1>1, <1>2 DEF IInv, ReadySet
<1>7. Building'
  BY <1>1, <1>2 DEF IInv, Building
<1>8. Flight'
  BY <1>1 DEF IInv, Flight
<1>9. Control'
  <2>1. CASE LaunchExit
    <3>1. ~(retry /\ inflight = 0)
      BY <2>1, AlwaysSomethingToDo, SchedulerAssumption DEF LaunchExit
    <3> QED
      BY <1>1, <2>1, <3>1 DEF IInv, Control, LaunchExit, Return
  <2>2. CASE LoopHead
    BY <1>1, <2>2 DEF IInv, Control, LoopHead, Return
  <2>3. CASE HeavyError \/ LaunchError \/ CtxDone \/ RelaxDone \/ UNCHANGED vars
    BY <1>1, <2>3 DEF IInv, Control, HeavyError, LaunchError, CtxDone, RelaxDone, Return, vars, args
  <2> QED
    BY <2>1, <2>2, <2>3
<1> QED
  BY <1>3, <1>4, <1>5, <1>6, <1>7, <1>8, <1>9

\* The needed sources become ready.
LEMMA StartStep ==
    ASSUME IInv, Start
    PROVE  (Counters /\ Chunks /\ Progress /\ ReadySet /\ Building /\ Flight /\ Control)'
<1>1. /\ UNCHANGED <<adj, targets, completed, launched, running, completionCh, event,
                     inflight, indeg, chunk, simReady, simIndeg, retry>>
      /\ pc = "start" /\ pc' \in {"launch", "returned"}
  BY DEF Start, Return, args, build
<1>2. Need' = Need
  BY <1>1 DEF Need
<1>3. Counters'
  BY <1>1 DEF IInv, Counters
<1>4. Chunks'
  BY <1>1, <1>2 DEF IInv, Chunks, Pending
<1>5. Progress'
  BY <1>1, <1>2 DEF IInv, Progress
<1>6. ReadySet'
  <2>1. CASE ~Acyclic(adj)
    BY <1>1, <1>2, <2>1 DEF IInv, ReadySet, Start, Return
  <2>2. CASE Acyclic(adj)
    <3>1. ready' = {u \in Need : indeg[u] = 0}
      BY <2>2 DEF Start
    <3>2. \A u \in Need : indeg[u] = 0 <=> Preds(adj, u) \subseteq completed
      BY PredsFinite, NeedFacts DEF IInv, Counters
    <3>3. \A u \in ready' : u \in launched => u \in completed \cup SeqSet(event)
      BY <1>1, <3>1, <3>2 DEF IInv, Control, Progress
    <3> QED
      BY <1>1, <1>2, <3>1, <3>2, <3>3 DEF ReadySet
  <2> QED
    BY <2>1, <2>2
<1>7. Building' /\ Flight'
  BY <1>1 DEF IInv, Building, Flight
<1>8. Control'
  BY <1>1 DEF IInv, Control, Start, Return
<1> QED
  BY <1>3, <1>4, <1>5, <1>6, <1>7, <1>8

\* buildChunkDesc starts from the candidates.
LEMMA BeginBuildStep ==
    ASSUME IInv, BeginBuild
    PROVE  (Counters /\ Chunks /\ Progress /\ ReadySet /\ Building /\ Flight /\ Control)'
<1>1. /\ UNCHANGED <<adj, targets, completed, launched, running, completionCh, event,
                     inflight, indeg, ready, retry, result>>
      /\ pc = "launch" /\ pc' = "build" /\ chunk' = <<>> /\ simIndeg' = indeg
      /\ simReady' = ready \ completed /\ inflight < NParallel
  BY DEF BeginBuild, args, Cands
<1>2. Need' = Need
  BY <1>1 DEF Need
<1>3. SeqSet(chunk') = {} /\ SeqSet(event) = {}
  BY <1>1, EmptySeqSet DEF IInv, Chunks
<1>4. Counters'
  BY <1>1, <1>3 DEF IInv, Counters
<1>5. Chunks'
  BY <1>1, <1>2 DEF IInv, Chunks, Pending
<1>6. Progress' /\ ReadySet'
  BY <1>1, <1>2 DEF IInv, Progress, ReadySet
<1>7. Building'
  <2>1. Distinct(chunk') /\ Ordered(adj, chunk', completed)
    BY <1>1 DEF Distinct, Ordered
  <2>2. \A u \in simReady' : u \in Need /\ u \notin launched /\ Preds(adj, u) \subseteq completed
    BY <1>1, <1>3 DEF IInv, ReadySet
  <2> QED
    BY <1>1, <1>2, <1>3, <2>1, <2>2 DEF Building
<1>8. Flight' /\ Control'
  BY <1>1 DEF IInv, Flight, Control
<1> QED
  BY <1>4, <1>5, <1>6, <1>7, <1>8

\* A node joins the chunk: the nodes it unlocks were never launched, because a
\* launched node has its open predecessors in its own chunk.
LEMMA AdmitStep ==
    ASSUME IInv, NEW u \in Nodes, Admit(u)
    PROVE  (Counters /\ Chunks /\ Progress /\ ReadySet /\ Building /\ Flight /\ Control)'
<1>1. /\ UNCHANGED <<adj, targets, completed, launched, running, completionCh, event,
                     inflight, indeg, ready, retry, result, pc>>
      /\ pc = "build" /\ u \in simReady /\ chunk' = Append(chunk, u)
      /\ simReady' = (simReady \ {u}) \cup Unlocked(u)
      /\ simIndeg' = [v \in Nodes |-> IF v \in adj[u] THEN simIndeg[v] - 1 ELSE simIndeg[v]]
  BY DEF Admit, args
<1>2. Need' = Need
  BY <1>1 DEF Need
<1>3. chunk \in Seq(Nodes) /\ SeqSet(chunk') = SeqSet(chunk) \cup {u}
  BY <1>1, SeqSetAppend DEF IInv, TypeOK
<1>4. /\ u \in Need /\ u \notin launched /\ u \notin completed /\ u \notin SeqSet(chunk)
      /\ Preds(adj, u) \subseteq completed \cup SeqSet(chunk)
  BY <1>1 DEF IInv, Building, Progress
<1> DEFINE D == completed \cup SeqSet(chunk)
<1>5. \A v \in Nodes : simIndeg'[v] = Cardinality(Preds(adj, v) \ (D \cup {u}))
  <2> SUFFICES ASSUME NEW v \in Nodes
               PROVE  simIndeg'[v] = Cardinality(Preds(adj, v) \ (D \cup {u}))
    OBVIOUS
  <2>1. simIndeg[v] = Cardinality(Preds(adj, v) \ D)
    BY <1>1 DEF IInv, Counters
  <2>2. u \in Preds(adj, v) \ D <=> v \in adj[u]
    BY <1>4 DEF Preds
  <2>3. Preds(adj, v) \ (D \cup {u}) = (Preds(adj, v) \ D) \ {u}
    OBVIOUS
  <2> HIDE DEF D
  <2>4. IsFiniteSet(Preds(adj, v) \ D)
    BY PredsFinite
  <2>5. Cardinality(Preds(adj, v) \ (D \cup {u})) =
          IF u \in Preds(adj, v) \ D THEN Cardinality(Preds(adj, v) \ D) - 1
                                     ELSE Cardinality(Preds(adj, v) \ D)
    BY <2>3, <2>4, CountDown
  <2> QED
    BY <1>1, <2>1, <2>2, <2>5
<1>6. completed' \cup SeqSet(chunk') = D \cup {u}
  BY <1>1, <1>3
<1>7. Counters'
  BY <1>1, <1>5, <1>6 DEF IInv, Counters
<1>8. Chunks'
  BY <1>1, <1>2 DEF IInv, Chunks, Pending
<1>9. Progress' /\ ReadySet' /\ Flight' /\ Control'
  BY <1>1, <1>2 DEF IInv, Progress, ReadySet, Flight, Control
<1>10. Building'
  <2>1. Distinct(chunk')
    BY <1>1, <1>3, <1>4, DistinctAppend DEF IInv, Building
  <2>2. Ordered(adj, chunk', completed)
    BY <1>1, <1>3, <1>4, OrderedAppend DEF IInv, Building
  <2>3. SeqSet(chunk') \subseteq Need /\ SeqSet(chunk') \cap launched = {}
    BY <1>1, <1>3, <1>4 DEF IInv, Building
  <2>4. ASSUME NEW v \in simReady \ {u}
        PROVE  v \in Need /\ v \notin launched /\ v \notin SeqSet(chunk')
               /\ Preds(adj, v) \subseteq completed \cup SeqSet(chunk')
    BY <1>1, <1>3 DEF IInv, Building
  <2>5. ASSUME NEW v \in Unlocked(u)
        PROVE  v \in Need /\ v \notin launched /\ v \notin SeqSet(chunk')
               /\ Preds(adj, v) \subseteq completed \cup SeqSet(chunk')
    <3>1. /\ v \in adj[u] /\ v \in Need /\ v \in Nodes /\ simIndeg[v] = 1
          /\ v \notin completed /\ v \notin SeqSet(chunk')
      BY <1>3, NeedFacts DEF Unlocked, IInv
    <3>2. Cardinality(Preds(adj, v) \ (D \cup {u})) = 0
      BY <1>1, <1>5, <3>1
    <3>3. Preds(adj, v) \subseteq D \cup {u}
      <4> HIDE DEF D
      <4> QED
        BY <3>2, PredsFinite
    <3>4. u \in Preds(adj, v)
      BY <3>1 DEF Preds
    <3>5. ASSUME NEW c, Pending(c), v \in SeqSet(c) PROVE FALSE
      <4>1. PICK i \in DOMAIN c : c[i] = v
        BY <3>5 DEF SeqSet
      <4>2. u \in completed \cup {c[j] : j \in 1..(i - 1)}
        BY <3>4, <3>5, <4>1 DEF Pending, Ordered
      <4>3. c \in Seq(Nodes) /\ i \in 1..Len(c) /\ Len(c) \in Nat /\ DOMAIN c = 1..Len(c)
        BY <3>5, <4>1 DEF Pending
      <4>4. \A j \in 1..(i - 1) : c[j] \in SeqSet(c)
        BY <4>3 DEF SeqSet
      <4>5. u \in SeqSet(c)
        BY <1>4, <4>2, <4>4
      <4> QED
        BY <1>4, <3>5, <4>5 DEF Pending
    <3>6. v \notin launched
      BY <3>1, <3>5 DEF IInv, Progress, Chunks
    <3> QED
      BY <1>6, <3>1, <3>3, <3>6, <1>1
  <2> QED
    BY <1>1, <1>2, <2>1, <2>2, <2>3, <2>4, <2>5 DEF Building
<1> QED
  BY <1>7, <1>8, <1>9, <1>10

\* A chunk is launched: its nodes leave the ready set and count as launched.
LEMMA LaunchStep ==
    ASSUME IInv, Launch
    PROVE  (Counters /\ Chunks /\ Progress /\ ReadySet /\ Building /\ Flight /\ Control)'
<1>1. /\ UNCHANGED <<adj, targets, completed, completionCh, event, indeg, retry, result>>
      /\ pc = "build" /\ pc' = "launch" /\ chunk # <<>>
      /\ ready' = ready \ SeqSet(chunk)
      /\ running' = running \cup {chunk}
      /\ launched' = launched \cup SeqSet(chunk)
      /\ inflight' = inflight + 1
  BY DEF Launch, Full, args
<1>2. Need' = Need
  BY <1>1 DEF Need
<1>3. /\ chunk \in Seq(Nodes) /\ Distinct(chunk) /\ SeqSet(chunk) \subseteq Need
      /\ SeqSet(chunk) \cap launched = {} /\ Ordered(adj, chunk, completed)
      /\ SeqSet(chunk) \cap completed = {}
  BY <1>1 DEF IInv, TypeOK, Building, Progress
<1>4. event = <<>> /\ SeqSet(event) = {}
  BY <1>1, EmptySeqSet DEF IInv, Chunks
<1>5. Counters'
  BY <1>1 DEF IInv, Counters
<1>6. Chunks'
  <2>1. \A c : Pending(c) => Apart(chunk, c) /\ Apart(c, chunk)
    BY <1>3 DEF Pending, Apart
  <2>2. \A c \in running : Pending(c) /\ c # <<>>
    BY DEF IInv, Chunks
  <2>3. \A i \in DOMAIN completionCh : Pending(completionCh[i]) /\ completionCh[i] # <<>>
    BY DEF IInv, Chunks
  <2>4. \A c : c \in Seq(Nodes) /\ Distinct(c) /\ SeqSet(c) \subseteq Need /\ SeqSet(c) \subseteq launched'
               /\ SeqSet(c) \cap completed = {} /\ Ordered(adj, c, completed)
               => (c \in Seq(Nodes) /\ Distinct(c) /\ SeqSet(c) \subseteq Need' /\ SeqSet(c) \subseteq launched'
                   /\ SeqSet(c) \cap completed' = {} /\ Ordered(adj', c, completed'))
    BY <1>1, <1>2
  <2>5. \A c : Apart(c, event)
    BY <1>4 DEF Apart
  <2>6. (\A c \in running : Pending(c) /\ c # <<>> /\ Apart(c, event))'
    BY <1>1, <1>3, <2>2, <2>4, <2>5 DEF Pending
  <2>7. (\A i \in DOMAIN completionCh : Pending(completionCh[i]) /\ completionCh[i] # <<>>
                                        /\ Apart(completionCh[i], event))'
    BY <1>1, <2>3, <2>4, <2>5 DEF Pending
  <2>8. Pending(event)'
    BY <1>1, <1>2 DEF IInv, Chunks, Pending
  <2>9. \A c, d \in running' : c # d => Apart(c, d)
    BY <1>1, <2>1, <2>2 DEF IInv, Chunks
  <2>10. \A c \in running' : \A i \in DOMAIN completionCh : Apart(c, completionCh[i])
    BY <1>1, <2>1, <2>3 DEF IInv, Chunks
  <2>11. \A i, j \in DOMAIN completionCh : i # j => Apart(completionCh[i], completionCh[j])
    BY DEF IInv, Chunks
  <2> QED
    BY <1>1, <1>4, <2>6, <2>7, <2>8, <2>9, <2>10, <2>11 DEF Chunks
<1>7. Progress'
  BY <1>1, <1>2 DEF IInv, Progress
<1>8. ReadySet'
  BY <1>1, <1>2, <1>4 DEF IInv, ReadySet
<1>9. Building' /\ Control'
  BY <1>1 DEF IInv, Building, Control
<1>10. Flight'
  <2>1. chunk \notin running
    <3>1. SeqSet(chunk) # {}
      <4>1. chunk[1] \in SeqSet(chunk)
        BY <1>1, <1>3 DEF SeqSet
      <4> QED
        BY <4>1
    <3> QED
      BY <1>3, <3>1 DEF IInv, Chunks, Pending
  <2>2. IsFiniteSet(running') /\ Cardinality(running') = Cardinality(running) + 1
    BY <1>1, <2>1, FS_AddElement DEF IInv, Flight
  <2>3. Cardinality(running) \in Nat /\ Len(completionCh) \in Nat
    BY FS_CardinalityType DEF IInv, Flight, TypeOK
  <2> QED
    BY <1>1, <2>2, <2>3, SchedulerAssumption DEF IInv, Flight
<1> QED
  BY <1>5, <1>6, <1>7, <1>8, <1>9, <1>10

\* The next completion is taken from the channel.
LEMMA TakeStep ==
    ASSUME IInv, TakeCompletion
    PROVE  (Counters /\ Chunks /\ Progress /\ ReadySet /\ Building /\ Flight /\ Control)'
<1>1. /\ UNCHANGED <<adj, targets, completed, launched, running, indeg, ready, retry, result>>
      /\ pc = "select" /\ pc' = "relax" /\ completionCh # <<>>
      /\ event' = Head(completionCh) /\ completionCh' = Tail(completionCh)
      /\ inflight' = inflight - 1
  BY DEF TakeCompletion, args
<1>2. Need' = Need
  BY <1>1 DEF Need
<1>3. /\ Len(completionCh) \in Nat \ {0} /\ DOMAIN completionCh = 1..Len(completionCh)
      /\ event' = completionCh[1] /\ 1 \in DOMAIN completionCh
      /\ DOMAIN completionCh' = 1..(Len(completionCh) - 1)
      /\ Len(completionCh') = Len(completionCh) - 1
      /\ \A i \in DOMAIN completionCh' :
            completionCh'[i] = completionCh[i + 1] /\ i + 1 \in DOMAIN completionCh /\ i + 1 # 1
  BY <1>1 DEF IInv, TypeOK
<1>4. event = <<>> /\ SeqSet(event) = {}
  BY <1>1, EmptySeqSet DEF IInv, Chunks
<1>5. Counters'
  BY <1>1 DEF IInv, Counters
<1>6. Chunks'
  <2>1. \A c \in running : Pending(c) /\ c # <<>> /\ Apart(c, event')
    BY <1>3 DEF IInv, Chunks
  <2>2. \A i \in DOMAIN completionCh' : /\ Pending(completionCh'[i])
                                        /\ completionCh'[i] # <<>>
                                        /\ Apart(completionCh'[i], event')
    BY <1>3 DEF IInv, Chunks
  <2>3. Pending(completionCh[1])
    BY <1>3 DEF IInv, Chunks
  <2>4. \A c \in running : \A i \in DOMAIN completionCh' : Apart(c, completionCh'[i])
    BY <1>3 DEF IInv, Chunks
  <2>5. ASSUME NEW i \in DOMAIN completionCh', NEW j \in DOMAIN completionCh', i # j
        PROVE  Apart(completionCh'[i], completionCh'[j])
    <3>1. i \in Int /\ j \in Int /\ i + 1 # j + 1
      BY <1>3, <2>5
    <3> QED
      BY <1>3, <3>1 DEF IInv, Chunks
  <2> QED
    BY <1>1, <1>2, <1>3, <2>1, <2>2, <2>3, <2>4, <2>5 DEF IInv, Chunks, Pending
<1>7. Progress'
  <2>1. ASSUME NEW u, NEW i \in DOMAIN completionCh, u \in SeqSet(completionCh[i])
        PROVE  u \in SeqSet(event') \/ \E k \in DOMAIN completionCh' : u \in SeqSet(completionCh'[k])
    <3>1. CASE i = 1
      BY <1>3, <2>1, <3>1
    <3>2. CASE i # 1
      <4>1. i - 1 \in DOMAIN completionCh' /\ (i - 1) + 1 = i
        BY <1>3, <3>2
      <4>2. completionCh'[i - 1] = completionCh[i]
        BY <1>3, <4>1
      <4> QED
        BY <2>1, <4>1, <4>2
    <3> QED
      BY <3>1, <3>2
  <2> QED
    BY <1>1, <1>2, <1>4, <2>1 DEF IInv, Progress
<1>8. ReadySet'
  BY <1>1, <1>2, <1>4 DEF IInv, ReadySet
<1>9. Building' /\ Control'
  BY <1>1 DEF IInv, Building, Control
<1>10. Flight'
  <2>1. Cardinality(running) \in Nat
    BY FS_CardinalityType DEF IInv, Flight
  <2> QED
    BY <1>1, <1>3, <2>1, SchedulerAssumption DEF IInv, Flight
<1> QED
  BY <1>5, <1>6, <1>7, <1>8, <1>9, <1>10

\* A node of the finished chunk is completed.  A node this promotes is either of
\* the same chunk, and completed before the ready set is looked at again, or was
\* never launched.
LEMMA RelaxStep ==
    ASSUME IInv, Relax
    PROVE  (Counters /\ Chunks /\ Progress /\ ReadySet /\ Building /\ Flight /\ Control)'
<1> DEFINE u == Head(event)
<1>1. event \in Seq(Nodes) /\ event # <<>> /\ Pending(event)
  BY DEF Relax, IInv, TypeOK, Chunks
<1>2. /\ u \in Nodes /\ Tail(event) \in Seq(Nodes)
      /\ SeqSet(event) = SeqSet(Tail(event)) \cup {u}
      /\ Distinct(Tail(event)) /\ u \notin SeqSet(Tail(event))
      /\ Preds(adj, u) \subseteq completed
      /\ Ordered(adj, Tail(event), completed \cup {u})
  BY <1>1, SeqSetTail, DistinctTail, OrderedTail DEF Pending
<1>3. u \notin completed /\ u \in launched /\ u \in Need
  BY <1>1, <1>2 DEF Pending
<1>4. /\ UNCHANGED <<adj, targets, launched, running, completionCh, retry, result, inflight, pc>>
      /\ pc = "relax" /\ event' = Tail(event) /\ completed' = completed \cup {u}
      /\ indeg' = [v \in Nodes |-> IF v \in adj[u] THEN indeg[v] - 1 ELSE indeg[v]]
      /\ ready' = ready \cup {v \in adj[u] : indeg[v] = 1 /\ v \in Need /\ v \notin completed \cup {u}}
  BY <1>3 DEF Relax, args
<1> HIDE DEF u
<1>5. Need' = Need
  BY <1>4 DEF Need
<1>6. \A v \in Nodes : indeg'[v] = Cardinality(Preds(adj, v) \ completed')
  <2> SUFFICES ASSUME NEW v \in Nodes
               PROVE  indeg'[v] = Cardinality(Preds(adj, v) \ (completed \cup {u}))
    BY <1>4
  <2>1. indeg[v] = Cardinality(Preds(adj, v) \ completed)
    BY DEF IInv, Counters
  <2>2. u \in Preds(adj, v) \ completed <=> v \in adj[u]
    BY <1>2, <1>3 DEF Preds
  <2>3. Preds(adj, v) \ (completed \cup {u}) = (Preds(adj, v) \ completed) \ {u}
    OBVIOUS
  <2>4. IsFiniteSet(Preds(adj, v) \ completed)
    BY PredsFinite
  <2>5. Cardinality(Preds(adj, v) \ (completed \cup {u})) =
          IF u \in Preds(adj, v) \ completed THEN Cardinality(Preds(adj, v) \ completed) - 1
                                             ELSE Cardinality(Preds(adj, v) \ completed)
    BY <2>3, <2>4, CountDown
  <2> QED
    BY <1>4, <2>1, <2>2, <2>5
<1>7. Counters'
  BY <1>4, <1>6 DEF IInv, Counters
<1>8. Chunks'
  <2>1. ASSUME NEW c, Pending(c), Apart(c, event)
        PROVE  /\ c \in Seq(Nodes) /\ Distinct(c) /\ SeqSet(c) \subseteq Need
               /\ SeqSet(c) \subseteq launched /\ SeqSet(c) \cap completed' = {}
               /\ Ordered(adj, c, completed') /\ Apart(c, event')
    <3>1. u \notin SeqSet(c) /\ Apart(c, event')
      BY <1>2, <1>4, <2>1 DEF Apart
    <3>2. Ordered(adj, c, completed')
      BY <1>4, <2>1, OrderedMono DEF Pending
    <3> QED
      BY <1>4, <2>1, <3>1, <3>2 DEF Pending
  <2>2. (\A c \in running : Pending(c) /\ c # <<>> /\ Apart(c, event))'
    BY <1>4, <1>5, <2>1 DEF IInv, Chunks, Pending
  <2>3. (\A i \in DOMAIN completionCh : /\ Pending(completionCh[i])
                                        /\ completionCh[i] # <<>>
                                        /\ Apart(completionCh[i], event))'
    BY <1>4, <1>5, <2>1 DEF IInv, Chunks, Pending
  <2>4. Pending(event)'
    BY <1>1, <1>2, <1>4, <1>5 DEF Pending
  <2> QED
    BY <1>4, <2>2, <2>3, <2>4 DEF IInv, Chunks
<1>9. Progress'
  <2>1. \A v \in SeqSet(event) : v = u \/ v \in SeqSet(event')
    BY <1>2, <1>4
  <2>2. completed' \subseteq launched' /\ completed' \subseteq Need'
    BY <1>3, <1>4, <1>5 DEF IInv, Progress
  <2>3. \A x \in completed' : Preds(adj, x) \subseteq completed'
    BY <1>2, <1>4 DEF IInv, Progress
  <2> QED
    BY <1>4, <2>1, <2>2, <2>3 DEF IInv, Progress
<1>10. ReadySet'
  <2>1. ASSUME NEW v \in Nodes, v \in adj[u], v \notin completed
        PROVE  v \in launched => v \in SeqSet(event')
    <3> SUFFICES ASSUME v \in launched PROVE v \in SeqSet(event')
      OBVIOUS
    <3>1. u \in Preds(adj, v)
      BY <1>2, <2>1 DEF Preds
    <3>2. ASSUME NEW c, Pending(c), v \in SeqSet(c) PROVE u \in SeqSet(c)
      <4>1. PICK i \in DOMAIN c : c[i] = v
        BY <3>2 DEF SeqSet
      <4>2. u \in completed \cup {c[j] : j \in 1..(i - 1)}
        BY <3>1, <3>2, <4>1 DEF Pending, Ordered
      <4>3. c \in Seq(Nodes) /\ i \in 1..Len(c) /\ Len(c) \in Nat /\ DOMAIN c = 1..Len(c)
        BY <3>2, <4>1 DEF Pending
      <4>4. \A j \in 1..(i - 1) : c[j] \in SeqSet(c)
        BY <4>3 DEF SeqSet
      <4> QED
        BY <1>3, <4>2, <4>4
    <3>3. ASSUME NEW c, Pending(c), Apart(c, event), v \in SeqSet(c) PROVE FALSE
      BY <1>2, <3>2, <3>3 DEF Apart
    <3>4. v \in SeqSet(event)
      BY <2>1, <3>3 DEF IInv, Progress, Chunks
    <3>5. v # u
      BY <1>2, <1>3, <3>1
    <3> QED
      BY <1>2, <1>4, <3>4, <3>5
  <2>2. ASSUME NEW v \in ready'
        PROVE  /\ v \in Need /\ Preds(adj, v) \subseteq completed'
               /\ v \in launched => v \in completed' \cup SeqSet(event')
    <3>1. CASE v \in ready
      BY <1>2, <1>4, <3>1 DEF IInv, ReadySet
    <3>2. CASE v \in adj[u] /\ indeg[v] = 1 /\ v \in Need /\ v \notin completed \cup {u}
      <4>1. v \in Nodes
        BY <3>2, NeedFacts DEF IInv
      <4>2. Cardinality(Preds(adj, v) \ completed') = 0
        BY <1>4, <1>6, <3>2, <4>1
      <4>3. Preds(adj, v) \subseteq completed'
        BY <4>2, PredsFinite
      <4> QED
        BY <2>1, <3>2, <4>1, <4>3
    <3> QED
      BY <1>4, <3>1, <3>2
  <2>3. ASSUME NEW v \in Need, Preds(adj, v) \subseteq completed'
        PROVE  v \in ready' \cup launched'
    <3>1. CASE u \notin Preds(adj, v)
      <4>1. Preds(adj, v) \subseteq completed
        BY <1>4, <2>3, <3>1
      <4> QED
        BY <1>4, <4>1 DEF IInv, ReadySet
    <3>2. CASE u \in Preds(adj, v) /\ v \notin launched
      <4>1. v \in Nodes /\ v \in adj[u]
        BY <3>2, NeedFacts DEF Preds, IInv
      <4>2. Cardinality(Preds(adj, v) \ completed') = 0
        BY <2>3, PredsFinite
      <4>3. indeg[v] = 1
        <5>1. indeg'[v] = 0 /\ indeg'[v] = indeg[v] - 1 /\ indeg[v] \in Int
          BY <1>4, <1>6, <4>1, <4>2 DEF IInv, TypeOK
        <5> QED
          BY <5>1
      <4>4. v \notin completed \cup {u}
        BY <1>3, <3>2 DEF IInv, Progress
      <4> QED
        BY <1>4, <4>1, <4>3, <4>4
    <3>3. CASE v \in launched
      BY <1>4, <3>3
    <3> QED
      BY <3>1, <3>2, <3>3
  <2> QED
    BY <1>4, <1>5, <2>2, <2>3 DEF ReadySet
<1>11. Building' /\ Flight' /\ Control'
  <2>1. Flight'
    BY <1>4 DEF IInv, Flight
  <2>2. Building'
    BY <1>4 DEF Building
  <2>3. ~retry'
    BY <1>4 DEF IInv, Control
  <2> QED
    BY <1>4, <2>1, <2>2, <2>3 DEF IInv, Control
<1> QED
  BY <1>7, <1>8, <1>9, <1>10, <1>11

\* A chunk finishes and its completion is queued.
LEMMA FinishStep ==
    ASSUME IInv, NEW c \in running, Finish(c)
    PROVE  (Counters /\ Chunks /\ Progress /\ ReadySet /\ Building /\ Flight /\ Control)'
<1>1. /\ UNCHANGED <<adj, targets, completed, launched, event, indeg, ready, retry, result,
                     inflight, pc, chunk, simReady, simIndeg>>
      /\ running' = running \ {c} /\ completionCh' = Append(completionCh, c)
  BY DEF Finish, args, build
<1>2. Need' = Need
  BY <1>1 DEF Need
<1>3. /\ Len(completionCh) \in Nat /\ DOMAIN completionCh = 1..Len(completionCh)
      /\ DOMAIN completionCh' = 1..(Len(completionCh) + 1)
      /\ Len(completionCh') = Len(completionCh) + 1
      /\ completionCh'[Len(completionCh) + 1] = c
      /\ \A i \in DOMAIN completionCh : completionCh'[i] = completionCh[i]
  BY <1>1 DEF IInv, TypeOK
<1>4. \A i \in DOMAIN completionCh' : i \in DOMAIN completionCh \/ completionCh'[i] = c
  BY <1>3
<1>5. Counters'
  BY <1>1 DEF IInv, Counters
<1>6. Chunks'
  <2>1. \A i \in DOMAIN completionCh' : /\ Pending(completionCh'[i])
                                        /\ completionCh'[i] # <<>>
                                        /\ Apart(completionCh'[i], event)
    BY <1>3, <1>4 DEF IInv, Chunks
  <2>2. \A d \in running' : \A i \in DOMAIN completionCh' : Apart(d, completionCh'[i])
    BY <1>1, <1>3, <1>4 DEF IInv, Chunks
  <2>3. ASSUME NEW i \in DOMAIN completionCh', NEW j \in DOMAIN completionCh', i # j
        PROVE  Apart(completionCh'[i], completionCh'[j])
    <3>1. \A d, e : Apart(d, e) => Apart(e, d)
      BY DEF Apart
    <3>2. i \in DOMAIN completionCh \/ j \in DOMAIN completionCh
      BY <1>3, <2>3
    <3> QED
      BY <1>3, <1>4, <2>3, <3>1, <3>2 DEF IInv, Chunks
  <2> QED
    BY <1>1, <1>2, <2>1, <2>2, <2>3 DEF IInv, Chunks, Pending
<1>7. Progress'
  <2>1. Len(completionCh) + 1 \in DOMAIN completionCh'
    BY <1>3
  <2>2. ASSUME NEW v, \E d \in running : v \in SeqSet(d)
        PROVE  \/ \E d \in running' : v \in SeqSet(d)
               \/ \E i \in DOMAIN completionCh' : v \in SeqSet(completionCh'[i])
    BY <1>1, <1>3, <2>1, <2>2
  <2>3. ASSUME NEW v, \E i \in DOMAIN completionCh : v \in SeqSet(completionCh[i])
        PROVE  \E i \in DOMAIN completionCh' : v \in SeqSet(completionCh'[i])
    BY <1>3, <2>3
  <2> QED
    BY <1>1, <1>2, <2>2, <2>3 DEF IInv, Progress
<1>8. ReadySet' /\ Building' /\ Control'
  BY <1>1, <1>2 DEF IInv, ReadySet, Building, Control
<1>9. Flight'
  <2>1. IsFiniteSet(running') /\ Cardinality(running') = Cardinality(running) - 1
    BY <1>1, FS_RemoveElement DEF IInv, Flight
  <2>2. Cardinality(running) \in Nat
    BY FS_CardinalityType DEF IInv, Flight
  <2> QED
    BY <1>1, <1>3, <2>1, <2>2 DEF IInv, Flight
<1> QED
  BY <1>5, <1>6, <1>7, <1>8, <1>9

------------------------------------------------------------------------------
(* The theorems. *)

\* IInv holds in every reachable state.
THEOREM Invariance == Spec => []IInv
<1>1. Init => IInv
  <2> SUFFICES ASSUME Init PROVE IInv
    OBVIOUS
  <2>1. TypeOK
    <3>1. ASSUME NEW v \in Nodes PROVE Cardinality(Preds(adj, v)) \in Int
      <4>1. Preds(adj, v) \ {} = Preds(adj, v)
        OBVIOUS
      <4>2. Cardinality(Preds(adj, v) \ {}) \in Nat
        BY PredsFinite, Zenon
      <4> QED
        BY <4>1, <4>2
    <3>2. computeIndegrees(adj) \in [Nodes -> Int]
      BY <3>1 DEF computeIndegrees
    <3>3. <<>> \in Seq(Nodes) /\ <<>> \in Seq(Seq(Nodes))
      OBVIOUS
    <3>4. adj \in [Nodes -> SUBSET Nodes] /\ targets \subseteq Nodes /\ weight \in [Nodes -> Weights]
      BY DEF Init
    <3>5. indeg \in [Nodes -> Int] /\ simIndeg \in [Nodes -> Int]
      BY <3>2 DEF Init
    <3>6. /\ pc \in {"start", "launch", "build", "head", "select", "relax", "returned"}
          /\ result \in Outcomes /\ retry \in BOOLEAN
      BY DEF Init, Outcomes
    <3>7. /\ ready \subseteq Nodes /\ completed \subseteq Nodes /\ launched \subseteq Nodes
          /\ simReady \subseteq Nodes /\ inflight \in Int /\ total \in Int
      BY DEF Init
    <3>8. /\ running \subseteq Seq(Nodes) /\ completionCh \in Seq(Seq(Nodes))
          /\ event \in Seq(Nodes) /\ chunk \in Seq(Nodes)
      BY <3>3 DEF Init
    <3> QED
      BY <3>4, <3>5, <3>6, <3>7, <3>8 DEF TypeOK
  <2>2. Counters
    <3>1. \A v : Preds(adj, v) \ {} = Preds(adj, v)
      OBVIOUS
    <3> QED
      BY <3>1 DEF Init, Counters, computeIndegrees
  <2>3. Chunks
    <3>1. Pending(<<>>)
      BY EmptySeqSet DEF Pending, Distinct, Ordered
    <3> QED
      BY <3>1 DEF Init, Chunks
  <2>4. Progress /\ ReadySet /\ Building /\ Control
    BY DEF Init, Progress, ReadySet, Building, Control
  <2>5. Flight
    BY FS_EmptySet, SchedulerAssumption DEF Init, Flight
  <2> QED
    BY <2>1, <2>2, <2>3, <2>4, <2>5 DEF IInv
<1>2. IInv /\ [Next]_vars => IInv'
  <2> SUFFICES ASSUME IInv, [Next]_vars PROVE IInv'
    OBVIOUS
  <2>1. TypeOK'
    BY TypeStep DEF IInv
  <2>2. (Counters /\ Chunks /\ Progress /\ ReadySet /\ Building /\ Flight /\ Control)'
    <3>1. \/ HeavyError \/ LaunchError \/ LaunchExit \/ LoopHead \/ CtxDone
          \/ RelaxDone \/ UNCHANGED vars \/ Start \/ BeginBuild \/ Launch
          \/ TakeCompletion \/ Relax
          \/ (\E u \in Nodes : Admit(u)) \/ (\E c \in running : Finish(c))
      BY DEF Next, Scheduler
    <3> QED
      BY <3>1, ControlStep, StartStep, BeginBuildStep, AdmitStep, LaunchStep, TakeStep,
         RelaxStep, FinishStep
  <2> QED
    BY <2>1, <2>2 DEF IInv
<1> QED
  BY <1>1, <1>2, PTL DEF Spec

\* Types, for every graph.
THEOREM TypeCorrect == Spec => []TypeOK
<1>1. IInv => TypeOK
  BY DEF IInv
<1> QED
  BY <1>1, Invariance, PTL

\* No node of any graph is launched twice.
THEOREM NoNodeTwice == Spec => []RunAtMostOnce
<1>1. IInv => RunAtMostOnce
  BY DEF IInv, Building, RunAtMostOnce, Distinct
<1> QED
  BY <1>1, Invariance, PTL

\* No node of any graph is run before what it depends on.
THEOREM OrderRespected == Spec => []DependenciesRespected
<1>1. IInv => DependenciesRespected
  BY DEF IInv, Chunks, Pending, DependenciesRespected, Outstanding, SeqSet
<1> QED
  BY <1>1, Invariance, PTL

\* The counter of chunks in flight is exact and bounded by nParallel.
THEOREM ParallelismBounded == Spec => []InflightExact
<1>1. IInv => InflightExact
  BY DEF IInv, Flight, InflightExact
<1> QED
  BY <1>1, Invariance, PTL

\* On an acyclic graph the scheduler never gives up with its "deadlock" error.
THEOREM NeverDeadlocks == Spec => []NoSpuriousDeadlock
<1>1. IInv => NoSpuriousDeadlock
  BY DEF IInv, Control, NoSpuriousDeadlock
<1> QED
  BY <1>1, Invariance, PTL

\* Success means that exactly the needed nodes are completed and that no chunk is
\* left running behind the caller's back.
THEOREM SuccessComplete == Spec => []SuccessIsComplete
<1>1. IInv => SuccessIsComplete
  <2> SUFFICES ASSUME IInv, result = "ok"
               PROVE  completed = Need /\ running = {} /\ completionCh = <<>> /\ inflight = 0
    BY DEF SuccessIsComplete
  <2>1. Need \subseteq completed
    BY NeedFacts DEF IInv, TypeOK, Control, Progress
  <2>2. \A d : Pending(d) /\ d # <<>> => FALSE
    <3> SUFFICES ASSUME NEW d, Pending(d), d # <<>> PROVE FALSE
      OBVIOUS
    <3>1. d[1] \in SeqSet(d)
      BY DEF Pending, SeqSet
    <3> QED
      BY <2>1, <3>1 DEF Pending
  <2>3. running = {}
    BY <2>2 DEF IInv, Chunks
  <2>4. completionCh = <<>>
    <3>1. DOMAIN completionCh = {} /\ completionCh \in Seq(Seq(Nodes))
      BY <2>2 DEF IInv, Chunks, TypeOK
    <3> QED
      BY <3>1
  <2>5. inflight = 0
    BY <2>3, <2>4, FS_EmptySet DEF IInv, Flight
  <2>6. completed \subseteq Need
    BY DEF IInv, Progress
  <2> QED
    BY <2>1, <2>3, <2>4, <2>5, <2>6
<1> QED
  BY <1>1, Invariance, PTL

------------------------------------------------------------------------------
(* The capacity error, on top of IInv. *)

Light(S) == \A u \in S : weight[u] <= CapPerChunk

\* Only light nodes are launched or are in the chunk being built, which is empty
\* only while it has candidates and weighs nothing.
HeavyInv ==
    /\ Light(launched)
    /\ pc = "build" => /\ total \in Nat
                       /\ Light(SeqSet(chunk))
                       /\ chunk = <<>> => total = 0 /\ simReady # {}
    /\ result = "heavy" => HeavyNeeded # {}

LEMMA HeavyNext == IInv /\ HeavyInv /\ [Next]_vars => HeavyInv'
<1> SUFFICES ASSUME IInv, HeavyInv, [Next]_vars PROVE HeavyInv'
  OBVIOUS
<1>1. UNCHANGED args
  BY DEF Next, Scheduler, Start, BeginBuild, Admit, HeavyError, LaunchError, Launch,
         LaunchExit, LoopHead, CtxDone, TakeCompletion, Relax, RelaxDone, Finish, vars
<1>2. HeavyNeeded' = HeavyNeeded /\ weight' = weight
  BY <1>1 DEF HeavyNeeded, Need, args
<1>3. CASE BeginBuild
  <2>1. /\ chunk' = <<>> /\ total' = 0 /\ simReady' # {}
        /\ launched' = launched /\ result' = result
    BY <1>3 DEF BeginBuild
  <2>2. SeqSet(chunk') = {}
    BY <2>1, EmptySeqSet
  <2> QED
    BY <1>2, <2>1, <2>2 DEF HeavyInv, Light
<1>4. ASSUME NEW u \in Nodes, Admit(u) PROVE HeavyInv'
  <2>1. /\ pc = "build" /\ total + weight[u] <= CapPerChunk
        /\ chunk' = Append(chunk, u) /\ total' = total + weight[u]
        /\ launched' = launched /\ result' = result
    BY <1>4 DEF Admit, Fits
  <2>2. weight[u] \in Nat /\ total \in Nat /\ chunk \in Seq(Nodes) /\ CapPerChunk \in Nat
    BY <2>1, SchedulerAssumption DEF IInv, TypeOK, HeavyInv
  <2>3. weight[u] <= CapPerChunk /\ total' \in Nat
    BY <2>1, <2>2
  <2>4. SeqSet(chunk') = SeqSet(chunk) \cup {u}
    BY <2>1, <2>2, SeqSetAppend
  <2>5. chunk' # <<>>
    BY <2>1, <2>2
  <2> QED
    BY <1>2, <2>1, <2>3, <2>4, <2>5 DEF HeavyInv, Light
<1>5. CASE HeavyError
  <2>1. /\ pc = "build" /\ pc' = "returned" /\ launched' = launched
        /\ total = 0 /\ simReady # {} /\ \A u \in simReady : ~(total + weight[u] <= CapPerChunk)
    BY <1>5 DEF HeavyError, Full, Fits, Return, HeavyInv
  <2>2. PICK u \in simReady : TRUE
    BY <2>1
  <2>3. u \in Need /\ weight[u] \in Nat
    BY <2>1, <2>2, SchedulerAssumption DEF IInv, TypeOK, Building
  <2>4. weight[u] > CapPerChunk
    BY <2>1, <2>3, SchedulerAssumption
  <2>5. HeavyNeeded # {}
    BY <2>3, <2>4 DEF HeavyNeeded
  <2> QED
    BY <1>2, <2>1, <2>5 DEF HeavyInv, Light
<1>6. CASE Launch
  <2>1. /\ pc = "build" /\ pc' = "launch" /\ launched' = launched \cup SeqSet(chunk)
        /\ result' = result
    BY <1>6 DEF Launch, Full
  <2> QED
    BY <1>2, <2>1 DEF HeavyInv, Light
<1>7. CASE \/ Start \/ LaunchError \/ LaunchExit \/ LoopHead \/ CtxDone
           \/ TakeCompletion \/ Relax \/ RelaxDone
  <2>1. launched' = launched /\ pc' # "build" /\ (result' = result \/ result' # "heavy")
    BY <1>7 DEF Start, LaunchError, LaunchExit, LoopHead, CtxDone, TakeCompletion, Relax,
                RelaxDone, Return
  <2> QED
    BY <1>2, <2>1 DEF HeavyInv, Light
<1>8. CASE UNCHANGED vars \/ \E c \in running : Finish(c)
  <2>1. UNCHANGED <<launched, pc, result, chunk, total, simReady>>
    BY <1>8 DEF vars, build, Finish
  <2> QED
    BY <1>2, <2>1 DEF HeavyInv, Light
<1> QED
  BY <1>3, <1>4, <1>5, <1>6, <1>7, <1>8 DEF Next, Scheduler

\* The capacity error names a real culprit, and success excludes one, on every
\* graph and for all weights.
THEOREM HeavyJustified == Spec => []HeavyErrorJustified
<1>1. Init => HeavyInv
  BY DEF Init, HeavyInv, Light
<1>2. IInv /\ HeavyInv => HeavyErrorJustified
  <2> SUFFICES ASSUME IInv, HeavyInv, result = "ok", NEW u \in HeavyNeeded PROVE FALSE
    BY DEF HeavyErrorJustified, HeavyInv
  <2>1. Need \subseteq completed
    BY NeedFacts DEF IInv, TypeOK, Control, Progress
  <2>2. u \in Need /\ u \in Nodes /\ weight[u] > CapPerChunk
    BY NeedFacts DEF HeavyNeeded, Need, computeNeededNodes
  <2>3. weight[u] <= CapPerChunk
    BY <2>1, <2>2 DEF IInv, Progress, HeavyInv, Light
  <2>4. weight[u] \in Nat
    BY <2>2, SchedulerAssumption DEF IInv, TypeOK
  <2> QED
    BY <2>2, <2>3, <2>4, SchedulerAssumption
<1> QED
  BY <1>1, <1>2, HeavyNext, Invariance, PTL DEF Spec

==============================================================================
