-------------------------- MODULE WordIndexProofs --------------------------
(***************************************************************************)
(* What the WaitGroup and the semaphore of the scan guarantee, and what    *)
(* the callback has been given when the scan returns, for every tree,      *)
(* every number of slots and workers and any options.                      *)
(***************************************************************************)
EXTENDS WordIndex, FiniteSetTheorems, TLAPS

Busy == {"ready", "walk", "replay"}

Shapes ==
    /\ tree \in Trees
    /\ pc \in [Dirs -> Busy \cup {"none", "done"}]
    /\ todo \in [Dirs -> SUBSET Entries]
    /\ pending \in [Dirs -> Dirs \cup {None}]
    /\ DOMAIN cache = Dirs
    /\ \A d \in Dirs : cache[d] # None => cache[d].files \subseteq FilesIn(d)

\* A goroutine has only entries of its own directory before it, and none
\* before it has listed them or after it has returned.
OwnEntries(d) ==
    /\ todo[d] \subseteq Children(d) \cup FilesIn(d)
    /\ pc[d] \notin {"walk", "replay"} => todo[d] = {}
    /\ pc[d] = "replay" => todo[d] \subseteq FilesIn(d)

\* The goroutine of a directory starts after its parent has listed it, and once.
ParentFirst(d) ==
    /\ pc[d] \in {"none", "ready", "replay"} => \A c \in Children(d) : pc[c] = "none"
    /\ \A c \in Children(d) \cap todo[d] : pc[c] = "none" /\ pending[d] # c
    /\ pending[d] # None =>
         pc[d] = "walk" /\ pending[d] \in Children(d) /\ pc[pending[d]] = "none"

\* The goroutines that run, and all that the WaitGroup counts: those and the
\* children that wait for a slot.
Running == {d \in Dirs \ {Root} : pc[d] \in Busy}
Counted == {d \in Dirs \ {Root} : pc[d] \in Busy \/ pending[tree.parent[d]] = d}

ScanInv ==
    /\ Shapes
    /\ \A d \in Dirs : OwnEntries(d) /\ ParentFirst(d)
    /\ sem = Running
    /\ wg = Cardinality(Counted)
    /\ ~scanning => wg = 0 /\ pc[Root] \notin Busy

LEMMA TreeFacts ==
  ASSUME ScanInv, NEW d \in Dirs
  PROVE  /\ Children(d) \subseteq Dirs \ {Root} /\ FilesIn(d) \subseteq Files
         /\ Children(d) \cap FilesIn(d) = {} /\ Children(d) \cap Files = {}
         /\ FilesIn(d) \cap Dirs = {}
         /\ \A c \in Children(d) : tree.parent[c] = d
  BY ScanAssumption DEF ScanInv, Children, FilesIn

LEMMA CountedFinite ==
  /\ IsFiniteSet(Counted) /\ Cardinality(Counted) \in Nat
<1>1. Counted \in SUBSET Dirs BY DEF Counted
<1>2. IsFiniteSet(Counted) BY <1>1, ScanAssumption, FS_Subset
<1> QED BY <1>2, FS_CardinalityType

\* When the WaitGroup is at zero no goroutine is left but the caller's.
LEMMA ZeroIsQuiet ==
  ASSUME ScanInv, wg = 0, pc[Root] \notin Busy
  PROVE  /\ \A d \in Dirs : pc[d] \in {"none", "done"} /\ pending[d] = None
         /\ sem = {}
<1>1. Counted = {} BY CountedFinite, FS_EmptySet DEF ScanInv
<1>2. \A d \in Dirs : pc[d] \notin Busy BY <1>1 DEF Counted
<1>3. \A d \in Dirs : pc[d] \in {"none", "done"} BY <1>2 DEF ScanInv, Shapes
<1>4. ASSUME NEW d \in Dirs, pending[d] # None PROVE FALSE
  BY <1>2, <1>4 DEF ScanInv, ParentFirst, Busy
<1>5. sem = {} BY <1>2 DEF ScanInv, Running
<1> QED BY <1>3, <1>4, <1>5

LEMMA InitScan == IndexInit => ScanInv
<1> SUFFICES ASSUME IndexInit PROVE ScanInv OBVIOUS
<1> USE DEF IndexInit, Init
<1>1. Shapes BY ScanAssumption DEF Shapes
<1>2. \A d \in Dirs : OwnEntries(d) /\ ParentFirst(d)
  BY ScanAssumption DEF OwnEntries, ParentFirst, Children
<1>3. Counted = {} /\ Running = {}
  <2>1. ASSUME NEW d \in Dirs \ {Root} PROVE pending[tree.parent[d]] # d /\ pc[d] \notin Busy
    <3>1. tree.parent[d] \in Dirs BY ScanAssumption
    <3> QED BY <3>1, ScanAssumption DEF Busy, Entries
  <2> QED BY <2>1 DEF Counted, Running
<1>4. wg = Cardinality(Counted) BY <1>3, FS_EmptySet
<1> QED BY <1>1, <1>2, <1>3, <1>4, ScanAssumption DEF ScanInv, Busy

LEMMA TreeFixed ==
  ASSUME tree' = tree
  PROVE  \A d \in Dirs : Children(d)' = Children(d) /\ FilesIn(d)' = FilesIn(d)
  BY DEF Children, FilesIn

----------------------------------------------------------------------------
(* The caller *)

LEMMA BeginStep ==
  ASSUME ScanInv, NEW changed, Begin(changed)
  PROVE  ScanInv'
<1> USE DEF Begin
<1>1. /\ \A d \in Dirs : pc[d] \in {"none", "done"} /\ pending[d] = None
      /\ sem = {} /\ wg = 0
  BY ZeroIsQuiet DEF ScanInv
<1>2. \A d \in Dirs : todo[d] = {} BY <1>1 DEF ScanInv, OwnEntries
<1>3. Shapes' BY TreeFixed DEF ScanInv, Shapes, Busy
<1>4. \A d \in Dirs : OwnEntries(d)' BY <1>2, TreeFixed DEF OwnEntries
<1>5. \A d \in Dirs : ParentFirst(d)' BY <1>1, <1>2, TreeFixed, TreeFacts DEF ParentFirst
<1>6. Running' = {} /\ Counted' = {}
  <2>1. ASSUME NEW d \in Dirs \ {Root}
        PROVE  pc'[d] \notin Busy /\ pending'[tree'.parent[d]] # d
    <3>1. tree.parent[d] \in Dirs BY ScanAssumption DEF ScanInv, Shapes
    <3> QED BY <1>1, <3>1, ScanAssumption DEF Busy, Entries
  <2> QED BY <2>1 DEF Running, Counted
<1>7. wg' = Cardinality(Counted') BY <1>1, <1>6, FS_EmptySet
<1> QED BY <1>1, <1>3, <1>4, <1>5, <1>6, <1>7 DEF ScanInv

LEMMA ReturnStep ==
  ASSUME ScanInv, Return
  PROVE  ScanInv'
<1> USE DEF Return
<1>1. Shapes' BY TreeFixed DEF ScanInv, Shapes
<1>2. \A d \in Dirs : OwnEntries(d)' /\ ParentFirst(d)'
  BY TreeFixed DEF ScanInv, OwnEntries, ParentFirst
<1>3. Running' = Running /\ Counted' = Counted BY DEF Running, Counted
<1>4. pc[Root] \notin Busy BY DEF Busy
<1> QED BY <1>1, <1>2, <1>3, <1>4 DEF ScanInv

----------------------------------------------------------------------------
(* The goroutines *)

\* Somebody runs only while the caller is inside the scan.
LEMMA BusyScans ==
  ASSUME ScanInv, NEW d \in Dirs, pc[d] \in Busy
  PROVE  scanning
  BY ZeroIsQuiet DEF ScanInv, Busy

\* A goroutine returns: Done is called once for its Add.
LEMMA LeaveStep ==
  ASSUME ScanInv, NEW d \in Dirs, pc[d] \in Busy, Leave(d), pending[d] = None,
         pc[d] \in {"walk", "replay"} => todo[d] = {},
         UNCHANGED <<tree, scanning, todo, pending>>,
         DOMAIN cache' = Dirs,
         \A e \in Dirs : cache'[e] # None => cache'[e].files \subseteq FilesIn(e)
  PROVE  ScanInv'
<1> USE DEF Leave
<1>0. DOMAIN pc = Dirs BY DEF ScanInv, Shapes
<1>1. Shapes' BY TreeFixed DEF ScanInv, Shapes
<1>2. todo[d] = {} BY DEF ScanInv, OwnEntries
<1>3. \A e \in Dirs : OwnEntries(e)' BY <1>0, <1>2, TreeFixed DEF ScanInv, OwnEntries
<1>4. ASSUME NEW e \in Dirs PROVE ParentFirst(e)'
  <2>1. ParentFirst(e) BY DEF ScanInv
  <2>2. CASE e = d
    <3>1. pc'[d] = "done" BY <1>0
    <3> QED BY <2>2, <3>1, <1>2, TreeFixed DEF ParentFirst
  <2>3. CASE e # d
    <3>1. pc'[e] = pc[e] BY <2>3, <1>0
    <3>2. \A c \in Dirs : pc[c] = "none" => pc'[c] = "none" BY <1>0 DEF Busy
    <3>3. Children(e) \subseteq Dirs BY TreeFacts
    <3> QED BY <2>1, <3>1, <3>2, <3>3, TreeFixed DEF ParentFirst
  <2> QED BY <2>2, <2>3
<1>5. sem' = Running' BY <1>0 DEF ScanInv, Running, Busy
<1>6. wg' = Cardinality(Counted')
  <2>1. CASE d = Root
    <3>1. Counted' = Counted BY <2>1, <1>0 DEF Counted
    <3> QED BY <2>1, <3>1 DEF ScanInv
  <2>2. CASE d # Root
    <3>1. pending[tree.parent[d]] # d
      <4>1. tree.parent[d] \in Dirs BY <2>2, ScanAssumption DEF ScanInv, Shapes
      <4>2. d # None BY ScanAssumption DEF Entries
      <4> QED BY <4>1, <4>2 DEF ScanInv, ParentFirst, Busy
    <3>2. d \in Counted BY <2>2 DEF Counted
    <3>3. Counted' = Counted \ {d} BY <3>1, <2>2, <1>0 DEF Counted, Busy
    <3>4. Cardinality(Counted \ {d}) = Cardinality(Counted) - 1
      BY <3>2, CountedFinite, FS_RemoveElement
    <3> QED BY <2>2, <3>3, <3>4 DEF ScanInv
  <2> QED BY <2>1, <2>2
<1>7. scanning' BY BusyScans
<1> QED BY <1>1, <1>3, <1>4, <1>5, <1>6, <1>7 DEF ScanInv

\* A goroutine that has a child waiting for a slot is at that very place.
LEMMA PendingWalks ==
  ASSUME ScanInv, NEW d \in Dirs, pc[d] # "walk"
  PROVE  pending[d] = None
  BY DEF ScanInv, ParentFirst

\* A goroutine lists its directory or finds it in the cache.
LEMMA EnterStep ==
  ASSUME ScanInv, NEW d \in Dirs, pc[d] = "ready", NEW to \in {"walk", "replay"},
         pc' = [pc EXCEPT ![d] = to],
         NEW T, todo' = [todo EXCEPT ![d] = T], T \subseteq Children(d) \cup FilesIn(d),
         to = "replay" => T \subseteq FilesIn(d),
         UNCHANGED <<tree, scanning, pending, sem, wg, cache>>
  PROVE  ScanInv'
<1>0. DOMAIN pc = Dirs /\ DOMAIN todo = Dirs BY DEF ScanInv, Shapes
<1>1. T \subseteq Entries BY TreeFacts DEF Entries
<1>2. Shapes' BY <1>1, TreeFixed DEF ScanInv, Shapes, Busy
<1>3. \A e \in Dirs : OwnEntries(e)' BY <1>0, TreeFixed DEF ScanInv, OwnEntries
<1>4. ASSUME NEW e \in Dirs PROVE ParentFirst(e)'
  <2>1. ParentFirst(e) BY DEF ScanInv
  <2>2. Children(e) \subseteq Dirs BY TreeFacts
  <2>3. \A c \in Dirs : pc[c] = "none" => pc'[c] = "none" BY <1>0
  <2>4. CASE e = d
    <3>1. \A c \in Children(d) : pc[c] = "none" BY <2>1, <2>4 DEF ParentFirst
    <3>2. pending[d] = None BY PendingWalks
    <3>3. \A c \in Children(d) : pc'[c] = "none" /\ pending[d] # c
      BY <2>2, <2>3, <2>4, <3>1, <3>2, ScanAssumption DEF Entries
    <3> QED BY <2>4, <3>2, <3>3, TreeFixed DEF ParentFirst
  <2>5. CASE e # d
    <3>1. pc'[e] = pc[e] /\ todo'[e] = todo[e] BY <2>5, <1>0
    <3> QED BY <2>1, <2>2, <2>3, <3>1, TreeFixed DEF ParentFirst
  <2> QED BY <2>4, <2>5
<1>5. Running' = Running /\ Counted' = Counted BY <1>0 DEF Running, Counted, Busy
<1>6. scanning' BY BusyScans DEF Busy
<1> QED BY <1>2, <1>3, <1>4, <1>5, <1>6 DEF ScanInv

\* An entry is done with, without a goroutine for it.
LEMMA EntryStep ==
  ASSUME ScanInv, NEW d \in Dirs, NEW e \in todo[d], todo' = [todo EXCEPT ![d] = @ \ {e}],
         UNCHANGED <<tree, scanning, pc, pending, sem, wg, cache>>
  PROVE  ScanInv'
<1>0. DOMAIN todo = Dirs BY DEF ScanInv, Shapes
<1>1. \A f \in Dirs : todo'[f] \subseteq todo[f] BY <1>0
<1>2. Shapes' BY TreeFixed DEF ScanInv, Shapes
<1>3. \A f \in Dirs : OwnEntries(f)' BY <1>1, TreeFixed DEF ScanInv, OwnEntries
<1>4. \A f \in Dirs : ParentFirst(f)' BY <1>1, TreeFixed DEF ScanInv, ParentFirst
<1>5. Running' = Running /\ Counted' = Counted BY DEF Running, Counted
<1> QED BY <1>2, <1>3, <1>4, <1>5 DEF ScanInv

\* wg.Add(1): one more that the WaitGroup counts.
LEMMA AddStep ==
  ASSUME ScanInv, NEW d \in Dirs, NEW c, AddChild(d, c)
  PROVE  ScanInv'
<1> USE DEF AddChild, Walking
<1>0. DOMAIN todo = Dirs /\ DOMAIN pending = Dirs BY DEF ScanInv, Shapes
<1>1. c \in Children(d) /\ c \in Dirs \ {Root} /\ tree.parent[c] = d /\ c # None
  <2>1. c \in Children(d) BY TreeFacts DEF ScanInv, OwnEntries
  <2> QED BY <2>1, TreeFacts, ScanAssumption DEF Entries
<1>2. pc[c] = "none" BY <1>1 DEF ScanInv, ParentFirst
<1>3. Shapes' BY <1>1, TreeFixed DEF ScanInv, Shapes
<1>4. \A e \in Dirs : todo'[e] \subseteq todo[e] BY <1>0
<1>5. \A e \in Dirs : OwnEntries(e)' BY <1>4, TreeFixed DEF ScanInv, OwnEntries
<1>6. ASSUME NEW e \in Dirs PROVE ParentFirst(e)'
  <2>1. ParentFirst(e) BY DEF ScanInv
  <2>2. CASE e = d
    <3>1. pending'[d] = c /\ todo'[d] = todo[d] \ {c} BY <1>0
    <3> QED BY <2>1, <2>2, <3>1, <1>1, <1>2, TreeFixed DEF ParentFirst
  <2>3. CASE e # d
    <3>1. pending'[e] = pending[e] /\ todo'[e] = todo[e] BY <2>3, <1>0
    <3> QED BY <2>1, <3>1, TreeFixed DEF ParentFirst
  <2> QED BY <2>2, <2>3
<1>7. Running' = Running BY DEF Running
<1>8. c \notin Counted BY <1>1, <1>2 DEF Counted, Busy
<1>9. Counted' = Counted \cup {c}
  <2>1. ASSUME NEW x \in Dirs \ {Root} PROVE x \in Counted' <=> x \in Counted \cup {c}
    <3>1. tree.parent[x] \in Dirs BY ScanAssumption DEF ScanInv, Shapes
    <3>2. CASE x = c BY <3>2, <1>0, <1>1 DEF Counted
    <3>3. CASE x # c
      <4>1. pending'[tree.parent[x]] = x <=> pending[tree.parent[x]] = x
        BY <3>1, <3>3, <1>0, ScanAssumption DEF Entries
      <4> QED BY <3>3, <4>1 DEF Counted
    <3> QED BY <3>2, <3>3
  <2>2. Counted' \subseteq Dirs \ {Root} /\ Counted \cup {c} \subseteq Dirs \ {Root}
    BY <1>1 DEF Counted
  <2> QED BY <2>1, <2>2
<1>10. wg' = Cardinality(Counted')
  BY <1>8, <1>9, CountedFinite, FS_AddElement DEF ScanInv
<1>11. scanning' BY BusyScans DEF Busy
<1> QED BY <1>3, <1>5, <1>6, <1>7, <1>10, <1>11 DEF ScanInv

\* The child gets its slot: it is counted already.
LEMMA StartStep ==
  ASSUME ScanInv, NEW d \in Dirs, StartChild(d)
  PROVE  ScanInv'
<1> USE DEF StartChild
<1> DEFINE c == pending[d]
<1>0. DOMAIN pc = Dirs /\ DOMAIN pending = Dirs BY DEF ScanInv, Shapes
<1>1. /\ c \in Children(d) /\ c \in Dirs \ {Root} /\ tree.parent[c] = d
      /\ pc[c] = "none" /\ c # d
  <2>1. c \in Children(d) /\ pc[c] = "none" BY DEF ScanInv, ParentFirst
  <2> QED BY <2>1, TreeFacts
<1>2. pc' = [pc EXCEPT ![c] = "ready"] /\ pending' = [pending EXCEPT ![d] = None]
      /\ sem' = sem \cup {c}
  OBVIOUS
<1> HIDE DEF c
<1>3. Shapes' BY <1>1, <1>2, TreeFixed DEF ScanInv, Shapes, Busy
<1>4. \A e \in Dirs : OwnEntries(e)' BY <1>0, <1>1, <1>2, TreeFixed DEF ScanInv, OwnEntries
<1>5. ASSUME NEW e \in Dirs PROVE ParentFirst(e)'
  <2>1. ParentFirst(e) /\ Children(e) \subseteq Dirs BY TreeFacts DEF ScanInv
  <2>2. \A x \in Dirs \ {c} : pc'[x] = pc[x] BY <1>0, <1>2
  <2>3. e # d => c \notin Children(e) BY <1>1, TreeFacts
  <2>4. CASE e = d
    <3>1. pc'[d] = "walk" /\ pending'[d] = None BY <1>0, <1>1, <1>2, <2>2
    <3>2. c \notin todo[d] BY <1>1, <2>1, <2>4 DEF ParentFirst, c
    <3>3. \A x \in Children(d) : x # None BY <2>1, <2>4, ScanAssumption DEF Entries
    <3> QED BY <2>1, <2>2, <2>4, <3>1, <3>2, <3>3, TreeFixed DEF ParentFirst
  <2>5. CASE e # d
    <3>1. pending'[e] = pending[e] BY <2>5, <1>0, <1>2
    <3>2. \A x \in Children(e) : pc'[x] = pc[x] BY <2>1, <2>2, <2>3, <2>5
    <3>3. CASE e = c
      <4>1. pc[e] = "none" /\ pending[e] = None BY <3>3, <1>1, <2>1 DEF ParentFirst
      <4> QED BY <2>1, <3>1, <3>2, <4>1, TreeFixed DEF ParentFirst
    <3>4. CASE e # c
      <4>1. pc'[e] = pc[e] BY <3>4, <2>2
      <4> QED BY <2>1, <3>1, <3>2, <4>1, TreeFixed DEF ParentFirst
    <3> QED BY <3>3, <3>4
  <2> QED BY <2>4, <2>5
<1>6. sem' = Running' BY <1>0, <1>1, <1>2 DEF ScanInv, Running, Busy
<1>7. Counted' = Counted
  <2>1. ASSUME NEW x \in Dirs \ {Root} PROVE x \in Counted' <=> x \in Counted
    <3>1. tree.parent[x] \in Dirs BY ScanAssumption DEF ScanInv, Shapes
    <3>2. CASE x = c BY <3>2, <1>0, <1>1, <1>2 DEF Counted, Busy, c
    <3>3. CASE x # c
      <4>1. pending'[tree.parent[x]] = x <=> pending[tree.parent[x]] = x
        BY <3>1, <3>3, <1>0, <1>2, ScanAssumption DEF Entries, c
      <4>2. pc'[x] = pc[x] BY <3>3, <1>0, <1>2
      <4> QED BY <4>1, <4>2 DEF Counted
    <3> QED BY <3>2, <3>3
  <2>2. Counted' \subseteq Dirs \ {Root} /\ Counted \subseteq Dirs \ {Root} BY DEF Counted
  <2> QED BY <2>1, <2>2
<1>8. scanning' BY BusyScans DEF Busy
<1> QED BY <1>3, <1>4, <1>5, <1>6, <1>7, <1>8 DEF ScanInv

----------------------------------------------------------------------------
LEMMA WalkStep ==
  ASSUME ScanInv, NEW d \in Dirs, Walk(d)
  PROVE  ScanInv'
<1>1. CASE Skip(d) \/ ReadDirFails(d)
  <2>1. pc[d] = "ready" /\ Leave(d) /\ UNCHANGED <<tree, scanning, todo, pending, cache>>
    BY <1>1 DEF Skip, ReadDirFails
  <2>2. pending[d] = None BY <2>1, PendingWalks
  <2>3. DOMAIN cache' = Dirs
        /\ \A e \in Dirs : cache'[e] # None => cache'[e].files \subseteq FilesIn(e)
    BY <2>1 DEF ScanInv, Shapes
  <2> QED BY <2>1, <2>2, <2>3, LeaveStep DEF Busy
<1>2. CASE Replay(d)
  <2>1. cache[d].files \subseteq FilesIn(d) BY <1>2 DEF Replay, Cached, ScanInv, Shapes
  <2> QED BY <1>2, <2>1, EnterStep DEF Replay
<1>3. CASE ReadDir(d) BY <1>3, EnterStep DEF ReadDir
<1>4. ASSUME NEW c \in todo[d], StubChild(d, c) \/ PassOver(d, c) PROVE ScanInv'
  BY <1>4, EntryStep DEF StubChild, PassOver
<1>5. ASSUME NEW c \in todo[d], AddChild(d, c) PROVE ScanInv' BY <1>5, AddStep
<1>6. CASE Finish(d)
  <2>1. /\ pc[d] \in {"walk", "replay"} /\ todo[d] = {} /\ Leave(d)
        /\ UNCHANGED <<tree, scanning, todo, pending>>
    BY <1>6 DEF Finish, Walking
  <2>2. pending[d] = None BY <1>6, PendingWalks DEF Finish, Walking
  <2>3. Collected(d).files \subseteq FilesIn(d) BY DEF Collected, Seen
  <2>4. cache' = cache \/ cache' = [cache EXCEPT ![d] = Collected(d)] BY <1>6 DEF Finish
  <2>5. DOMAIN cache' = Dirs
        /\ \A e \in Dirs : cache'[e] # None => cache'[e].files \subseteq FilesIn(e)
    BY <2>3, <2>4 DEF ScanInv, Shapes
  <2> QED BY <2>1, <2>2, <2>5, LeaveStep DEF Busy
<1> QED BY <1>1, <1>2, <1>3, <1>4, <1>5, <1>6 DEF Walk, Enter, Descend

LEMMA NextScan == ScanInv /\ [Next]_vars => ScanInv'
<1> SUFFICES ASSUME ScanInv, [Next]_vars PROVE ScanInv' OBVIOUS
<1>1. CASE UNCHANGED scanVars
  <2>1. Shapes' BY <1>1, TreeFixed DEF scanVars, ScanInv, Shapes
  <2>2. \A d \in Dirs : OwnEntries(d)' /\ ParentFirst(d)'
    BY <1>1, TreeFixed DEF scanVars, ScanInv, OwnEntries, ParentFirst
  <2>3. Running' = Running /\ Counted' = Counted BY <1>1 DEF scanVars, Running, Counted
  <2> QED BY <1>1, <2>1, <2>2, <2>3 DEF scanVars, ScanInv
<1>2. CASE ScanRoot BY <1>2, BeginStep DEF ScanRoot
<1>3. CASE Return BY <1>3, ReturnStep
<1>4. ASSUME NEW d \in Dirs, Walk(d) PROVE ScanInv' BY <1>4, WalkStep
<1>5. ASSUME NEW d \in Dirs, StartChild(d) PROVE ScanInv' BY <1>5, StartStep
<1>6. ASSUME NEW d \in Dirs, NEW f \in todo[d], Feed(d, f) PROVE ScanInv'
  BY <1>6, EntryStep DEF Feed, VisitFile
<1>7. CASE \/ RootFails \/ CloseTasks \/ Done \/ Cancel \/ Wait
           \/ \E w \in Workers : Take(w) \/ Exit(w) \/ indexOne(w)
  BY <1>1, <1>7 DEF RootFails, CloseTasks, Done, Cancel, Wait, Take, Exit, indexOne
<1>8. CASE UNCHANGED vars BY <1>1, <1>8 DEF vars
<1> QED BY <1>2, <1>3, <1>4, <1>5, <1>6, <1>7, <1>8 DEF Next

(* When ScanWithOptions returns, nothing of the scan goes on: the          *)
(* WaitGroup counts every goroutine from before it can run until it has    *)
(* returned, for every tree and every number of slots.                     *)
THEOREM ReturnIsQuiet == Spec => []NothingAfterReturn
<1>1. IndexInit => ScanInv BY InitScan
<1>2. ScanInv /\ [Next]_vars => ScanInv' BY NextScan
<1>3. ScanInv => NothingAfterReturn
  BY ZeroIsQuiet DEF ScanInv, NothingAfterReturn
<1> QED BY <1>1, <1>2, <1>3, PTL DEF Spec

(* The slots of the semaphore are held by exactly the goroutines that run. *)
THEOREM SlotsExact == Spec => [](sem = Running)
<1>1. ScanInv => sem = Running BY DEF ScanInv
<1> QED BY <1>1, InitScan, NextScan, PTL DEF Spec

----------------------------------------------------------------------------
(* Every entry once.  The history of the callbacks of one scan, directory  *)
(* by directory, on top of ScanInv.                                        *)

\* The entries of d are given to the callback one by one, or have been.
Opened(d) == pc[d] = "walk" \/ Listed(d)

\* The goroutine of d has passed its checks as the sets of the history tell.
Histories(d) ==
    /\ d \in gone => pc[d] = "done"
    /\ d \in replayed => pc[d] \in {"replay", "done"}
    /\ pc[d] = "replay" => d \in replayed
    /\ pc[d] \in {"walk", "replay"} => ~Skipped(d)

SelfVisits(d) ==
    /\ Opened(d) /\ d # Root => visits[d] = 1
    /\ pc[d] = "ready" => visits[d] = 0
    /\ pc[d] = "done" /\ (Skipped(d) \/ d \in gone) => visits[d] = 0

\* At the depth limit d itself reports its children, otherwise it starts them.
ChildVisits(d) ==
    /\ Opened(d) /\ AtDepthLimit(d) =>
         /\ pending[d] = None
         /\ \A c \in Children(d) : /\ pc[c] = "none"
                                   /\ visits[c] = IF c \in todo[d] THEN 0 ELSE 1
    /\ Opened(d) /\ ~AtDepthLimit(d) =>
         \A c \in Children(d) : /\ c \in todo[d] \/ pending[d] = c \/ pc[c] # "none"
                                /\ pc[c] = "none" => visits[c] = 0
    /\ ~Opened(d) => \A c \in Children(d) : pc[c] = "none" /\ visits[c] = 0

FileVisits(d) ==
    /\ pc[d] \in {"none", "ready"} => \A f \in FilesIn(d) : visits[f] = 0
    /\ Opened(d) => \A f \in FilesIn(d) :
         IF f \in todo[d] THEN visits[f] = 0
         ELSE visits[f] = 1 \/ (Over(d) /\ visits[f] = 0)

DirVisits(d) == Histories(d) /\ SelfVisits(d) /\ ChildVisits(d) /\ FileVisits(d)

VisitInv ==
    /\ DOMAIN visits = Entries /\ DOMAIN depth = Dirs /\ opts \in Options
    /\ visits[Root] = 0
    /\ ~scanning /\ scans > 0 => pc[Root] = "done"
    /\ \A d \in Dirs : DirVisits(d)

LEMMA InitVisits == IndexInit => VisitInv
<1> SUFFICES ASSUME IndexInit PROVE VisitInv OBVIOUS
<1> USE DEF IndexInit, Init
<1>1. ASSUME NEW d \in Dirs PROVE DirVisits(d)
  <2>1. pc[d] = "none" /\ ~Opened(d) BY DEF Opened, Listed
  <2>2. \A c \in Children(d) : pc[c] = "none" /\ visits[c] = 0
    BY DEF Children, Entries
  <2>3. \A f \in FilesIn(d) : visits[f] = 0 BY DEF FilesIn, Entries
  <2> QED BY <2>1, <2>2, <2>3 DEF DirVisits, Histories, SelfVisits, ChildVisits, FileVisits
<1>2. visits[Root] = 0 BY ScanAssumption DEF Entries
<1> QED BY <1>1, <1>2 DEF VisitInv

\* The tests of the walk of d depend on its depth only.
LEMMA SameLimits ==
  ASSUME NEW d, opts' = opts, depth'[d] = depth[d]
  PROVE  (AtDepthLimit(d)' <=> AtDepthLimit(d)) /\ (Skipped(d)' <=> Skipped(d))
  BY DEF AtDepthLimit, Skipped

\* What has been reached of MaxPerDir stays reached.
LEMMA OverStays ==
  ASSUME VisitInv, ScanInv, NEW d \in Dirs, UNCHANGED <<tree, opts>>, Over(d),
         \A f \in FilesIn(d) : visits[f] > 0 => visits'[f] > 0
  PROVE  Over(d)'
<1>1. FilesIn(d)' = FilesIn(d) BY TreeFixed
<1>2. Seen(d) \subseteq Seen(d)' BY <1>1 DEF Seen
<1>3. IsFiniteSet(Seen(d)')
  <2>1. Seen(d)' \subseteq Files BY DEF Seen, FilesIn
  <2> QED BY <2>1, ScanAssumption, FS_Subset
<1>4. /\ IsFiniteSet(Seen(d)) /\ Cardinality(Seen(d)) <= Cardinality(Seen(d)')
  BY <1>2, <1>3, FS_Subset
<1>5. /\ Cardinality(Seen(d)) \in Nat /\ Cardinality(Seen(d)') \in Nat
      /\ opts.maxPerDir \in Nat
  BY <1>3, <1>4, FS_CardinalityType, ScanAssumption DEF VisitInv
<1> QED BY <1>4, <1>5 DEF Over

\* A directory that a step does not touch.
LEMMA Untouched ==
  ASSUME VisitInv, ScanInv, NEW d \in Dirs, UNCHANGED <<tree, opts>>,
         pc'[d] = pc[d], todo'[d] = todo[d], pending'[d] = pending[d], depth'[d] = depth[d],
         d \in gone' <=> d \in gone, d \in replayed' <=> d \in replayed,
         visits'[d] = visits[d] \/ pc[d] = "none",
         \A c \in Children(d) :
            IF pc[c] = "none" THEN pc'[c] = "none" /\ visits'[c] = visits[c]
            ELSE pc'[c] # "none",
         \A f \in FilesIn(d) : visits'[f] = visits[f]
  PROVE  DirVisits(d)'
<1>1. DirVisits(d) BY DEF VisitInv
<1>2. (AtDepthLimit(d)' <=> AtDepthLimit(d)) /\ (Skipped(d)' <=> Skipped(d)) BY SameLimits
<1>3. Children(d)' = Children(d) /\ FilesIn(d)' = FilesIn(d) BY TreeFixed
<1>4. Opened(d)' <=> Opened(d) BY <1>2 DEF Opened, Listed
<1>5. Over(d) => Over(d)' BY OverStays
<1>6. Histories(d)' BY <1>1, <1>2 DEF DirVisits, Histories
<1>7. SelfVisits(d)' BY <1>1, <1>2, <1>4 DEF DirVisits, SelfVisits, Opened, Listed
<1>8. ChildVisits(d)' BY <1>1, <1>2, <1>3, <1>4 DEF DirVisits, ChildVisits
<1>9. FileVisits(d)' BY <1>1, <1>3, <1>4, <1>5 DEF DirVisits, FileVisits
<1> QED BY <1>6, <1>7, <1>8, <1>9 DEF DirVisits

\* The caller's part of VisitInv, when a goroutine takes a step.
LEMMA CallerKept ==
  ASSUME VisitInv, ScanInv, scanning', UNCHANGED opts,
         DOMAIN visits' = Entries, DOMAIN depth' = Dirs, visits'[Root] = visits[Root],
         \A d \in Dirs : DirVisits(d)'
  PROVE  VisitInv'
  BY DEF VisitInv

\* A step of the goroutine of d is about d, its children that do not run, and
\* its files.
LEMMA OtherDirs ==
  ASSUME VisitInv, ScanInv, NEW d \in Dirs, UNCHANGED <<tree, opts, depth>>,
         pc[d] # "none", pc'[d] # "none",
         \A e \in Dirs \ {d} : /\ pc'[e] = pc[e] /\ todo'[e] = todo[e] /\ pending'[e] = pending[e]
                               /\ e \in gone' <=> e \in gone
                               /\ e \in replayed' <=> e \in replayed,
         \A x \in Entries : \/ visits'[x] = visits[x] \/ x = d \/ x \in FilesIn(d)
                            \/ x \in Children(d) /\ pc[x] = "none",
         NEW e \in Dirs \ {d}
  PROVE  DirVisits(e)'
<1>1. /\ Children(d) \subseteq Dirs \ {Root} /\ Children(e) \subseteq Dirs \ {Root}
      /\ FilesIn(d) \cap Dirs = {} /\ FilesIn(e) \cap Dirs = {} /\ FilesIn(e) \subseteq Files
      /\ Children(d) \cap FilesIn(e) = {}
  BY TreeFacts, ScanAssumption DEF Children, FilesIn
<1>2. Children(d) \cap Children(e) = {} /\ FilesIn(d) \cap FilesIn(e) = {}
  BY DEF Children, FilesIn
<1>3. visits'[e] = visits[e] \/ pc[e] = "none" BY <1>1 DEF Entries
<1>4. ASSUME NEW c \in Children(e)
      PROVE  IF pc[c] = "none" THEN pc'[c] = "none" /\ visits'[c] = visits[c]
             ELSE pc'[c] # "none"
  <2>1. CASE c = d BY <2>1
  <2>2. CASE c # d
    <3>1. visits'[c] = visits[c] BY <2>2, <1>1, <1>2 DEF Entries
    <3> QED BY <2>2, <3>1, <1>1
  <2> QED BY <2>1, <2>2
<1>5. \A f \in FilesIn(e) : visits'[f] = visits[f] BY <1>1, <1>2 DEF Entries
<1> QED BY <1>3, <1>4, <1>5, Untouched

LEMMA BeginVisits ==
  ASSUME VisitInv, ScanInv, NEW changed, Begin(changed)
  PROVE  VisitInv'
<1> USE DEF Begin
<1>1. ASSUME NEW d \in Dirs PROVE DirVisits(d)'
  <2>1. pc'[d] \in {"none", "ready"} /\ ~Opened(d)' BY DEF Opened, Listed
  <2>2. \A c \in Children(d) : pc'[c] = "none" /\ visits'[c] = 0 BY DEF Children, Entries
  <2>3. \A f \in FilesIn(d) : visits'[f] = 0 BY DEF FilesIn, Entries
  <2>4. visits'[d] = 0 BY DEF Entries
  <2>5. Children(d)' = Children(d) /\ FilesIn(d)' = FilesIn(d) BY TreeFixed
  <2> QED BY <2>1, <2>2, <2>3, <2>4, <2>5
          DEF DirVisits, Histories, SelfVisits, ChildVisits, FileVisits
<1>2. visits'[Root] = 0 BY ScanAssumption DEF Entries
<1> QED BY <1>1, <1>2 DEF VisitInv

LEMMA SameVisits ==
  ASSUME VisitInv, UNCHANGED <<tree, opts, pc, depth, todo, pending, visits, gone, replayed, scans>>,
         scanning' = scanning \/ pc[Root] = "done"
  PROVE  VisitInv'
<1>1. \A d \in Dirs : Children(d)' = Children(d) /\ FilesIn(d)' = FilesIn(d) BY TreeFixed
<1>2. ASSUME NEW d \in Dirs PROVE DirVisits(d)'
  <2>1. (AtDepthLimit(d)' <=> AtDepthLimit(d)) /\ (Skipped(d)' <=> Skipped(d)) BY SameLimits
  <2>2. (Opened(d)' <=> Opened(d)) BY <2>1 DEF Opened, Listed
  <2>3. Over(d)' <=> Over(d) BY <1>1 DEF Over, Seen
  <2> QED BY <1>1, <2>1, <2>2, <2>3
          DEF VisitInv, DirVisits, Histories, SelfVisits, ChildVisits, FileVisits
<1> QED BY <1>2 DEF VisitInv

\* The goroutine of d returns without having listed d.
LEMMA PassedOver ==
  ASSUME VisitInv, ScanInv, NEW d \in Dirs, Skip(d) \/ ReadDirFails(d)
  PROVE  VisitInv'
<1>0. DOMAIN pc = Dirs BY DEF ScanInv, Shapes
<1>1. /\ pc[d] = "ready" /\ pc' = [pc EXCEPT ![d] = "done"]
      /\ UNCHANGED <<tree, opts, scanning, depth, todo, pending, visits, replayed>>
      /\ gone' \in {gone, gone \cup {d}}
  BY DEF Skip, ReadDirFails, Leave
<1>2. Skipped(d) \/ d \in gone' BY DEF Skip, ReadDirFails
<1>3. (AtDepthLimit(d)' <=> AtDepthLimit(d)) /\ (Skipped(d)' <=> Skipped(d)) BY <1>1, SameLimits
<1>4. Children(d)' = Children(d) /\ FilesIn(d)' = FilesIn(d) BY <1>1, TreeFixed
<1>5. DirVisits(d)'
  <2>1. DirVisits(d) /\ ~Opened(d) BY <1>1 DEF VisitInv, Opened, Listed
  <2>2. pc'[d] = "done" /\ ~Opened(d)' BY <1>0, <1>1, <1>2, <1>3 DEF Opened, Listed
  <2>3. Histories(d)' /\ SelfVisits(d)' /\ FileVisits(d)'
    BY <2>1, <2>2, <1>1, <1>3 DEF DirVisits, Histories, SelfVisits, FileVisits
  <2>4. \A c \in Children(d) : pc[c] = "none" /\ visits[c] = 0 BY <2>1 DEF DirVisits, ChildVisits
  <2>5. \A c \in Children(d) : pc'[c] = "none" BY <2>4, <1>0, <1>1
  <2>6. ChildVisits(d)' BY <2>2, <2>4, <2>5, <1>1, <1>4 DEF ChildVisits
  <2> QED BY <2>3, <2>6 DEF DirVisits
<1>6. \A e \in Dirs \ {d} : DirVisits(e)' BY <1>0, <1>1, OtherDirs
<1>7. scanning BY <1>1, BusyScans DEF Busy
<1> QED BY <1>1, <1>5, <1>6, <1>7, CallerKept DEF VisitInv

LEMMA ReplayVisits ==
  ASSUME VisitInv, ScanInv, NEW d \in Dirs, Replay(d)
  PROVE  VisitInv'
<1> USE DEF Replay
<1>0. DOMAIN pc = Dirs /\ DOMAIN todo = Dirs /\ DOMAIN visits = Entries /\ d \in Entries
  BY DEF ScanInv, Shapes, VisitInv, Entries
<1>1. /\ pc[d] = "ready" /\ pc'[d] = "replay" /\ \A e \in Dirs \ {d} : pc'[e] = pc[e]
      /\ \A x \in Entries \ {d} : visits'[x] = visits[x]
      /\ DOMAIN visits' = Entries /\ d # Root
  BY <1>0 DEF Cached
<1>2. (AtDepthLimit(d)' <=> AtDepthLimit(d)) /\ (Skipped(d)' <=> Skipped(d)) BY SameLimits
<1>3. Children(d)' = Children(d) /\ FilesIn(d)' = FilesIn(d) BY TreeFixed
<1>4. DirVisits(d)'
  <2>1. DirVisits(d) /\ ~Opened(d) BY <1>1 DEF VisitInv, Opened, Listed
  <2>2. ~Opened(d)' BY <1>1 DEF Opened, Listed
  <2>3. Histories(d)' /\ SelfVisits(d)' /\ FileVisits(d)'
    BY <2>1, <2>2, <1>1, <1>2 DEF DirVisits, Histories, SelfVisits, FileVisits
  <2>4. \A c \in Children(d) : pc[c] = "none" /\ visits[c] = 0 BY <2>1 DEF DirVisits, ChildVisits
  <2>5. \A c \in Children(d) : c \in Dirs \ {d} BY <2>4, <1>1, TreeFacts
  <2>6. \A c \in Children(d) : pc'[c] = "none" /\ visits'[c] = 0
    BY <2>4, <2>5, <1>1 DEF Entries
  <2>7. ChildVisits(d)' BY <2>2, <2>6, <1>3 DEF ChildVisits
  <2> QED BY <2>3, <2>7 DEF DirVisits
<1>5. \A e \in Dirs \ {d} : DirVisits(e)' BY <1>0, <1>1, OtherDirs
<1>6. visits'[Root] = visits[Root] BY <1>1, ScanAssumption DEF Entries
<1>7. scanning BY <1>1, BusyScans DEF Busy
<1> QED BY <1>1, <1>4, <1>5, <1>6, <1>7, CallerKept DEF VisitInv

LEMMA ReadDirVisits ==
  ASSUME VisitInv, ScanInv, NEW d \in Dirs, ReadDir(d)
  PROVE  VisitInv'
<1> USE DEF ReadDir
<1>0. DOMAIN pc = Dirs /\ DOMAIN todo = Dirs /\ DOMAIN visits = Entries /\ d \in Entries
  BY DEF ScanInv, Shapes, VisitInv, Entries
<1>1. /\ pc[d] = "ready" /\ pc'[d] = "walk" /\ \A e \in Dirs \ {d} : pc'[e] = pc[e]
      /\ todo'[d] = Children(d) \cup FilesIn(d) /\ \A e \in Dirs \ {d} : todo'[e] = todo[e]
      /\ \A x \in Entries \ {d} : visits'[x] = visits[x]
      /\ visits'[d] = IF d = Root THEN visits[d] ELSE visits[d] + 1
      /\ DOMAIN visits' = Entries
  BY <1>0 DEF Emit
<1>2. (AtDepthLimit(d)' <=> AtDepthLimit(d)) /\ (Skipped(d)' <=> Skipped(d)) BY SameLimits
<1>3. Children(d)' = Children(d) /\ FilesIn(d)' = FilesIn(d) BY TreeFixed
<1>4. DirVisits(d)'
  <2>1. DirVisits(d) /\ ~Opened(d) BY <1>1 DEF VisitInv, Opened, Listed
  <2>2. Opened(d)' BY <1>1 DEF Opened
  <2>3. Histories(d)' /\ SelfVisits(d)'
    BY <2>1, <2>2, <1>1, <1>2 DEF DirVisits, Histories, SelfVisits
  <2>4. \A c \in Children(d) : pc[c] = "none" /\ visits[c] = 0 BY <2>1 DEF DirVisits, ChildVisits
  <2>5. \A c \in Children(d) : c \in Dirs \ {d} BY <2>4, <1>1, TreeFacts
  <2>6. \A c \in Children(d) : pc'[c] = "none" /\ visits'[c] = 0
    BY <2>4, <2>5, <1>1 DEF Entries
  <2>7. pending'[d] = None BY <1>1, PendingWalks
  <2>8. ChildVisits(d)' BY <2>2, <2>6, <2>7, <1>1, <1>3 DEF ChildVisits
  <2>9. \A f \in FilesIn(d) : visits'[f] = 0
    <3>1. \A f \in FilesIn(d) : f \in Entries \ {d} /\ visits[f] = 0
      BY <2>1, <1>1, TreeFacts DEF DirVisits, FileVisits, Entries
    <3> QED BY <3>1, <1>1
  <2>10. FileVisits(d)' BY <2>9, <1>1, <1>3 DEF FileVisits
  <2> QED BY <2>3, <2>8, <2>10 DEF DirVisits
<1>5. \A e \in Dirs \ {d} : DirVisits(e)' BY <1>1, OtherDirs
<1>6. visits'[Root] = visits[Root] BY <1>1, ScanAssumption DEF Entries
<1>7. scanning BY <1>1, BusyScans DEF Busy
<1> QED BY <1>1, <1>4, <1>5, <1>6, <1>7, CallerKept DEF VisitInv

LEMMA StubVisits ==
  ASSUME VisitInv, ScanInv, NEW d \in Dirs, NEW c \in todo[d], StubChild(d, c)
  PROVE  VisitInv'
<1> USE DEF StubChild, Walking
<1>0. DOMAIN todo = Dirs /\ DOMAIN visits = Entries BY DEF ScanInv, Shapes, VisitInv
<1>1. c \in Children(d) /\ c \in Dirs \ {Root} /\ c \in Entries
  BY TreeFacts DEF ScanInv, OwnEntries, Entries
<1>2. /\ pc[d] = "walk" /\ pc' = pc /\ pending' = pending /\ AtDepthLimit(d)
      /\ todo'[d] = todo[d] \ {c} /\ \A e \in Dirs \ {d} : todo'[e] = todo[e]
      /\ visits'[c] = visits[c] + 1 /\ \A x \in Entries \ {c} : visits'[x] = visits[x]
      /\ DOMAIN visits' = Entries
  BY <1>0, <1>1 DEF Emit
<1>3. (AtDepthLimit(d)' <=> AtDepthLimit(d)) /\ (Skipped(d)' <=> Skipped(d)) BY SameLimits
<1>4. Children(d)' = Children(d) /\ FilesIn(d)' = FilesIn(d) BY TreeFixed
<1>5. DirVisits(d) /\ Opened(d) /\ Opened(d)' BY <1>2 DEF VisitInv, Opened
<1>6. pc[c] = "none" /\ visits[c] = 0 /\ c # d
  BY <1>1, <1>2, <1>5 DEF DirVisits, ChildVisits
<1>7. DirVisits(d)'
  <2>1. visits'[d] = visits[d] BY <1>2, <1>6 DEF Entries
  <2>2. Histories(d)' /\ SelfVisits(d)'
    BY <2>1, <1>2, <1>3, <1>5 DEF DirVisits, Histories, SelfVisits, Opened
  <2>3. \A x \in Children(d) : x \in Entries BY TreeFacts DEF Entries
  <2>4. ChildVisits(d)' BY <2>3, <1>2, <1>3, <1>4, <1>5, <1>6 DEF DirVisits, ChildVisits
  <2>5. \A f \in FilesIn(d) : visits'[f] = visits[f] /\ f # c
    BY <1>1, <1>2, TreeFacts DEF Entries
  <2>6. Over(d) => Over(d)' BY <2>5, OverStays
  <2>7. FileVisits(d)' BY <2>5, <2>6, <1>2, <1>4, <1>5 DEF DirVisits, FileVisits
  <2> QED BY <2>2, <2>4, <2>7 DEF DirVisits
<1>8. \A e \in Dirs \ {d} : DirVisits(e)' BY <1>1, <1>2, <1>6, OtherDirs
<1>9. visits'[Root] = visits[Root] BY <1>1, <1>2, ScanAssumption DEF Entries
<1>10. scanning BY <1>2, BusyScans DEF Busy
<1> QED BY <1>2, <1>7, <1>8, <1>9, <1>10, CallerKept DEF VisitInv

LEMMA AddVisits ==
  ASSUME VisitInv, ScanInv, NEW d \in Dirs, NEW c \in todo[d], AddChild(d, c)
  PROVE  VisitInv'
<1> USE DEF AddChild, Walking
<1>0. DOMAIN todo = Dirs /\ DOMAIN pending = Dirs BY DEF ScanInv, Shapes
<1>1. /\ pc[d] = "walk" /\ UNCHANGED <<pc, visits>> /\ ~AtDepthLimit(d)
      /\ pending[d] = None /\ pending'[d] = c /\ \A e \in Dirs \ {d} : pending'[e] = pending[e]
      /\ todo'[d] = todo[d] \ {c} /\ \A e \in Dirs \ {d} : todo'[e] = todo[e]
  BY <1>0
<1>2. (AtDepthLimit(d)' <=> AtDepthLimit(d)) /\ (Skipped(d)' <=> Skipped(d)) BY SameLimits
<1>3. Children(d)' = Children(d) /\ FilesIn(d)' = FilesIn(d) BY TreeFixed
<1>4. DirVisits(d) /\ Opened(d) /\ Opened(d)' BY <1>1 DEF VisitInv, Opened
<1>5. DirVisits(d)'
  <2>1. Histories(d)' /\ SelfVisits(d)'
    BY <1>1, <1>2, <1>4 DEF DirVisits, Histories, SelfVisits, Opened
  <2>2. \A x \in Children(d) : x # None BY TreeFacts, ScanAssumption DEF Entries
  <2>3. ChildVisits(d)' BY <2>2, <1>1, <1>2, <1>3, <1>4 DEF DirVisits, ChildVisits
  <2>4. c \notin FilesIn(d) BY TreeFacts
  <2>5. Over(d) => Over(d)' BY <1>1, OverStays
  <2>6. FileVisits(d)' BY <2>4, <2>5, <1>1, <1>3, <1>4 DEF DirVisits, FileVisits
  <2> QED BY <2>1, <2>3, <2>6 DEF DirVisits
<1>6. \A e \in Dirs \ {d} : DirVisits(e)' BY <1>1, OtherDirs
<1>7. scanning BY <1>1, BusyScans DEF Busy
<1> QED BY <1>1, <1>5, <1>6, <1>7, CallerKept DEF VisitInv

LEMMA StartVisits ==
  ASSUME VisitInv, ScanInv, NEW d \in Dirs, StartChild(d)
  PROVE  VisitInv'
<1> USE DEF StartChild
<1>p. PICK c \in Dirs : c = pending[d] BY DEF ScanInv, ParentFirst, Children
<1>0. DOMAIN pc = Dirs /\ DOMAIN pending = Dirs /\ DOMAIN depth = Dirs
  BY DEF ScanInv, Shapes, VisitInv
<1>1. /\ c \in Children(d) /\ c \in Dirs \ {Root} /\ tree.parent[c] = d
      /\ pc[c] = "none" /\ c # d
  <2>1. c \in Children(d) /\ pc[c] = "none" BY <1>p DEF ScanInv, ParentFirst
  <2> QED BY <2>1, TreeFacts
<1>2. c # None /\ pc[d] = "walk" /\ c = pending[d] BY <1>p
<1>3. /\ pc'[c] = "ready" /\ \A e \in Dirs \ {c} : pc'[e] = pc[e]
      /\ \A e \in Dirs \ {c} : depth'[e] = depth[e]
      /\ pending'[d] = None /\ \A e \in Dirs \ {d} : pending'[e] = pending[e]
      /\ DOMAIN depth' = Dirs
  BY <1>0, <1>1, <1>2
<1>4. UNCHANGED <<tree, opts, scanning, todo, visits, gone, replayed>> OBVIOUS
<1>5. \A e \in Dirs : Children(e)' = Children(e) /\ FilesIn(e)' = FilesIn(e) BY TreeFixed
<1>6. DirVisits(d) /\ Opened(d) /\ Opened(d)' BY <1>1, <1>2, <1>3 DEF VisitInv, Opened
<1>7. (AtDepthLimit(d)' <=> AtDepthLimit(d)) /\ (Skipped(d)' <=> Skipped(d))
  BY <1>1, <1>3, <1>4, SameLimits
<1>8. ~AtDepthLimit(d) /\ visits[c] = 0
  BY <1>1, <1>2, <1>6 DEF DirVisits, ChildVisits
<1>9. DirVisits(d)'
  <2>1. Histories(d)' /\ SelfVisits(d)'
    BY <1>1, <1>2, <1>3, <1>4, <1>6, <1>7 DEF DirVisits, Histories, SelfVisits, Opened
  <2>2. Children(d) \subseteq Dirs BY TreeFacts
  <2>3. ChildVisits(d)' BY <2>2, <1>2, <1>3, <1>4, <1>5, <1>6, <1>7, <1>8 DEF DirVisits, ChildVisits
  <2>4. Over(d) => Over(d)' BY <1>4, OverStays
  <2>5. FileVisits(d)' BY <2>4, <1>1, <1>2, <1>3, <1>4, <1>5, <1>6 DEF DirVisits, FileVisits
  <2> QED BY <2>1, <2>3, <2>5 DEF DirVisits
<1>10. DirVisits(c)'
  <2>1. DirVisits(c) /\ ~Opened(c) /\ ~Opened(c)' BY <1>1, <1>3 DEF VisitInv, Opened, Listed
  <2>2. Histories(c)' /\ SelfVisits(c)'
    BY <2>1, <1>1, <1>3, <1>4, <1>8 DEF DirVisits, Histories, SelfVisits
  <2>3. \A x \in Children(c) : x \in Dirs \ {c} BY <1>1, TreeFacts
  <2>4. ChildVisits(c)' BY <2>1, <2>3, <1>1, <1>3, <1>4, <1>5 DEF DirVisits, ChildVisits
  <2>5. FileVisits(c)' BY <2>1, <1>1, <1>3, <1>4, <1>5 DEF DirVisits, FileVisits
  <2> QED BY <2>2, <2>4, <2>5 DEF DirVisits
<1>11. ASSUME NEW e \in Dirs \ {c, d} PROVE DirVisits(e)'
  <2>1. \A x \in Children(e) : x \in Dirs \ {c} BY <1>1, TreeFacts
  <2> QED BY <2>1, <1>3, <1>4, Untouched
<1>12. scanning BY <1>2, BusyScans DEF Busy
<1> QED BY <1>3, <1>4, <1>9, <1>10, <1>11, <1>12, CallerKept DEF VisitInv

LEMMA FileStepVisits ==
  ASSUME VisitInv, ScanInv, NEW d \in Dirs, NEW f \in todo[d], VisitFile(d, f) \/ PassOver(d, f)
  PROVE  VisitInv'
<1>0. DOMAIN todo = Dirs /\ DOMAIN visits = Entries BY DEF ScanInv, Shapes, VisitInv
<1>1. f \in FilesIn(d) /\ f \in Files /\ f \in Entries /\ f \notin Dirs
  <2>1. f \in Files BY DEF VisitFile, PassOver
  <2> QED BY <2>1, TreeFacts, ScanAssumption DEF ScanInv, OwnEntries, Entries
<1>2. /\ pc[d] \in {"walk", "replay"}
      /\ UNCHANGED <<tree, opts, scanning, depth, pc, pending, gone, replayed>>
      /\ todo'[d] = todo[d] \ {f} /\ \A e \in Dirs \ {d} : todo'[e] = todo[e]
      /\ \A x \in Entries \ {f} : visits'[x] = visits[x]
      /\ DOMAIN visits' = Entries
      /\ \/ visits'[f] = visits[f] + 1
         \/ pc[d] = "walk" /\ visits'[f] = visits[f] /\ Over(d)
  BY <1>0, <1>1 DEF VisitFile, PassOver, Walking, Emit
<1>3. (AtDepthLimit(d)' <=> AtDepthLimit(d)) /\ (Skipped(d)' <=> Skipped(d))
  BY <1>2, SameLimits
<1>4. Children(d)' = Children(d) /\ FilesIn(d)' = FilesIn(d) BY <1>2, TreeFixed
<1>5. DirVisits(d) /\ (Opened(d)' <=> Opened(d)) BY <1>2, <1>3 DEF VisitInv, Opened, Listed
<1>6. DirVisits(d)'
  <2>1. visits'[d] = visits[d] BY <1>1, <1>2 DEF Entries
  <2>2. Histories(d)' /\ SelfVisits(d)'
    BY <2>1, <1>2, <1>3, <1>5 DEF DirVisits, Histories, SelfVisits
  <2>3. \A c \in Children(d) : c # f /\ visits'[c] = visits[c]
    BY <1>1, <1>2, TreeFacts DEF Entries
  <2>4. ChildVisits(d)' BY <2>3, <1>2, <1>3, <1>4, <1>5 DEF DirVisits, ChildVisits
  <2>5. CASE pc[d] = "replay" BY <2>5, <2>2, <2>4, <1>2 DEF DirVisits, FileVisits, Opened, Listed
  <2>6. CASE pc[d] = "walk"
    <3>1. visits[f] = 0 BY <1>1, <1>5, <2>6 DEF DirVisits, FileVisits, Opened
    <3>2. \A x \in FilesIn(d) \ {f} : visits'[x] = visits[x] BY <1>2, TreeFacts DEF Entries
    <3>3. Over(d) => Over(d)' BY <3>1, <3>2, <1>2, OverStays
    <3>4. FileVisits(d)'
      BY <3>1, <3>2, <3>3, <2>6, <1>2, <1>4, <1>5 DEF DirVisits, FileVisits
    <3> QED BY <3>4, <2>2, <2>4 DEF DirVisits
  <2> QED BY <2>5, <2>6, <1>2
<1>7. \A e \in Dirs \ {d} : DirVisits(e)' BY <1>1, <1>2, OtherDirs
<1>8. visits'[Root] = visits[Root] BY <1>1, <1>2, ScanAssumption DEF Entries
<1>9. scanning BY <1>2, BusyScans DEF Busy
<1> QED BY <1>2, <1>6, <1>7, <1>8, <1>9, CallerKept DEF VisitInv

LEMMA FinishVisits ==
  ASSUME VisitInv, ScanInv, NEW d \in Dirs, Finish(d)
  PROVE  VisitInv'
<1>0. DOMAIN pc = Dirs BY DEF ScanInv, Shapes
<1>1. /\ pc[d] \in {"walk", "replay"} /\ pc'[d] = "done"
      /\ \A e \in Dirs \ {d} : pc'[e] = pc[e]
      /\ UNCHANGED <<tree, opts, scanning, depth, todo, pending, visits, gone, replayed>>
  BY <1>0 DEF Finish, Walking, Leave
<1>2. (AtDepthLimit(d)' <=> AtDepthLimit(d)) /\ (Skipped(d)' <=> Skipped(d))
  BY <1>1, SameLimits
<1>3. Children(d)' = Children(d) /\ FilesIn(d)' = FilesIn(d) BY <1>1, TreeFixed
<1>4. DirVisits(d) BY DEF VisitInv
<1>5. Opened(d)' <=> Opened(d)
  BY <1>1, <1>2, <1>4 DEF DirVisits, Histories, Opened, Listed
<1>6. DirVisits(d)'
  <2>1. Histories(d)' /\ SelfVisits(d)'
    BY <1>1, <1>2, <1>4, <1>5 DEF DirVisits, Histories, SelfVisits
  <2>2. \A c \in Children(d) : IF pc[c] = "none" THEN pc'[c] = "none" ELSE pc'[c] # "none"
    BY <1>1, TreeFacts
  <2>3. ChildVisits(d)' BY <2>2, <1>1, <1>2, <1>3, <1>4, <1>5 DEF DirVisits, ChildVisits
  <2>4. Over(d) => Over(d)' BY <1>1, OverStays
  <2>5. FileVisits(d)' BY <2>4, <1>1, <1>3, <1>4, <1>5 DEF DirVisits, FileVisits
  <2> QED BY <2>1, <2>3, <2>5 DEF DirVisits
<1>7. \A e \in Dirs \ {d} : DirVisits(e)' BY <1>1, OtherDirs
<1>8. scanning BY <1>1, BusyScans DEF Busy
<1> QED BY <1>1, <1>6, <1>7, <1>8, CallerKept DEF VisitInv

LEMMA NextVisits == VisitInv /\ ScanInv /\ [Next]_vars => VisitInv'
<1> SUFFICES ASSUME VisitInv, ScanInv, [Next]_vars PROVE VisitInv' OBVIOUS
<1>1. CASE UNCHANGED scanVars \/ Return BY <1>1, SameVisits DEF scanVars, Return
<1>2. CASE ScanRoot BY <1>2, BeginVisits DEF ScanRoot
<1>3. ASSUME NEW d \in Dirs, Walk(d) PROVE VisitInv'
  <2>1. CASE Enter(d) BY <2>1, PassedOver, ReplayVisits, ReadDirVisits DEF Enter
  <2>2. CASE Descend(d) BY <2>2, StubVisits, AddVisits, FileStepVisits DEF Descend
  <2> QED BY <1>3, <2>1, <2>2, FinishVisits DEF Walk
<1>4. ASSUME NEW d \in Dirs, StartChild(d) PROVE VisitInv' BY <1>4, StartVisits
<1>5. ASSUME NEW d \in Dirs, NEW f \in todo[d], Feed(d, f) PROVE VisitInv'
  BY <1>5, FileStepVisits DEF Feed
<1>6. CASE \/ RootFails \/ CloseTasks \/ Done \/ Cancel \/ Wait
           \/ \E w \in Workers : Take(w) \/ Exit(w) \/ indexOne(w)
  BY <1>1, <1>6 DEF RootFails, CloseTasks, Done, Cancel, Wait, Take, Exit, indexOne
<1>7. CASE UNCHANGED vars BY <1>1, <1>7 DEF vars
<1> QED BY <1>1, <1>2, <1>3, <1>4, <1>5, <1>6, <1>7 DEF Next

(* A scan that returns has given every entry of the directories it read to *)
(* the callback exactly once, for every tree, all limits and any number of *)
(* slots: with the WaitGroup at zero no child is left to be started.       *)
THEOREM EntriesOnce == Spec => []EveryEntryOnce
<1>1. VisitInv /\ ScanInv => EveryEntryOnce
  <2> SUFFICES ASSUME VisitInv, ScanInv, ~scanning, scans > 0
      PROVE  /\ pc[Root] = "done"
             /\ \A d \in Dirs : Listed(d) =>
                  /\ d # Root => visits[d] = 1
                  /\ \A f \in FilesIn(d) : visits[f] = 1 \/ (Over(d) /\ visits[f] = 0)
                  /\ \A c \in Children(d) :
                       IF AtDepthLimit(d) THEN visits[c] = 1 \/ (c \in opts.ignored /\ visits[c] = 0)
                       ELSE pc[c] = "done"
             /\ \A d \in Dirs : pc[d] = "done" /\ (Skipped(d) \/ d \in gone) => visits[d] = 0
    BY DEF EveryEntryOnce
  <2>1. \A d \in Dirs : pc[d] \in {"none", "done"} /\ pending[d] = None
    BY ZeroIsQuiet DEF ScanInv
  <2>2. \A d \in Dirs : todo[d] = {} BY <2>1 DEF ScanInv, OwnEntries
  <2>3. \A d \in Dirs : Children(d) \subseteq Dirs BY TreeFacts
  <2>4. \A c \in Dirs : c # None BY ScanAssumption DEF Entries
  <2>5. ASSUME NEW d \in Dirs, Listed(d)
        PROVE  /\ d # Root => visits[d] = 1
               /\ \A f \in FilesIn(d) : visits[f] = 1 \/ (Over(d) /\ visits[f] = 0)
               /\ \A c \in Children(d) :
                    IF AtDepthLimit(d) THEN visits[c] = 1 ELSE pc[c] = "done"
    <3>1. DirVisits(d) /\ Opened(d) BY <2>5 DEF VisitInv, Opened
    <3>2. d # Root => visits[d] = 1 BY <3>1 DEF DirVisits, SelfVisits
    <3>3. \A f \in FilesIn(d) : visits[f] = 1 \/ (Over(d) /\ visits[f] = 0)
      BY <3>1, <2>2 DEF DirVisits, FileVisits
    <3>4. \A c \in Children(d) : IF AtDepthLimit(d) THEN visits[c] = 1 ELSE pc[c] = "done"
      BY <3>1, <2>1, <2>2, <2>3, <2>4 DEF DirVisits, ChildVisits
    <3> QED BY <3>2, <3>3, <3>4
  <2>6. \A d \in Dirs : pc[d] = "done" /\ (Skipped(d) \/ d \in gone) => visits[d] = 0
    BY DEF VisitInv, DirVisits, SelfVisits
  <2>7. pc[Root] = "done" BY DEF VisitInv
  <2> QED BY <2>5, <2>6, <2>7
<1> QED BY <1>1, InitScan, NextScan, InitVisits, NextVisits, PTL DEF Spec

----------------------------------------------------------------------------
(* The pool.  What the index has been given is in the index, in the        *)
(* channel or with a worker, as often as it was given.                     *)

\* Where a file is in the channel, and the workers that index it.
InChannel(f, ts) == {i \in DOMAIN ts : ts[i] = f}
Indexing(f, wk) == {w \in Workers : wk[w] = f}

LEMMA ChannelFinite ==
  ASSUME NEW ts \in Seq(Files), NEW f
  PROVE  IsFiniteSet(InChannel(f, ts)) /\ Cardinality(InChannel(f, ts)) \in Nat
<1>1. IsFiniteSet(1..Len(ts)) BY FS_Interval
<1>2. InChannel(f, ts) \in SUBSET (1..Len(ts)) BY DEF InChannel
<1> QED BY <1>1, <1>2, FS_Subset, FS_CardinalityType

LEMMA SendCount ==
  ASSUME NEW ts \in Seq(Files), NEW e \in Files, NEW f
  PROVE  Cardinality(InChannel(f, Append(ts, e)))
           = Cardinality(InChannel(f, ts)) + (IF e = f THEN 1 ELSE 0)
<1>1. /\ DOMAIN ts = 1..Len(ts) /\ Len(ts) \in Nat
      /\ DOMAIN Append(ts, e) = 1..(Len(ts) + 1)
      /\ \A i \in 1..Len(ts) : Append(ts, e)[i] = ts[i]
      /\ Append(ts, e)[Len(ts) + 1] = e
  OBVIOUS
<1>2. Len(ts) + 1 \notin InChannel(f, ts) BY <1>1 DEF InChannel
<1>3. InChannel(f, Append(ts, e))
        = IF e = f THEN InChannel(f, ts) \cup {Len(ts) + 1} ELSE InChannel(f, ts)
  BY <1>1 DEF InChannel
<1>4. PICK A : A = InChannel(f, ts) OBVIOUS
<1>5. IsFiniteSet(A) /\ Cardinality(A) \in Nat BY <1>4, ChannelFinite
<1>6. Cardinality(A \cup {Len(ts) + 1}) = Cardinality(A) + 1 BY <1>2, <1>4, <1>5, FS_AddElement
<1>7. CASE e = f BY <1>3, <1>4, <1>6, <1>7
<1>8. CASE e # f BY <1>3, <1>4, <1>5, <1>8
<1> QED BY <1>7, <1>8

LEMMA ReceiveCount ==
  ASSUME NEW ts \in Seq(Files), ts # <<>>, NEW f
  PROVE  Cardinality(InChannel(f, ts))
           = Cardinality(InChannel(f, Tail(ts))) + (IF Head(ts) = f THEN 1 ELSE 0)
<1>1. /\ DOMAIN ts = 1..Len(ts) /\ Len(ts) \in Nat \ {0}
      /\ DOMAIN Tail(ts) = 1..(Len(ts) - 1) /\ Tail(ts) \in Seq(Files)
      /\ \A i \in 1..(Len(ts) - 1) : Tail(ts)[i] = ts[i + 1]
      /\ Head(ts) = ts[1]
  OBVIOUS
<1>2. PICK A : A = InChannel(f, Tail(ts)) OBVIOUS
<1>3. PICK B : B = InChannel(f, ts) \ {1} OBVIOUS
<1>4. ExistsBijection(A, B)
  <2>1. PICK b : b = [i \in A |-> i + 1] OBVIOUS
  <2>2. b \in [A -> B]
    <3>1. \A i \in A : i + 1 \in B BY <1>1, <1>2, <1>3 DEF InChannel
    <3> QED BY <2>1, <3>1
  <2>3. \A i, j \in A : b[i] = b[j] => i = j BY <1>1, <1>2, <2>1 DEF InChannel
  <2>4. \A k \in B : \E i \in A : b[i] = k
    <3> SUFFICES ASSUME NEW k \in B PROVE \E i \in A : b[i] = k OBVIOUS
    <3>1. k - 1 \in A /\ (k - 1) + 1 = k BY <1>1, <1>2, <1>3 DEF InChannel
    <3> QED BY <2>1, <3>1
  <2> QED BY <2>2, <2>3, <2>4 DEF ExistsBijection, Bijection, Injection, Surjection, IsInjective
<1>5. IsFiniteSet(A) /\ Cardinality(A) \in Nat BY <1>1, <1>2, ChannelFinite
<1>6. Cardinality(B) = Cardinality(A) BY <1>4, <1>5, FS_Bijection
<1>7. Cardinality(B) = IF 1 \in InChannel(f, ts) THEN Cardinality(InChannel(f, ts)) - 1
                       ELSE Cardinality(InChannel(f, ts))
  BY <1>3, ChannelFinite, FS_RemoveElement
<1>8. 1 \in InChannel(f, ts) <=> Head(ts) = f BY <1>1 DEF InChannel
<1>9. Cardinality(InChannel(f, ts)) \in Nat BY ChannelFinite
<1> QED BY <1>2, <1>5, <1>6, <1>7, <1>8, <1>9

\* A worker turns to file x, or from a file to something else.
LEMMA WorkerCount ==
  ASSUME NEW wk, NEW nw, NEW w \in Workers, NEW f,
         \A v \in Workers \ {w} : nw[v] = wk[v],
         nw[w] # wk[w]
  PROVE  /\ Cardinality(Indexing(f, wk)) \in Nat
         /\ nw[w] = f => Cardinality(Indexing(f, nw)) = Cardinality(Indexing(f, wk)) + 1
         /\ wk[w] = f => Cardinality(Indexing(f, nw)) = Cardinality(Indexing(f, wk)) - 1
         /\ nw[w] # f /\ wk[w] # f => Cardinality(Indexing(f, nw)) = Cardinality(Indexing(f, wk))
<1>1. Indexing(f, wk) \in SUBSET Workers BY DEF Indexing
<1>2. IsFiniteSet(Indexing(f, wk)) BY <1>1, FS_Subset, IndexAssumption
<1>3. Cardinality(Indexing(f, wk)) \in Nat BY <1>2, FS_CardinalityType
<1>4. CASE nw[w] = f
  <2>1. /\ Indexing(f, nw) = Indexing(f, wk) \cup {w}
        /\ w \notin Indexing(f, wk)
    BY <1>4 DEF Indexing
  <2>2. wk[w] # f BY <1>4
  <2> QED BY <1>2, <1>3, <1>4, <2>1, <2>2, FS_AddElement
<1>5. CASE wk[w] = f
  <2>1. /\ Indexing(f, nw) = Indexing(f, wk) \ {w}
        /\ w \in Indexing(f, wk)
    BY <1>5 DEF Indexing
  <2>2. nw[w] # f BY <1>5
  <2> QED BY <1>2, <1>3, <1>5, <2>1, <2>2, FS_RemoveElement
<1>6. CASE nw[w] # f /\ wk[w] # f
  <2>1. Indexing(f, nw) = Indexing(f, wk) BY <1>6 DEF Indexing
  <2> QED BY <1>3, <1>6, <2>1
<1> QED BY <1>4, <1>5, <1>6

LEMMA IndexingFinite == \A f : Cardinality(Indexing(f, worker)) \in Nat
<1>1. \A f : Indexing(f, worker) \in SUBSET Workers BY DEF Indexing
<1> QED BY <1>1, FS_Subset, FS_CardinalityType, IndexAssumption

PoolShapes ==
    /\ feeder \in {"scan", "closing", "done"}
    /\ tasks \in Seq(Files)
    /\ worker \in [Workers -> Files \cup {"idle", "exited"}]
    /\ ctxDone \in BOOLEAN /\ firstErr \in BOOLEAN
    /\ files \in [Files -> Nat] /\ fed \in [Files -> Nat]
    /\ answer \in {None, "nil", "error", "ctx"}

\* While no error is recorded, no task is lost and none is done twice.
TasksConserved ==
    ~firstErr => \A f \in Files :
        fed[f] = files[f] + Cardinality(InChannel(f, tasks)) + Cardinality(Indexing(f, worker))

\* The order in which the pool shuts down: the scan has ended before the channel
\* is closed, a worker leaves of itself only when the closed channel is empty,
\* doneCh is closed when all have left, and Wait answers after that.
ShutdownOrder ==
    /\ feeder # "scan" => ~scanning
    /\ feeder = "done" => \A w \in Workers : worker[w] = "exited"
    /\ ~ctxDone /\ (\E w \in Workers : worker[w] = "exited") => feeder # "scan" /\ tasks = <<>>
    /\ answer = "nil" => feeder = "done" /\ ~firstErr

PoolInv == PoolShapes /\ TasksConserved /\ ShutdownOrder

LEMMA InitPool == IndexInit => PoolInv
<1> SUFFICES ASSUME IndexInit PROVE PoolInv OBVIOUS
<1> USE DEF IndexInit, Init
<1>1. PoolShapes
  <2>1. tasks \in Seq(Files) OBVIOUS
  <2>2. files \in [Files -> Nat] /\ fed \in [Files -> Nat] OBVIOUS
  <2>3. worker \in [Workers -> Files \cup {"idle", "exited"}] OBVIOUS
  <2> QED BY <2>1, <2>2, <2>3 DEF PoolShapes
<1>2. \A f \in Files : InChannel(f, tasks) = {} /\ Indexing(f, worker) = {}
  BY IndexAssumption DEF InChannel, Indexing
<1>3. TasksConserved
  <2>1. \A f \in Files : fed[f] = 0 /\ files[f] = 0 OBVIOUS
  <2>2. \A f \in Files : Cardinality(InChannel(f, tasks)) = 0 /\ Cardinality(Indexing(f, worker)) = 0
    BY <1>2, FS_EmptySet, Zenon
  <2> HIDE DEF IndexInit, Init
  <2> QED BY <2>1, <2>2 DEF TasksConserved
<1>4. ShutdownOrder BY IndexAssumption DEF ShutdownOrder
<1> QED BY <1>1, <1>3, <1>4 DEF PoolInv

\* A step that moves no task.
LEMMA NoTaskMoved ==
  ASSUME TasksConserved, UNCHANGED <<tasks, files, fed>>, firstErr => firstErr',
         firstErr \in BOOLEAN, firstErr' \in BOOLEAN,
         \A f \in Files : Indexing(f, worker') = Indexing(f, worker)
  PROVE  TasksConserved'
  BY DEF TasksConserved

LEMMA NextPool == PoolInv /\ ScanInv /\ [Next]_vars => PoolInv'
<1> SUFFICES ASSUME PoolInv, ScanInv, [Next]_vars PROVE PoolInv' OBVIOUS
<1> USE DEF PoolInv
<1>1. ASSUME UNCHANGED indexVars, feeder # "scan" => ~scanning' PROVE PoolInv'
  <2>1. PoolShapes' BY <1>1 DEF indexVars, PoolShapes
  <2>2. TasksConserved' BY <1>1 DEF indexVars, TasksConserved
  <2>3. ShutdownOrder' BY <1>1 DEF indexVars, ShutdownOrder
  <2> QED BY <2>1, <2>2, <2>3
<1>2. CASE ScanRoot BY <1>1, <1>2 DEF ScanRoot
<1>3. CASE Return /\ UNCHANGED indexVars BY <1>1, <1>3 DEF Return
<1>4. ASSUME NEW d \in Dirs, Walk(d) \/ StartChild(d), UNCHANGED indexVars PROVE PoolInv'
  <2>1. scanning' = scanning
    BY <1>4 DEF Walk, Enter, Descend, StartChild, Skip, Leave, Replay, ReadDirFails, ReadDir,
       StubChild, AddChild, PassOver, Finish
  <2> QED BY <1>1, <1>4, <2>1 DEF ShutdownOrder
<1>5. CASE RootFails \/ CloseTasks \/ Cancel
  <2>1. PoolShapes' BY <1>5 DEF RootFails, CloseTasks, Cancel, PoolShapes
  <2>2. TasksConserved' BY <1>5, NoTaskMoved, <2>1 DEF RootFails, CloseTasks, Cancel, PoolShapes
  <2>3. ShutdownOrder' BY <1>5 DEF RootFails, CloseTasks, Cancel, ShutdownOrder, scanVars, PoolShapes
  <2> QED BY <2>1, <2>2, <2>3
<1>6. CASE Done \/ Wait
  <2>1. PoolShapes' BY <1>6 DEF Done, Wait, PoolShapes
  <2>2. TasksConserved' BY <1>6 DEF Done, Wait, TasksConserved
  <2>3. ShutdownOrder' BY <1>6, IndexAssumption DEF Done, Wait, ShutdownOrder, scanVars, PoolShapes
  <2> QED BY <2>1, <2>2, <2>3
<1>7. ASSUME NEW d \in Dirs, NEW f \in todo[d], Feed(d, f) PROVE PoolInv'
  <2>1. f \in Files /\ pc[d] \in Busy /\ scanning' = scanning
    BY <1>7 DEF Feed, VisitFile, Walking, Busy
  <2>2. feeder = "scan" BY <2>1, BusyScans DEF ShutdownOrder
  <2>3. CASE UNCHANGED <<tasks, fed>>
    <3>1. UNCHANGED indexVars BY <1>7, <2>3 DEF Feed, indexVars
    <3> QED BY <1>1, <2>2, <3>1
  <2>4. CASE tasks' = Append(tasks, f) /\ fed' = [fed EXCEPT ![f] = @ + 1]
    <3>1. UNCHANGED <<feeder, worker, ctxDone, files, firstErr, answer>> BY <1>7 DEF Feed
    <3>2. PoolShapes' BY <2>1, <2>4, <3>1 DEF PoolShapes
    <3>3. ShutdownOrder' BY <2>2, <3>1 DEF ShutdownOrder
    <3>4. TasksConserved'
      <4> SUFFICES ASSUME ~firstErr, NEW h \in Files
                   PROVE  fed'[h] = files[h] + Cardinality(InChannel(h, tasks'))
                                             + Cardinality(Indexing(h, worker))
        BY <3>1 DEF TasksConserved
      <4>1. Cardinality(InChannel(h, tasks'))
              = Cardinality(InChannel(h, tasks)) + (IF f = h THEN 1 ELSE 0)
        BY <2>1, <2>4, SendCount DEF PoolShapes
      <4>2. fed'[h] = fed[h] + (IF f = h THEN 1 ELSE 0)
        BY <2>1, <2>4 DEF PoolShapes
      <4>3. /\ Cardinality(InChannel(h, tasks)) \in Nat /\ Cardinality(Indexing(h, worker)) \in Nat
            /\ files[h] \in Nat
        BY ChannelFinite, IndexingFinite DEF PoolShapes
      <4> QED BY <4>1, <4>2, <4>3 DEF TasksConserved
    <3> QED BY <3>2, <3>3, <3>4
  <2> QED BY <1>7, <2>3, <2>4 DEF Feed
<1>8. ASSUME NEW w \in Workers, Take(w) PROVE PoolInv'
  <2>1. /\ worker[w] = "idle" /\ tasks # <<>>
        /\ worker' = [worker EXCEPT ![w] = Head(tasks)] /\ tasks' = Tail(tasks)
        /\ UNCHANGED <<scanning, feeder, ctxDone, files, firstErr, fed, answer>>
    BY <1>8 DEF Take, scanVars
  <2>2. Head(tasks) \in Files /\ Tail(tasks) \in Seq(Files) BY <2>1 DEF PoolShapes
  <2>3. Head(tasks) # "idle" /\ Head(tasks) # "exited" BY <2>2, IndexAssumption
  <2>4. PoolShapes' BY <2>1, <2>2 DEF PoolShapes
  <2>5. ShutdownOrder' BY <2>1, <2>3 DEF ShutdownOrder, PoolShapes
  <2>6. TasksConserved'
    <3> SUFFICES ASSUME ~firstErr, NEW h \in Files
                 PROVE  fed[h] = files[h] + Cardinality(InChannel(h, tasks'))
                                          + Cardinality(Indexing(h, worker'))
      BY <2>1 DEF TasksConserved
    <3>1. h # "idle" BY IndexAssumption
    <3>2. Cardinality(InChannel(h, tasks))
            = Cardinality(InChannel(h, tasks')) + (IF Head(tasks) = h THEN 1 ELSE 0)
      BY <2>1, ReceiveCount DEF PoolShapes
    <3>3. /\ Head(tasks) = h =>
                Cardinality(Indexing(h, worker')) = Cardinality(Indexing(h, worker)) + 1
          /\ Head(tasks) # h =>
                Cardinality(Indexing(h, worker')) = Cardinality(Indexing(h, worker))
      <4>1. worker'[w] = Head(tasks) /\ \A v \in Workers \ {w} : worker'[v] = worker[v]
        BY <2>1 DEF PoolShapes
      <4>2. worker[w] # Head(tasks) /\ worker[w] # h BY <2>1, <2>3, <3>1
      <4> QED BY <4>1, <4>2, WorkerCount
    <3>4. /\ Cardinality(InChannel(h, tasks')) \in Nat /\ Cardinality(Indexing(h, worker)) \in Nat
          /\ files[h] \in Nat
      BY <2>1, <2>2, ChannelFinite, IndexingFinite DEF PoolShapes
    <3> QED BY <2>1, <3>1, <3>2, <3>3, <3>4 DEF TasksConserved
  <2> QED BY <2>4, <2>5, <2>6
<1>9. ASSUME NEW w \in Workers, Exit(w) PROVE PoolInv'
  <2>1. PoolShapes' BY <1>9 DEF Exit, PoolShapes
  <2>2. \A f \in Files : Indexing(f, worker') = Indexing(f, worker)
    BY <1>9, IndexAssumption DEF Exit, Indexing, PoolShapes
  <2>3. TasksConserved' BY <1>9, <2>2, NoTaskMoved DEF Exit, PoolShapes
  <2>4. ShutdownOrder' BY <1>9 DEF Exit, ShutdownOrder, PoolShapes, scanVars
  <2> QED BY <2>1, <2>3, <2>4
<1>10. ASSUME NEW w \in Workers, indexOne(w) PROVE PoolInv'
  <2>1. PICK x \in Files : x = worker[w] BY <1>10 DEF indexOne
  <2>2. /\ worker' = [worker EXCEPT ![w] = "idle"]
        /\ UNCHANGED <<scanning, feeder, tasks, ctxDone, fed, answer>>
        /\ \/ files' = [files EXCEPT ![x] = @ + 1] /\ firstErr' = firstErr
           \/ files' = files /\ firstErr' = TRUE
    BY <1>10, <2>1 DEF indexOne, scanVars
  <2>3. x # "idle" /\ x # "exited" BY IndexAssumption
  <2>4. feeder # "done" /\ answer # "nil" BY <2>1, <2>3 DEF ShutdownOrder
  <2>5. PoolShapes'
    <3>0. files \in [Files -> Nat] BY DEF PoolShapes
    <3>1. files' \in [Files -> Nat]
      <4>1. CASE files' = files BY <3>0, <4>1
      <4>2. CASE files' = [files EXCEPT ![x] = @ + 1]
        <5>1. files[x] + 1 \in Nat BY <3>0
        <5> QED BY <3>0, <4>2, <5>1
      <4> QED BY <2>2, <4>1, <4>2
    <3>3. firstErr' \in BOOLEAN BY <2>2, Zenon DEF PoolShapes
    <3>2. worker' \in [Workers -> Files \cup {"idle", "exited"}] BY <2>2 DEF PoolShapes
    <3> QED BY <2>2, <3>1, <3>2, <3>3 DEF PoolShapes
  <2>6. ShutdownOrder'
    <3>1. (\E v \in Workers : worker'[v] = "exited") => \E v \in Workers : worker[v] = "exited"
      BY <2>2 DEF PoolShapes
    <3> QED BY <2>2, <2>4, <3>1 DEF ShutdownOrder
  <2>7. TasksConserved'
    <3> SUFFICES ASSUME ~firstErr', NEW h \in Files
                 PROVE  fed[h] = files'[h] + Cardinality(InChannel(h, tasks))
                                           + Cardinality(Indexing(h, worker'))
      BY <2>2 DEF TasksConserved
    <3>1. h # "idle" /\ ~firstErr /\ files' = [files EXCEPT ![x] = @ + 1]
      BY <2>2, IndexAssumption
    <3>2. /\ x = h => Cardinality(Indexing(h, worker')) = Cardinality(Indexing(h, worker)) - 1
          /\ x # h => Cardinality(Indexing(h, worker')) = Cardinality(Indexing(h, worker))
      <4>1. worker'[w] = "idle" /\ \A v \in Workers \ {w} : worker'[v] = worker[v]
        BY <2>2 DEF PoolShapes
      <4>2. worker'[w] # worker[w] /\ worker'[w] # h BY <2>1, <2>3, <3>1, <4>1
      <4>3. /\ worker[w] = h =>
                  Cardinality(Indexing(h, worker')) = Cardinality(Indexing(h, worker)) - 1
            /\ worker[w] # h =>
                  Cardinality(Indexing(h, worker')) = Cardinality(Indexing(h, worker))
        BY <4>1, <4>2, WorkerCount
      <4> QED BY <2>1, <4>3
    <3>3. files'[h] = files[h] + (IF x = h THEN 1 ELSE 0) /\ files[h] \in Nat
      BY <3>1 DEF PoolShapes
    <3>4. Cardinality(InChannel(h, tasks)) \in Nat /\ Cardinality(Indexing(h, worker)) \in Nat
      BY ChannelFinite, IndexingFinite DEF PoolShapes
    <3> QED BY <2>1, <3>1, <3>2, <3>3, <3>4 DEF TasksConserved
  <2> QED BY <2>5, <2>6, <2>7
<1>11. CASE UNCHANGED vars
  <2>1. UNCHANGED indexVars /\ scanning' = scanning BY <1>11 DEF vars, scanVars
  <2> QED BY <1>1, <2>1 DEF ShutdownOrder
<1> QED BY <1>2, <1>3, <1>4, <1>5, <1>6, <1>7, <1>8, <1>9, <1>10, <1>11 DEF Next

(* When Wait returns without an error and nobody has cancelled, the index  *)
(* holds every file that the scans fed to the pool, as often as it was     *)
(* fed: doneCh is closed only after every worker has seen the closed       *)
(* channel empty, for any number of workers, files and roots.              *)
THEOREM IndexHoldsAll == Spec => []IndexComplete
<1>1. PoolInv => IndexComplete
  <2> SUFFICES ASSUME PoolInv, answer = "nil", ~ctxDone PROVE files = fed /\ tasks = <<>>
    BY DEF IndexComplete
  <2> USE DEF PoolInv
  <2>1. /\ ~firstErr /\ \A w \in Workers : worker[w] = "exited"
        /\ tasks = <<>>
    BY IndexAssumption DEF ShutdownOrder
  <2>2. \A f \in Files : InChannel(f, tasks) = {} /\ Indexing(f, worker) = {}
    BY <2>1, IndexAssumption DEF InChannel, Indexing
  <2>3. \A f \in Files : fed[f] = files[f]
    <3>1. \A f \in Files : Cardinality(InChannel(f, tasks)) = 0 /\ Cardinality(Indexing(f, worker)) = 0
      BY <2>2, FS_EmptySet, Zenon
    <3>2. \A f \in Files : files[f] \in Nat BY DEF PoolShapes
    <3> QED BY <2>1, <3>1, <3>2 DEF TasksConserved
  <2> QED BY <2>1, <2>3 DEF PoolShapes
<1> QED BY <1>1, InitScan, NextScan, InitPool, NextPool, PTL DEF Spec
----------------------------------------------------------------------------
(* Nobody waits in a circle *)

\* The caller walks the root as long as it scans, and scans no more roots than given.
CallerInv ==
    /\ scans \in Nat /\ scans <= Roots
    /\ scanning => pc[Root] \in Busy \cup {"done"}

LEMMA InitCaller == IndexInit => CallerInv
  BY IndexAssumption DEF IndexInit, Init, CallerInv

LEMMA NextCaller == CallerInv /\ ScanInv /\ [Next]_vars => CallerInv'
<1> SUFFICES ASSUME CallerInv, ScanInv, [Next]_vars PROVE CallerInv' OBVIOUS
<1>0. Root \in Dirs /\ pc \in [Dirs -> Busy \cup {"none", "done"}]
  BY ScanAssumption DEF ScanInv, Shapes
<1>1. CASE ScanRoot
  <2>1. scans' = scans + 1 /\ scans < Roots /\ pc'[Root] = "ready"
    BY <1>0, <1>1 DEF ScanRoot, Begin
  <2> QED BY <2>1, IndexAssumption DEF CallerInv, Busy
<1>2. CASE UNCHANGED <<scans, scanning, pc>> BY <1>2 DEF CallerInv
<1>3. CASE Return BY <1>3 DEF Return, CallerInv
<1>4. ASSUME NEW d \in Dirs, Walk(d) \/ StartChild(d) PROVE CallerInv'
  <2>1. scans' = scans /\ scanning' = scanning
    BY <1>4 DEF Walk, Enter, Skip, Replay, ReadDirFails, ReadDir, Descend, StubChild, AddChild,
         PassOver, Finish, StartChild
  <2>2. \/ pc' = pc
        \/ \E x \in Dirs : x # Root /\ pc' = [pc EXCEPT ![x] = "ready"]
        \/ \E v \in {"done", "replay", "walk"} : pc' = [pc EXCEPT ![d] = v]
    <3>1. CASE Walk(d)
      BY <3>1 DEF Walk, Enter, Skip, Replay, ReadDirFails, ReadDir, Descend, StubChild, AddChild,
           PassOver, Finish, Leave
    <3>2. CASE StartChild(d)
      <4>1. pending[d] \in Children(d) BY <3>2 DEF StartChild, ScanInv, ParentFirst
      <4>2. pending[d] \in Dirs /\ pending[d] # Root BY <4>1 DEF Children
      <4> QED BY <3>2, <4>2 DEF StartChild
    <3> QED BY <1>4, <3>1, <3>2
  <2>3. pc[Root] \in Busy \cup {"done"} => pc'[Root] \in Busy \cup {"done"}
    BY <1>0, <2>2 DEF Busy
  <2> QED BY <2>1, <2>3 DEF CallerInv
<1>5. ASSUME NEW d \in Dirs, NEW f \in todo[d], Feed(d, f) PROVE CallerInv'
  BY <1>2, <1>5 DEF Feed, VisitFile
<1>6. CASE RootFails \/ CloseTasks \/ Done \/ Cancel \/ Wait
  BY <1>2, <1>6 DEF RootFails, CloseTasks, Done, Cancel, Wait, scanVars
<1>7. ASSUME NEW w \in Workers, Take(w) \/ Exit(w) \/ indexOne(w) PROVE CallerInv'
  BY <1>2, <1>7 DEF Take, Exit, indexOne, scanVars
<1>8. CASE UNCHANGED vars BY <1>2, <1>8 DEF vars, scanVars
<1> QED BY <1>1, <1>3, <1>4, <1>5, <1>6, <1>7, <1>8 DEF Next

\* If everybody who runs waits for a slot, the slots are held by directories that
\* have directories in them, and there are at least Limit of those.
LEMMA SlotCircle ==
  ASSUME ScanInv, \A d \in Running : AwaitsSlot(d), ~(Cardinality(sem) < Limit)
  PROVE  ~(Cardinality(Nested) < Limit)
<1>1. ASSUME NEW d \in sem PROVE d \in Nested
  <2>1. d \in Dirs \ {Root} /\ pending[d] # None BY <1>1 DEF ScanInv, Running, AwaitsSlot
  <2>2. pending[d] \in Children(d) BY <2>1 DEF ScanInv, ParentFirst
  <2> QED BY <2>1, <2>2 DEF Nested
<1>2. IsFiniteSet(Nested)
  <2>1. Nested \in SUBSET Dirs BY DEF Nested
  <2> QED BY <2>1, ScanAssumption, FS_Subset
<1>3. sem \in SUBSET Nested BY <1>1
<1>4. IsFiniteSet(sem) /\ Cardinality(sem) <= Cardinality(Nested) BY <1>2, <1>3, FS_Subset
<1>5. Cardinality(sem) \in Nat /\ Cardinality(Nested) \in Nat /\ Limit \in Nat
  BY <1>2, <1>4, FS_CardinalityType, ScanAssumption
<1> QED BY <1>4, <1>5

LEMMA ScanGoesOn ==
  ASSUME ScanInv, PoolInv, CallerInv, Cardinality(Nested) < Limit, feeder = "scan", scanning,
         \A w \in Workers : ~Works(w)
  PROVE  Feeds \/ \E d \in Dirs : Runs(d)
<1> SUFFICES ASSUME \A d \in Dirs : ~Runs(d) PROVE Feeds OBVIOUS
<1>0. Root \in Dirs BY ScanAssumption
\* A goroutine that waits for room would have a worker to wait for.
<1>1. \A d \in Dirs : ~AwaitsRoom(d)
  <2> SUFFICES ASSUME NEW d \in Dirs, AwaitsRoom(d) PROVE FALSE OBVIOUS
  <2>1. ~ctxDone /\ ~(Len(tasks) < TaskCap) BY DEF AwaitsRoom
  <2>2. tasks # <<>> BY <2>1, IndexAssumption
  <2>3. PICK w \in Workers : worker[w] # "exited"
    BY <2>1, IndexAssumption DEF PoolInv, ShutdownOrder
  <2>4. worker[w] \in Files \/ worker[w] = "idle" BY <2>3 DEF PoolInv, PoolShapes
  <2> QED BY <2>2, <2>4 DEF Works
<1>2. \A d \in Dirs : pc[d] \in Busy => AwaitsSlot(d) BY <1>1 DEF Runs, Busy
<1>3. \A d \in Running : AwaitsSlot(d) BY <1>2 DEF Running
<1>4. \A d \in Dirs : pc[d] \notin Busy BY <1>2, <1>3, SlotCircle DEF AwaitsSlot
<1>5. pc[Root] = "done" BY <1>0, <1>4 DEF CallerInv
<1>6. Counted = {}
  <2> SUFFICES ASSUME NEW d \in Counted PROVE FALSE OBVIOUS
  <2>1. d \in Dirs \ {Root} /\ pending[tree.parent[d]] = d BY <1>4 DEF Counted
  <2>2. tree.parent[d] \in Dirs BY <2>1, ScanAssumption DEF ScanInv, Shapes
  <2>3. d # None BY <2>1, ScanAssumption DEF Entries
  <2>4. pc[tree.parent[d]] = "walk" BY <2>1, <2>2, <2>3 DEF ScanInv, ParentFirst
  <2> QED BY <1>4, <2>2, <2>4 DEF Busy
<1>7. wg = 0 BY <1>6, FS_EmptySet DEF ScanInv
<1> QED BY <1>5, <1>7 DEF Feeds

\* For every tree in which fewer directories than there are slots hold directories,
\* and for any number of workers and any capacity of the channel, the scan and the
\* pool never wait for each other in a circle: somebody can go on until doneCh is
\* closed.
THEOREM PoolNeverStuck == Spec => []NeverStuck
<1>1. ScanInv /\ PoolInv /\ CallerInv => NeverStuck
  <2> SUFFICES ASSUME ScanInv, PoolInv, CallerInv, Cardinality(Nested) < Limit, feeder # "done",
                      \A w \in Workers : ~Works(w)
               PROVE  Feeds \/ \E d \in Dirs : Runs(d)
    BY DEF NeverStuck
  <2>1. feeder \in {"scan", "closing"} BY DEF PoolInv, PoolShapes
  <2>2. CASE feeder = "closing"
    <3>1. ASSUME NEW w \in Workers PROVE worker[w] = "exited"
      <4>1. worker[w] # "idle" /\ worker[w] \notin Files BY <2>2 DEF Works
      <4> QED BY <4>1 DEF PoolInv, PoolShapes
    <3> QED BY <2>2, <3>1 DEF Feeds
  <2>3. CASE feeder = "scan" /\ ~scanning BY <2>3 DEF Feeds, CallerInv
  <2>4. CASE feeder = "scan" /\ scanning BY <2>4, ScanGoesOn
  <2> QED BY <2>1, <2>2, <2>3, <2>4
<1> QED BY <1>1, InitScan, InitPool, InitCaller, NextScan, NextPool, NextCaller, PTL DEF Spec
=============================================================================
