--------------------------- MODULE WorkerRunProofs ---------------------------
(***************************************************************************)
(* Theorems about WorkerRun, for any number of goroutines and workers, any *)
(* dependencies between them and any parameters and answers.               *)
(***************************************************************************)
EXTENDS WorkerRun, TLAPS

\* Files and locals are functions of workers and slots.
Domains ==
    /\ DOMAIN out = Workers /\ DOMAIN meta = Workers /\ DOMAIN job = Slots
    /\ DOMAIN input = Slots /\ DOMAIN loaded = Slots
    /\ DOMAIN result = Slots /\ DOMAIN uploaded = Slots

\* Nobody is in the middle of a save of w.
Quiet(w) == \A r \in Slots : job[r] = w => pc[r] \notin Saving

\* While nobody saves w, a meta file that can be decoded belongs to the output,
\* which is always the whole answer of a model.
FilesAgree(w) ==
    /\ Quiet(w) => meta[w] \in Unreadable \/ out[w].from = meta[w]
    /\ out[w] \in Unreadable \/ out[w].text \in Texts[w]

\* What a run of w knows of the files of w.
SlotAgrees(r, w) ==
    /\ pc[r] = "loaded" => loaded[r] = meta[w]
    /\ pc[r] \in Saving \cup {"save", "sync"} =>
         result[r].from = input[r] /\ result[r].text \in Texts[w]
    /\ pc[r] = "writeOut" => out[w] = Empty
    /\ pc[r] = "writeMeta" => meta[w] = Empty
    /\ pc[r] \in {"metaNext", "writeMeta", "sync"} => out[w] = result[r]
    /\ uploaded[r] \in {Missing, result[r]}
    /\ uploaded[r] # Missing => pc[r] = "sync"

Clean(w) ==
    /\ ~Overlap(w, pc, job)
    /\ FilesAgree(w)
    /\ \A r \in Slots : job[r] = w => SlotAgrees(r, w)

\* The inductive invariant: the files of a worker that is not mixed are clean.
Inv == TypeOK /\ Domains /\ \A w \in Workers \ mixed : Clean(w)

------------------------------------------------------------------------------
LEMMA TypeInit == Init => TypeOK /\ Domains
  BY WorkerAssumption DEF Init, TypeOK, Domains, Labels, NoInput

\* A step that neither starts nor ends a run keeps the types.
LEMMA StayTypes ==
  ASSUME NEW r \in Slots, TypeOK, Domains, pc[r] # "idle",
         NEW l \in Labels \ {"idle"}, Goto(r, l), UNCHANGED <<job, input, uploaded>>,
         NEW F \in SUBSET Workers, Record(F)
  PROVE  TypeOK'
  BY DEF TypeOK, Domains, Goto, Record, Labels

LEMMA LeaveTypes ==
  ASSUME NEW r \in Slots, TypeOK, Domains, Leave(r), NEW F \in SUBSET Workers, Record(F)
  PROVE  TypeOK' /\ Domains'
  BY WorkerAssumption DEF TypeOK, Domains, Leave, Record, Goto, Labels, files

LEMMA StartTypes ==
  ASSUME NEW r \in Slots, NEW w \in Workers, TypeOK, Domains, StartRun(r, w)
  PROVE  TypeOK' /\ Domains'
<1>1. /\ DOMAIN input' = Slots
      /\ \A s \in Slots \ {r} : input'[s] = input[s]
      /\ input'[r].deps = input[r].deps
  BY DEF StartRun, Domains, TypeOK, NoInput
<1>2. /\ pc' = [pc EXCEPT ![r] = "build"] /\ job' = [job EXCEPT ![r] = w]
      /\ UNCHANGED <<out, meta, loaded, result, uploaded>> /\ mixed' \subseteq Workers
  BY DEF StartRun, Goto, Record, files, TypeOK
<1>3. DOMAIN input[r].deps = {}
  BY DEF StartRun, TypeOK, NoInput
<1>4. DOMAIN input'[r].deps \subseteq Requires[w]
  BY <1>1, <1>3
<1> QED BY <1>1, <1>2, <1>4, WorkerAssumption DEF TypeOK, Domains, Labels

LEMMA ReadTypes ==
  ASSUME NEW r \in Slots, NEW d \in Workers, TypeOK, Domains, BuildInput(r, d)
  PROVE  TypeOK' /\ Domains'
<1>1. /\ DOMAIN input' = Slots
      /\ \A s \in Slots \ {r} : input'[s] = input[s]
      /\ input'[r] = [input[r] EXCEPT !.deps =
                        [e \in DOMAIN input[r].deps \cup {d} |->
                           IF e = d THEN out[d] ELSE input[r].deps[e]]]
  BY DEF BuildInput, ReadDep, Domains
<1>2. DOMAIN input'[r].deps \subseteq DOMAIN input[r].deps \cup {d}
  BY <1>1
<1>3. pc[r] # "idle" /\ d \in Requires[job[r]] /\ mixed' \subseteq Workers
  BY DEF BuildInput, ToRead, ReadDep, Record, TypeOK
<1>4. UNCHANGED <<out, meta, pc, job, loaded, result, uploaded>>
  BY DEF BuildInput, ReadDep, files
<1> QED BY <1>1, <1>2, <1>3, <1>4 DEF TypeOK, Domains

LEMMA TypeNext == TypeOK /\ Domains /\ [Next]_vars => TypeOK' /\ Domains'
<1> SUFFICES ASSUME TypeOK, Domains, [Next]_vars PROVE TypeOK' /\ Domains'
  OBVIOUS
<1>0. CASE UNCHANGED vars
  BY <1>0 DEF TypeOK, Domains, vars, files, locals
<1>1. ASSUME NEW r \in Slots, Step(r) PROVE TypeOK' /\ Domains'
  <2>1. CASE \E d \in Workers : BuildInput(r, d)
    BY <2>1, ReadTypes
  <2>2. CASE SyncEnds(r) \/ \E d \in Workers : BuildFails(r, d)
    BY <2>2, LeaveTypes, {} \in SUBSET Workers DEF SyncEnds, BuildFails
  <2>3. CASE TryLoadMisses(r) \/ TryLoadMeta(r) \/ TryLoadHit(r) \/ TryLoadRejects(r)
    <3>1. TypeOK'
      BY <2>3, StayTypes, {} \in SUBSET Workers
         DEF TryLoadMisses, TryLoadMeta, TryLoadHit, TryLoadRejects, InputBuilt, Labels, locals
    <3>2. Domains'
      BY <2>3 DEF TryLoadMisses, TryLoadMeta, TryLoadHit, TryLoadRejects, Domains, locals, files
    <3> QED BY <3>1, <3>2
  <2>4. CASE RunWorker(r) \/ SaveTruncOut(r) \/ SaveWriteOut(r)
    <3>1. TypeOK'
      BY <2>4, StayTypes, {} \in SUBSET Workers
         DEF RunWorker, SaveTruncOut, SaveWriteOut, Labels, locals
    <3>2. Domains'
      BY <2>4 DEF RunWorker, SaveTruncOut, SaveWriteOut, Domains, locals, files
    <3> QED BY <3>1, <3>2
  <2>5. CASE SaveTruncMeta(r) \/ SaveWriteMeta(r)
    <3>1. TypeOK'
      BY <2>5, StayTypes, {} \in SUBSET Workers
         DEF SaveTruncMeta, SaveWriteMeta, Saved, Labels, locals
    <3>2. Domains'
      BY <2>5 DEF SaveTruncMeta, SaveWriteMeta, Saved, Domains, locals, files
    <3> QED BY <3>1, <3>2
  <2>6. CASE SyncPut(r)
    BY <2>6 DEF SyncPut, TypeOK, Domains, Record, files
  <2> QED BY <1>1, <2>1, <2>2, <2>3, <2>4, <2>5, <2>6 DEF Step
<1>2. ASSUME NEW r \in Slots, Fault(r) PROVE TypeOK' /\ Domains'
  <2>1. CASE RunRejected(r) \/ RunFails(r)
    BY <2>1, LeaveTypes, {} \in SUBSET Workers DEF RunRejected, RunFails
  <2>2. CASE SaveOutFails(r) \/ SaveMetaFails(r)
    <3>1. {job[r]} \in SUBSET Workers
      BY <2>2 DEF SaveOutFails, SaveMetaFails, TypeOK
    <3>2. TypeOK'
      BY <2>2, <3>1, StayTypes DEF SaveOutFails, SaveMetaFails, Saved, Labels, locals
    <3>3. Domains'
      BY <2>2 DEF SaveOutFails, SaveMetaFails, Saved, Domains, locals, files
    <3> QED BY <3>2, <3>3
  <2> QED BY <1>2, <2>1, <2>2 DEF Fault
<1>3. CASE Restart
  BY <1>3 DEF Restart, TypeOK, Domains, Labels, files
<1> QED BY <1>0, <1>1, <1>2, <1>3, StartTypes DEF Next

------------------------------------------------------------------------------
\* Only r takes a step.
OnlyBy(r) ==
    \A s \in Slots \ {r} :
      /\ pc'[s] = pc[s] /\ job'[s] = job[s] /\ input'[s] = input[s]
      /\ loaded'[s] = loaded[s] /\ result'[s] = result[s] /\ uploaded'[s] = uploaded[s]

\* A step of a run of another worker, or one that ends a run outside of a save.
LEMMA Elsewhere ==
  ASSUME NEW r \in Slots, NEW w \in Workers, Clean(w), OnlyBy(r), ~Overlap(w, pc', job'),
         out'[w] = out[w], meta'[w] = meta[w], job'[r] # w,
         job[r] = w => pc[r] \notin Saving
  PROVE  Clean(w)'
<1>1. Quiet(w)' => Quiet(w)
  BY DEF Quiet, OnlyBy
<1>2. ASSUME NEW s \in Slots, job'[s] = w PROVE SlotAgrees(s, w)'
  BY <1>2 DEF Clean, SlotAgrees, OnlyBy
<1> QED BY <1>1, <1>2 DEF Clean, FilesAgree

\* The other runs of the worker of r are not at its files when r saves.
LEMMA OthersAgree ==
  ASSUME NEW r \in Slots, NEW w \in Workers, Clean(w), OnlyBy(r), ~Overlap(w, pc', job'),
         job'[r] = w,
         \/ out'[w] = out[w] /\ meta'[w] = meta[w]
         \/ pc'[r] \in Saving
         \/ job[r] = w /\ pc[r] \in Saving,
         NEW s \in Slots \ {r}, job'[s] = w
  PROVE  SlotAgrees(s, w)'
<1>1. job[s] = w /\ SlotAgrees(s, w)
  BY DEF OnlyBy, Clean
<1>2. CASE out'[w] = out[w] /\ meta'[w] = meta[w]
  BY <1>1, <1>2 DEF OnlyBy, SlotAgrees
<1>3. CASE pc'[r] \in Saving \/ (job[r] = w /\ pc[r] \in Saving)
  <2>1. pc[s] \notin InCache
    BY <1>1, <1>3 DEF Clean, Overlap, OnlyBy
  <2> QED BY <1>1, <2>1 DEF OnlyBy, SlotAgrees, InCache, Saving
<1> QED BY <1>2, <1>3

LEMMA SameWorker ==
  ASSUME NEW r \in Slots, NEW w \in Workers, Clean(w), OnlyBy(r), ~Overlap(w, pc', job'),
         job'[r] = w,
         \/ out'[w] = out[w] /\ meta'[w] = meta[w]
         \/ pc'[r] \in Saving
         \/ job[r] = w /\ pc[r] \in Saving,
         SlotAgrees(r, w)', FilesAgree(w)'
  PROVE  Clean(w)'
<1>1. \A s \in Slots \ {r} : job'[s] = w => SlotAgrees(s, w)'
  BY OthersAgree
<1> QED BY <1>1 DEF Clean

LEMMA Recorded ==
  ASSUME NEW F, Record(F), NEW w \in Workers \ mixed'
  PROVE  w \in Workers \ mixed /\ w \notin F /\ ~Overlap(w, pc', job')
  BY DEF Record

LEMMA CleanInit == Init => \A w \in Workers \ mixed : Clean(w)
  BY WorkerAssumption DEF Init, Clean, FilesAgree, SlotAgrees, Overlap, Quiet,
       Unreadable, Saving, InCache

LEMMA LeaveClean ==
  ASSUME Inv, NEW r \in Slots, Leave(r), pc[r] \notin Saving, Record({}),
         NEW w \in Workers \ mixed'
  PROVE  Clean(w)'
<1>1. OnlyBy(r) /\ job'[r] = NoWorker /\ UNCHANGED <<out, meta>>
  BY DEF Leave, OnlyBy, Inv, TypeOK, Domains, Goto, files
<1> QED BY <1>1, Recorded, Elsewhere, WorkerAssumption DEF Inv

LEMMA StartClean ==
  ASSUME Inv, NEW r \in Slots, NEW v \in Workers, StartRun(r, v), NEW w \in Workers \ mixed'
  PROVE  Clean(w)'
<1>1. OnlyBy(r)
  BY DEF StartRun, OnlyBy, Inv, TypeOK, Domains, Goto
<1>2. /\ job'[r] = v /\ pc'[r] = "build" /\ UNCHANGED <<out, meta>>
      /\ uploaded'[r] = Missing /\ job[r] = NoWorker
  BY DEF StartRun, Inv, TypeOK, Domains, Goto, files
<1>3. w \in Workers \ mixed /\ ~Overlap(w, pc', job') /\ Clean(w)
  BY Recorded DEF StartRun, Inv
<1>4. CASE v # w
  BY <1>1, <1>2, <1>3, <1>4, Elsewhere, WorkerAssumption
<1>5. CASE v = w
  <2>1. SlotAgrees(r, w)'
    BY <1>2 DEF SlotAgrees, Saving
  <2>2. Quiet(w)' => Quiet(w)
    BY <1>1, <1>2, WorkerAssumption DEF Quiet, OnlyBy
  <2>3. FilesAgree(w)'
    BY <2>2, <1>2, <1>3 DEF FilesAgree, Clean
  <2> QED BY <1>1, <1>2, <1>3, <1>5, <2>1, <2>3, SameWorker
<1> QED BY <1>4, <1>5

\* A step of a run that does not write: what it leaves to show is its own slot.
LEMMA ReaderClean ==
  ASSUME Inv, NEW r \in Slots, NEW w \in Workers \ mixed', OnlyBy(r), Record({}),
         UNCHANGED <<out, meta, job>>, pc[r] \notin Saving, pc'[r] \notin Saving,
         job[r] = w /\ SlotAgrees(r, w) => SlotAgrees(r, w)'
  PROVE  Clean(w)'
<1>1. w \in Workers \ mixed /\ ~Overlap(w, pc', job') /\ Clean(w)
  BY Recorded DEF Inv
<1>2. CASE job[r] # w
  BY <1>1, <1>2, Elsewhere
<1>3. CASE job[r] = w
  <2>1. SlotAgrees(r, w)'
    BY <1>1, <1>3 DEF Clean
  <2>2. Quiet(w)' => Quiet(w)
    BY DEF Quiet, OnlyBy
  <2>3. FilesAgree(w)'
    BY <2>2, <1>1 DEF FilesAgree, Clean
  <2> QED BY <1>1, <1>3, <2>1, <2>3, SameWorker
<1> QED BY <1>2, <1>3

\* A step of a save.
LEMMA WriterClean ==
  ASSUME Inv, NEW r \in Slots, NEW w \in Workers \ mixed', OnlyBy(r), NEW F, Record(F),
         UNCHANGED job, pc[r] \in Saving \/ pc'[r] \in Saving,
         \A v \in Workers \ {job[r]} : out'[v] = out[v] /\ meta'[v] = meta[v],
         job[r] = w /\ SlotAgrees(r, w) => SlotAgrees(r, w)' /\ FilesAgree(w)'
  PROVE  Clean(w)'
<1>1. w \in Workers \ mixed /\ ~Overlap(w, pc', job') /\ Clean(w)
  BY Recorded DEF Inv
<1>2. CASE job[r] # w
  BY <1>1, <1>2, Elsewhere
<1>3. CASE job[r] = w
  <2>1. SlotAgrees(r, w)' /\ FilesAgree(w)'
    BY <1>1, <1>3 DEF Clean
  <2> QED BY <1>1, <1>3, <2>1, SameWorker
<1> QED BY <1>2, <1>3

LEMMA StepClean ==
  ASSUME Inv, NEW r \in Slots, Step(r), NEW w \in Workers \ mixed'
  PROVE  Clean(w)'
<1> USE DEF Inv, TypeOK, Domains, Goto
<1>1. ASSUME NEW d \in Workers, BuildInput(r, d) PROVE Clean(w)'
  <2>1. /\ OnlyBy(r) /\ Record({}) /\ UNCHANGED <<out, meta, job, pc, result, uploaded, loaded>>
        /\ pc[r] = "build"
    BY <1>1 DEF BuildInput, ReadDep, OnlyBy, files
  <2>2. job[r] = w /\ SlotAgrees(r, w) => SlotAgrees(r, w)'
    BY <2>1 DEF SlotAgrees, Saving
  <2> QED BY <2>1, <2>2, ReaderClean DEF Saving
<1>2. ASSUME NEW d \in Workers, BuildFails(r, d) PROVE Clean(w)'
  BY <1>2, LeaveClean DEF BuildFails, Saving
<1>3. CASE TryLoadMisses(r)
  <2>1. /\ OnlyBy(r) /\ Record({}) /\ UNCHANGED <<out, meta, job>>
        /\ pc[r] \notin Saving /\ pc'[r] \notin Saving
    BY <1>3 DEF TryLoadMisses, InputBuilt, locals, OnlyBy, Saving, files
  <2>2. job[r] = w /\ SlotAgrees(r, w) => SlotAgrees(r, w)'
    BY <1>3 DEF TryLoadMisses, InputBuilt, locals, SlotAgrees, Saving, files
  <2> QED BY <2>1, <2>2, ReaderClean
<1>4. CASE TryLoadMeta(r)
  <2>1. /\ OnlyBy(r) /\ Record({}) /\ UNCHANGED <<out, meta, job>>
        /\ pc[r] \notin Saving /\ pc'[r] \notin Saving
    BY <1>4 DEF TryLoadMeta, InputBuilt, OnlyBy, Saving, files
  <2>2. job[r] = w /\ SlotAgrees(r, w) => SlotAgrees(r, w)'
    BY <1>4 DEF TryLoadMeta, InputBuilt, SlotAgrees, Saving, files
  <2> QED BY <2>1, <2>2, ReaderClean
<1>5. CASE TryLoadHit(r)
  <2>1. /\ OnlyBy(r) /\ Record({}) /\ UNCHANGED <<out, meta, job>>
        /\ pc[r] \notin Saving /\ pc'[r] \notin Saving
    BY <1>5 DEF TryLoadHit, OnlyBy, Saving, files
  <2>2. job[r] = w /\ SlotAgrees(r, w) => SlotAgrees(r, w)'
    <3> SUFFICES ASSUME job[r] = w, SlotAgrees(r, w) PROVE SlotAgrees(r, w)'
      OBVIOUS
    <3>1. Clean(w)
      BY <2>1, Recorded
    <3>2. Quiet(w)
      BY <1>5, <3>1 DEF TryLoadHit, Clean, Overlap, Quiet, InCache, Saving
    <3>3. out[w].from = meta[w] /\ meta[w] = input[r] /\ out[w].text \in Texts[w]
      BY <1>5, <3>1, <3>2 DEF TryLoadHit, Clean, FilesAgree, SlotAgrees, Hit, Decoded
    <3> QED BY <1>5, <3>3 DEF TryLoadHit, SlotAgrees, Saving, files
  <2> QED BY <2>1, <2>2, ReaderClean
<1>6. CASE TryLoadRejects(r)
  <2>1. /\ OnlyBy(r) /\ Record({}) /\ UNCHANGED <<out, meta, job>>
        /\ pc[r] \notin Saving /\ pc'[r] \notin Saving
    BY <1>6 DEF TryLoadRejects, locals, OnlyBy, Saving, files
  <2>2. job[r] = w /\ SlotAgrees(r, w) => SlotAgrees(r, w)'
    BY <1>6 DEF TryLoadRejects, locals, SlotAgrees, Saving, files
  <2> QED BY <2>1, <2>2, ReaderClean
<1>7. CASE RunWorker(r)
  <2>1. /\ OnlyBy(r) /\ Record({}) /\ UNCHANGED <<out, meta, job>>
        /\ pc[r] \notin Saving /\ pc'[r] \notin Saving
    BY <1>7 DEF RunWorker, OnlyBy, Saving, files
  <2>2. job[r] = w /\ SlotAgrees(r, w) => SlotAgrees(r, w)'
    BY <1>7 DEF RunWorker, SlotAgrees, Saving, files
  <2> QED BY <2>1, <2>2, ReaderClean
<1>8. CASE SaveTruncOut(r)
  <2>1. /\ OnlyBy(r) /\ Record({}) /\ UNCHANGED job
        /\ pc[r] \in Saving \/ pc'[r] \in Saving
        /\ \A v \in Workers \ {job[r]} : out'[v] = out[v] /\ meta'[v] = meta[v]
    BY <1>8 DEF SaveTruncOut, locals, OnlyBy, Saving
  <2>2. ASSUME job[r] = w, SlotAgrees(r, w) PROVE SlotAgrees(r, w)' /\ FilesAgree(w)'
    BY <1>8, <2>2 DEF SaveTruncOut, locals, SlotAgrees, FilesAgree, Quiet, Saving, Unreadable
  <2> QED BY <2>1, <2>2, WriterClean
<1>9. CASE SaveWriteOut(r)
  <2>1. /\ OnlyBy(r) /\ Record({}) /\ UNCHANGED job
        /\ pc[r] \in Saving \/ pc'[r] \in Saving
        /\ \A v \in Workers \ {job[r]} : out'[v] = out[v] /\ meta'[v] = meta[v]
    BY <1>9 DEF SaveWriteOut, locals, OnlyBy, Saving
  <2>2. ASSUME job[r] = w, SlotAgrees(r, w) PROVE SlotAgrees(r, w)' /\ FilesAgree(w)'
    BY <1>9, <2>2 DEF SaveWriteOut, locals, Written, SlotAgrees, FilesAgree, Quiet, Saving
  <2> QED BY <2>1, <2>2, WriterClean
<1>10. CASE SaveTruncMeta(r)
  <2>1. /\ OnlyBy(r) /\ Record({}) /\ UNCHANGED job
        /\ pc[r] \in Saving \/ pc'[r] \in Saving
        /\ \A v \in Workers \ {job[r]} : out'[v] = out[v] /\ meta'[v] = meta[v]
    BY <1>10 DEF SaveTruncMeta, locals, OnlyBy, Saving
  <2>2. ASSUME job[r] = w, SlotAgrees(r, w) PROVE SlotAgrees(r, w)' /\ FilesAgree(w)'
    BY <1>10, <2>2 DEF SaveTruncMeta, locals, SlotAgrees, FilesAgree, Quiet, Saving
  <2> QED BY <2>1, <2>2, WriterClean
<1>11. CASE SaveWriteMeta(r)
  <2>1. /\ OnlyBy(r) /\ Record({}) /\ UNCHANGED job
        /\ pc[r] \in Saving \/ pc'[r] \in Saving
        /\ \A v \in Workers \ {job[r]} : out'[v] = out[v] /\ meta'[v] = meta[v]
    BY <1>11 DEF SaveWriteMeta, Saved, OnlyBy, Saving
  <2>2. ASSUME job[r] = w, SlotAgrees(r, w) PROVE SlotAgrees(r, w)' /\ FilesAgree(w)'
    BY <1>11, <2>2 DEF SaveWriteMeta, Saved, Written, SlotAgrees, FilesAgree, Quiet, Saving
  <2> QED BY <2>1, <2>2, WriterClean
<1>12. CASE SyncPut(r)
  <2>1. /\ OnlyBy(r) /\ Record({}) /\ UNCHANGED <<out, meta, job>>
        /\ pc[r] \notin Saving /\ pc'[r] \notin Saving
    BY <1>12 DEF SyncPut, OnlyBy, Saving, files
  <2>2. job[r] = w /\ SlotAgrees(r, w) => SlotAgrees(r, w)'
    BY <1>12 DEF SyncPut, SlotAgrees, Saving, files
  <2> QED BY <2>1, <2>2, ReaderClean
<1>13. CASE SyncEnds(r)
  BY <1>13, LeaveClean DEF SyncEnds, Saving
<1> QED BY <1>1, <1>2, <1>3, <1>4, <1>5, <1>6, <1>7, <1>8, <1>9, <1>10, <1>11, <1>12, <1>13
        DEF Step

LEMMA FaultClean ==
  ASSUME Inv, NEW r \in Slots, Fault(r), NEW w \in Workers \ mixed'
  PROVE  Clean(w)'
<1> USE DEF Inv, TypeOK, Domains, Goto
<1>1. CASE RunRejected(r) \/ RunFails(r)
  BY <1>1, LeaveClean DEF RunRejected, RunFails, Saving
<1>2. CASE SaveOutFails(r) \/ SaveMetaFails(r)
  <2>1. /\ OnlyBy(r) /\ Record({job[r]}) /\ UNCHANGED job
        /\ pc[r] \in Saving \/ pc'[r] \in Saving
        /\ \A v \in Workers \ {job[r]} : out'[v] = out[v] /\ meta'[v] = meta[v]
    BY <1>2 DEF SaveOutFails, SaveMetaFails, Saved, OnlyBy, Saving, locals
  <2>2. job[r] # w
    BY <2>1, Recorded
  <2> QED BY <2>1, <2>2, WriterClean
<1> QED BY <1>1, <1>2 DEF Fault

LEMMA RestartClean ==
  ASSUME Inv, Restart, NEW w \in Workers \ mixed'
  PROVE  Clean(w)'
<1>1. Clean(w) /\ Quiet(w)
  BY DEF Restart, Inv, Quiet
<1>2. \A r \in Slots : job'[r] # w
  BY WorkerAssumption DEF Restart
<1> QED BY <1>1, <1>2 DEF Clean, FilesAgree, Overlap, Restart, files

LEMMA InvNext == Inv /\ [Next]_vars => Inv'
<1> SUFFICES ASSUME Inv, [Next]_vars PROVE Inv'
  OBVIOUS
<1>1. TypeOK' /\ Domains'
  BY TypeNext DEF Inv
<1>2. ASSUME NEW w \in Workers \ mixed' PROVE Clean(w)'
  <2>1. CASE UNCHANGED vars
    BY <2>1 DEF Inv, vars, files, locals, Clean, FilesAgree, SlotAgrees, Quiet, Overlap
  <2>2. CASE Next
    BY <2>2, StartClean, StepClean, FaultClean, RestartClean DEF Next
  <2> QED BY <2>1, <2>2
<1> QED BY <1>1, <1>2 DEF Inv

LEMMA Invariant == Spec => []Inv
<1>1. Init => Inv
  BY TypeInit, CleanInit DEF Inv
<1> QED BY <1>1, InvNext, PTL DEF Spec

------------------------------------------------------------------------------
\* A run has only declared inputs, and a goroutine without a run has no state.
THEOREM TypeCorrect == Spec => []TypeOK
<1>1. Inv => TypeOK
  BY DEF Inv
<1> QED BY <1>1, Invariant, PTL

\* A run is answered from the cache with an output of its own input, unless a
\* save of its worker failed, was cut short or overlapped with another run.
THEOREM CacheIsSound == Spec => []CacheSound
<1>1. Inv => CacheSound
  BY DEF Inv, CacheSound, Clean, SlotAgrees, TypeOK
<1> QED BY <1>1, Invariant, PTL

\* Under the same proviso, the artifact stored for a run is the run's output.
THEOREM StoredOutput == Spec => []StoredIsResult
<1>1. Inv => StoredIsResult
  BY DEF Inv, StoredIsResult, Clean, SlotAgrees, TypeOK
<1> QED BY <1>1, Invariant, PTL

------------------------------------------------------------------------------
(* What a run has read of a worker stays what a run of that worker computed:   *)
(* it was in a clean file when it was read, and mixed only grows.              *)

ReadWhole(r) ==
    /\ "deps" \in DOMAIN input[r]
    /\ \A d \in DOMAIN input[r].deps : d \in mixed \/ input[r].deps[d].text \in Texts[d]

ReadInv == \A r \in Slots : ReadWhole(r)

LEMMA ReadInit == Init => ReadInv
<1> SUFFICES ASSUME Init, NEW r \in Slots PROVE ReadWhole(r)
  BY DEF ReadInv
<1>1. "deps" \in DOMAIN input[r] /\ DOMAIN input[r].deps = {}
  BY DEF Init, NoInput
<1> QED BY <1>1 DEF ReadWhole

\* A step that leaves what a slot has read alone.
LEMMA KeptWhole ==
  ASSUME NEW s \in Slots, ReadWhole(s), mixed \subseteq mixed',
         \/ input'[s] = input[s]
         \/ DOMAIN input'[s] = DOMAIN input[s] /\ input'[s].deps = input[s].deps
         \/ input'[s] = NoInput
  PROVE  ReadWhole(s)'
<1>1. CASE input'[s] = NoInput
  <2>1. "deps" \in DOMAIN input'[s] /\ DOMAIN input'[s].deps = {}
    BY <1>1 DEF NoInput
  <2> QED BY <2>1 DEF ReadWhole
<1> QED BY <1>1 DEF ReadWhole

\* A required output is read from a clean file, or from that of a mixed worker.
LEMMA BuildWhole ==
  ASSUME Inv, NEW r \in Slots, ReadWhole(r), NEW d \in Workers, BuildInput(r, d)
  PROVE  ReadWhole(r)'
<1>1. /\ out[d] \notin Unreadable /\ mixed \subseteq mixed'
      /\ input' = [input EXCEPT ![r].deps =
                     [e \in DOMAIN input[r].deps \cup {d} |->
                        IF e = d THEN out[d] ELSE input[r].deps[e]]]
  BY DEF BuildInput, ReadDep, Record
<1>2. "deps" \in DOMAIN input[r] /\ r \in DOMAIN input
  BY DEF ReadWhole, Inv, Domains
<1>3. /\ DOMAIN input'[r] = DOMAIN input[r]
      /\ input'[r].deps = [e \in DOMAIN input[r].deps \cup {d} |->
                            IF e = d THEN out[d] ELSE input[r].deps[e]]
  BY <1>1, <1>2
<1>4. d \in mixed \/ out[d].text \in Texts[d]
  BY <1>1 DEF Inv, Clean, FilesAgree
<1> QED BY <1>1, <1>2, <1>3, <1>4 DEF ReadWhole

\* Other steps of r leave what the slots have read alone, or drop it.
LEMMA ReadsKept ==
  ASSUME TypeOK, Domains, ReadInv, NEW s \in Slots, NEW r \in Slots,
         \/ Step(r) /\ ~\E d \in Workers : BuildInput(r, d)
         \/ Fault(r)
         \/ \E w \in Workers : StartRun(r, w)
  PROVE  /\ mixed \subseteq mixed'
         /\ \/ input'[s] = input[s]
            \/ DOMAIN input'[s] = DOMAIN input[s] /\ input'[s].deps = input[s].deps
            \/ input'[s] = NoInput
<1>0. \A F : Record(F) => mixed \subseteq mixed'
  BY DEF Record
<1>1. ASSUME Leave(r) PROVE input'[s] = input[s] \/ input'[s] = NoInput
  BY <1>1 DEF Leave, Domains
<1>2. ASSUME NEW w \in Workers, StartRun(r, w)
      PROVE DOMAIN input'[s] = DOMAIN input[s] /\ input'[s].deps = input[s].deps
  <2>1. \E p : input' = [input EXCEPT ![r].params = p]
    BY <1>2 DEF StartRun
  <2>2. s # r => input'[s] = input[s]
    BY <2>1 DEF Domains
  <2>3. \E p : input'[r] = [input[r] EXCEPT !.params = p]
    BY <2>1 DEF Domains
  <2>4. DOMAIN input'[r] = DOMAIN input[r] /\ input'[r].deps = input[r].deps
    BY <2>3 DEF ReadInv, ReadWhole
  <2> QED BY <2>2, <2>4
<1>3. CASE Fault(r)
  BY <1>0, <1>1, <1>3 DEF Fault, RunRejected, RunFails, SaveOutFails, SaveMetaFails, Saved, locals
<1>4. CASE SyncEnds(r) \/ \E d \in Workers : BuildFails(r, d)
  BY <1>0, <1>1, <1>4 DEF SyncEnds, BuildFails
<1>5. CASE TryLoadMisses(r) \/ TryLoadMeta(r) \/ TryLoadHit(r) \/ TryLoadRejects(r)
  BY <1>0, <1>5 DEF TryLoadMisses, TryLoadMeta, TryLoadHit, TryLoadRejects, locals
<1>6. CASE RunWorker(r) \/ SaveTruncOut(r) \/ SaveWriteOut(r) \/ SaveTruncMeta(r)
  BY <1>0, <1>6 DEF RunWorker, SaveTruncOut, SaveWriteOut, SaveTruncMeta, locals
<1>7. CASE SaveWriteMeta(r) \/ SyncPut(r)
  BY <1>0, <1>7 DEF SaveWriteMeta, Saved, SyncPut
<1>8. CASE \E w \in Workers : StartRun(r, w)
  BY <1>0, <1>2, <1>8 DEF StartRun
<1> QED BY <1>3, <1>4, <1>5, <1>6, <1>7, <1>8 DEF Step

LEMMA ReadNext == Inv /\ ReadInv /\ [Next]_vars => ReadInv'
<1> SUFFICES ASSUME Inv, ReadInv, [Next]_vars, NEW s \in Slots PROVE ReadWhole(s)'
  BY DEF ReadInv
<1>0. ReadWhole(s) /\ TypeOK /\ Domains
  BY DEF ReadInv, Inv
<1>1. CASE UNCHANGED vars
  BY <1>0, <1>1, KeptWhole DEF vars, locals
<1>2. CASE Restart
  BY <1>0, <1>2, KeptWhole DEF Restart
<1>3. ASSUME NEW r \in Slots, NEW d \in Workers, BuildInput(r, d) PROVE ReadWhole(s)'
  <2>1. CASE s = r BY <1>0, <1>3, <2>1, BuildWhole
  <2>2. CASE s # r
    <3>1. input'[s] = input[s] /\ mixed \subseteq mixed'
      BY <1>0, <1>3, <2>2 DEF BuildInput, ReadDep, Domains, Record
    <3> QED BY <1>0, <3>1, KeptWhole
  <2> QED BY <2>1, <2>2
<1>4. ASSUME NEW r \in Slots,
             \/ Step(r) /\ ~\E d \in Workers : BuildInput(r, d)
             \/ Fault(r)
             \/ \E w \in Workers : StartRun(r, w)
      PROVE  ReadWhole(s)'
  BY <1>0, <1>4, ReadsKept, KeptWhole
<1> QED BY <1>1, <1>2, <1>3, <1>4 DEF Next

\* What a run has read as the output of a required worker was computed as a whole
\* by a run of it, unless a save of that worker failed, was cut short or
\* overlapped: pieces of several writes come into no other file.
THEOREM ReadAsComputed == Spec => []InputsAreOutputs
<1>1. ReadInv => InputsAreOutputs
  BY DEF ReadInv, ReadWhole, InputsAreOutputs
<1> QED BY <1>1, Invariant, ReadInit, ReadNext, PTL DEF Spec
==============================================================================
