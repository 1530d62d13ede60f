------------------------------ MODULE WorkerRun ------------------------------
(***************************************************************************)
(* Worker runs of one project: StartRun, executeRun and syncArtifacts of   *)
(* the worker service (internal/gateway/service/worker), ExecuteWorker,    *)
(* Deps.Artifact and the cache strategies of internal/runner, and the file *)
(* store they use (internal/workerruntime/artifactfs).                     *)
(*                                                                         *)
(* All runs of a project share one output directory: every worker has an   *)
(* output file, which the workers that require it read as their input, and *)
(* a meta file with the fingerprint of the input it was computed from.     *)
(* There is no lock around them.  A slot is the goroutine of one run after *)
(* another, its artifact sync included, so the number of runs is not       *)
(* bounded.                                                                *)
(*                                                                         *)
(* An output remembers the input it was computed from and the text the     *)
(* model answered; an input is the parameters of the run and the outputs   *)
(* that were read, and its fingerprint is the input itself (the salt of    *)
(* the language model does not change).  Of the files a versioned worker   *)
(* writes only the latest one is read, so only that one is here.           *)
(* The run table that StartRun fills is never read; the tab and the UI     *)
(* document that a run is shown in belong to other components.             *)
(***************************************************************************)
CONSTANTS
    Slots,      \* goroutines that execute runs
    Workers,    \* worker keys
    Requires,   \* per worker: the workers whose outputs are its input
    Versioned,  \* workers with the versioned strategy; the others use JSON
    Params,     \* per worker: the parameters a run may be started with
    Texts,      \* per worker: what the model may answer to one input
    NoWorker, Missing, Empty, Torn

\* A file that is not there, has just been truncated, or is torn cannot be
\* decoded.
Unreadable == {Missing, Empty, Torn}

\* Pieces of two writes that can be decoded all the same: no model has answered
\* this and it belongs to no input.
Blend == [from |-> Torn, text |-> Torn]

ASSUME WorkerAssumption ==
    /\ Requires \in [Workers -> SUBSET Workers]
    /\ NoWorker \notin Workers
    /\ \A w \in Workers : Torn \notin Texts[w]

VARIABLES
    out, meta,      \* per worker: the output file and the meta file
    pc, job,        \* per slot: where its run is, and the worker it executes
    input,          \* per slot: its parameters and the outputs read so far
    loaded,         \* per slot: the meta file that TryLoad has read
    result,         \* per slot: the output of its run
    uploaded,       \* per slot: what it has stored as the artifact of its own worker
    mixed           \* history: workers a save of which failed, was cut short or
                    \* overlapped with another run of the worker

files  == <<out, meta>>
locals == <<job, input, loaded, result, uploaded>>
vars   == <<files, pc, locals, mixed>>

NoInput == [params |-> Missing, deps |-> [d \in {} |-> Missing]]

Init ==
    /\ out = [w \in Workers |-> Missing]
    /\ meta = [w \in Workers |-> Missing]
    /\ pc = [r \in Slots |-> "idle"]
    /\ job = [r \in Slots |-> NoWorker]
    /\ input = [r \in Slots |-> NoInput]
    /\ loaded = [r \in Slots |-> Missing]
    /\ result = [r \in Slots |-> Missing]
    /\ uploaded = [r \in Slots |-> Missing]
    /\ mixed = {}

Goto(r, l) == pc' = [pc EXCEPT ![r] = l]

Labels  == {"idle", "build", "loaded", "run", "save", "writeOut", "metaNext",
            "writeMeta", "sync"}
Saving  == {"writeOut", "metaNext", "writeMeta"}
InCache == Saving \cup {"loaded", "sync"}

\* Two runs of w are at its files at the same time, one of them saving.
Overlap(w, at, of) ==
    \E r, s \in Slots : /\ r # s /\ of[r] = w /\ of[s] = w
                        /\ at[r] \in Saving /\ at[s] \in InCache

\* The history after a step: Failed are the workers a write of which failed.
Record(Failed) ==
    mixed' = mixed \cup Failed \cup {w \in Workers : Overlap(w, pc', job')}

\* The run of r is over and its locals are gone.
Leave(r) ==
    /\ Goto(r, "idle")
    /\ job' = [job EXCEPT ![r] = NoWorker]
    /\ input' = [input EXCEPT ![r] = NoInput]
    /\ loaded' = [loaded EXCEPT ![r] = Missing]
    /\ result' = [result EXCEPT ![r] = Missing]
    /\ uploaded' = [uploaded EXCEPT ![r] = Missing]
    /\ UNCHANGED files

------------------------------------------------------------------------------
(* StartRun and the input of the worker. *)

StartRun(r, w) ==
    /\ pc[r] = "idle"
    /\ \E p \in Params[w] : input' = [input EXCEPT ![r].params = p]
    /\ job' = [job EXCEPT ![r] = w]
    /\ Goto(r, "build")
    /\ UNCHANGED <<files, loaded, result, uploaded>>
    /\ Record({})

\* EnsureRunContext or the resolver fails, or BuildInput does for another reason.
RunRejected(r) ==
    /\ pc[r] = "build"
    /\ Leave(r)
    /\ Record({})

\* The run reads the output of d and has it as part of its input.
ReadDep(r, d) ==
    /\ out[d] \notin Unreadable
    /\ input' = [input EXCEPT ![r].deps =
                   [e \in DOMAIN input[r].deps \cup {d} |->
                      IF e = d THEN out[d] ELSE input[r].deps[e]]]
    /\ UNCHANGED <<files, pc, job, loaded, result, uploaded>>
    /\ Record({})

ToRead(r) == Requires[job[r]] \ DOMAIN input[r].deps

\* BuildInput reads the next required output.
BuildInput(r, d) ==
    /\ pc[r] = "build"
    /\ d \in ToRead(r)
    /\ ReadDep(r, d)

\* The required output is not there or cannot be decoded: the run fails.
BuildFails(r, d) ==
    /\ pc[r] = "build"
    /\ d \in ToRead(r)
    /\ out[d] \in Unreadable
    /\ Leave(r)
    /\ Record({})

\* Every required output has been used.
InputBuilt(r) == pc[r] = "build" /\ ToRead(r) = {}

------------------------------------------------------------------------------
(* TryLoad. *)

\* A versioned worker is never loaded.
MayLoad(r) == job[r] \notin Versioned

TryLoadMisses(r) ==
    /\ InputBuilt(r)
    /\ ~MayLoad(r) \/ meta[job[r]] = Missing
    /\ Goto(r, "run")
    /\ UNCHANGED <<files, locals>>
    /\ Record({})

TryLoadMeta(r) ==
    /\ InputBuilt(r)
    /\ MayLoad(r) /\ meta[job[r]] # Missing
    /\ loaded' = [loaded EXCEPT ![r] = meta[job[r]]]
    /\ Goto(r, "loaded")
    /\ UNCHANGED <<files, job, input, result, uploaded>>
    /\ Record({})

Decoded(file) == file \notin Unreadable

\* Variant: the fingerprint is not compared.
HitAnyInput(r) == Decoded(loaded[r]) /\ Decoded(out[job[r]])

\* The fingerprint is that of the input, and the output can be decoded.
Hit(r) == /\ Decoded(loaded[r]) /\ loaded[r] = input[r]
          /\ Decoded(out[job[r]])

\* A hit is the output of the run: executeRun starts the artifact sync.
TryLoadHit(r) ==
    /\ pc[r] = "loaded"
    /\ Hit(r)
    /\ result' = [result EXCEPT ![r] = out[job[r]]]
    /\ Goto(r, "sync")
    /\ UNCHANGED <<files, job, input, loaded, uploaded>>
    /\ Record({})

TryLoadRejects(r) ==
    /\ pc[r] = "loaded"
    /\ ~Hit(r)
    /\ Goto(r, "run")
    /\ UNCHANGED <<files, locals>>
    /\ Record({})

------------------------------------------------------------------------------
(* The worker, and Save: the output file, then the meta file.  os.WriteFile    *)
(* truncates the file and writes it in a second step.                          *)

RunWorker(r) ==
    /\ pc[r] = "run"
    /\ \E t \in Texts[job[r]] :
         result' = [result EXCEPT ![r] = [from |-> input[r], text |-> t]]
    /\ Goto(r, "save")
    /\ UNCHANGED <<files, job, input, loaded, uploaded>>
    /\ Record({})

RunFails(r) ==
    /\ pc[r] = "run"
    /\ Leave(r)
    /\ Record({})

\* What a write leaves in a file: another writer may have filled it since it was
\* truncated, and the two may then be mingled.
Written(file, content) == IF file = Empty THEN {content} ELSE {content, Torn, Blend}

\* Variant: an output file that is there is kept.
SaveKeepsOut(r) ==
    /\ pc[r] = "save"
    /\ IF out[job[r]] = Missing
         THEN out' = [out EXCEPT ![job[r]] = Empty] /\ Goto(r, "writeOut")
         ELSE UNCHANGED out /\ Goto(r, "metaNext")
    /\ UNCHANGED <<meta, locals>>
    /\ Record({})

\* Variant: the file is opened without O_TRUNC.
SaveOverOut(r) ==
    /\ pc[r] = "save"
    /\ out' = [out EXCEPT ![job[r]] = IF @ = Missing THEN Empty ELSE @]
    /\ Goto(r, "writeOut")
    /\ UNCHANGED <<meta, locals>>
    /\ Record({})

SaveTruncOut(r) ==
    /\ pc[r] = "save"
    /\ out' = [out EXCEPT ![job[r]] = Empty]
    /\ Goto(r, "writeOut")
    /\ UNCHANGED <<meta, locals>>
    /\ Record({})

SaveWriteOut(r) ==
    /\ pc[r] = "writeOut"
    /\ \E c \in Written(out[job[r]], result[r]) : out' = [out EXCEPT ![job[r]] = c]
    /\ Goto(r, "metaNext")
    /\ UNCHANGED <<meta, locals>>
    /\ Record({})

\* What a write that fails leaves: nothing new, or a part of the content, perhaps
\* on top of what another writer has put there.
Broken(r, file) ==
    {file} \cup {c \in {Torn, Blend} : /\ pc[r] \in {"writeOut", "writeMeta"}
                                      /\ file = Empty => c = Torn}

\* The file cannot be opened or written; Save ignores the error and goes on.
SaveOutFails(r) ==
    /\ pc[r] \in {"save", "writeOut"}
    /\ \E c \in Broken(r, out[job[r]]) : out' = [out EXCEPT ![job[r]] = c]
    /\ Goto(r, "metaNext")
    /\ UNCHANGED <<meta, locals>>
    /\ Record({job[r]})

SaveTruncMeta(r) ==
    /\ pc[r] = "metaNext"
    /\ meta' = [meta EXCEPT ![job[r]] = Empty]
    /\ Goto(r, "writeMeta")
    /\ UNCHANGED <<out, locals>>
    /\ Record({})

\* The run is done: executeRun starts the artifact sync.
Saved(r) ==
    /\ Goto(r, "sync")
    /\ UNCHANGED <<out, job, input, loaded, result, uploaded>>

SaveWriteMeta(r) ==
    /\ pc[r] = "writeMeta"
    /\ \E c \in Written(meta[job[r]], input[r]) : meta' = [meta EXCEPT ![job[r]] = c]
    /\ Saved(r)
    /\ Record({})

SaveMetaFails(r) ==
    /\ pc[r] \in {"metaNext", "writeMeta"}
    /\ \E c \in Broken(r, meta[job[r]]) : meta' = [meta EXCEPT ![job[r]] = c]
    /\ Saved(r)
    /\ Record({job[r]})

------------------------------------------------------------------------------
(* syncArtifacts: every file of the directory becomes an artifact of the run. *)

\* The file of the run's own worker; nothing depends on the others.
SyncPut(r) ==
    /\ pc[r] = "sync"
    /\ uploaded[r] = Missing /\ out[job[r]] # Missing
    /\ uploaded' = [uploaded EXCEPT ![r] = out[job[r]]]
    /\ UNCHANGED <<files, pc, job, input, loaded, result>>
    /\ Record({})

\* The walk is over, or a Put has failed and ends it.
SyncEnds(r) ==
    /\ pc[r] = "sync"
    /\ Leave(r)
    /\ Record({})

\* The gateway stops: its goroutines are gone and the files are as they are.
Restart ==
    /\ pc' = [r \in Slots |-> "idle"]
    /\ job' = [r \in Slots |-> NoWorker]
    /\ input' = [r \in Slots |-> NoInput]
    /\ loaded' = [r \in Slots |-> Missing]
    /\ result' = [r \in Slots |-> Missing]
    /\ uploaded' = [r \in Slots |-> Missing]
    /\ UNCHANGED files
    /\ mixed' = mixed \cup {w \in Workers : \E r \in Slots : job[r] = w /\ pc[r] \in Saving}

------------------------------------------------------------------------------
Step(r) ==
    \/ \E d \in Workers : BuildInput(r, d) \/ BuildFails(r, d)
    \/ TryLoadMisses(r) \/ TryLoadMeta(r) \/ TryLoadHit(r) \/ TryLoadRejects(r)
    \/ RunWorker(r) \/ SaveTruncOut(r) \/ SaveWriteOut(r) \/ SaveTruncMeta(r)
    \/ SaveWriteMeta(r) \/ SyncPut(r) \/ SyncEnds(r)

Fault(r) == RunRejected(r) \/ RunFails(r) \/ SaveOutFails(r) \/ SaveMetaFails(r)

Next ==
    \/ \E r \in Slots : Step(r) \/ Fault(r) \/ \E w \in Workers : StartRun(r, w)
    \/ Restart

Spec == Init /\ [][Next]_vars

------------------------------------------------------------------------------
(* Properties. *)

\* The type invariant: a run that is not over has a worker of the registry, and
\* its input holds only outputs that the worker has declared.
TypeOK ==
    /\ pc \in [Slots -> Labels]
    /\ \A r \in Slots :
         IF pc[r] = "idle"
         THEN job[r] = NoWorker /\ input[r] = NoInput /\ uploaded[r] = Missing
         ELSE job[r] \in Workers /\ DOMAIN input[r].deps \subseteq Requires[job[r]]
    /\ mixed \subseteq Workers

\* What a run has read as the output of a required worker is what the model has
\* answered to a run of that worker, and not pieces of several, unless a save of
\* that worker failed, was cut short or overlapped: nobody locks the file, and
\* Artifact takes whatever can be decoded.
InputsAreOutputs ==
    \A r \in Slots : \A d \in DOMAIN input[r].deps :
        d \in mixed \/ input[r].deps[d].text \in Texts[d]

\* A run that is answered from the cache gets an output that was computed from
\* its own input (TryLoad), unless a save of that worker failed, was cut short by
\* a crash or overlapped with another run of the worker.
CacheSound ==
    \A r \in Slots : pc[r] = "sync" => job[r] \in mixed \/ result[r].from = input[r]

\* The artifact that syncArtifacts stores for a run as the output of its worker is
\* the output of that run, under the same proviso: the directory is shared and is
\* read after the run has ended.
StoredIsResult ==
    \A r \in Slots : job[r] \in mixed \/ uploaded[r] \in {Missing, result[r]}
==============================================================================
