------------------------------- MODULE ActChat -------------------------------
(***************************************************************************)
(* One run of the actBootstrapNode worker (internal/workers/testworker)    *)
(* over a session of the user-interaction service, and the act node that   *)
(* the UI event service (internal/gateway/service/uievent) keeps up to     *)
(* date behind it.                                                         *)
(*                                                                         *)
(* The worker is one goroutine; it is the process worker of                *)
(* UserInteraction while it waits for an input and publisher while it      *)
(* publishes an output.  The other callers are the WebSocket handlers of   *)
(* the users.  Pollers and subscribers only observe the session and take   *)
(* no part here.                                                           *)
(*                                                                         *)
(* A UI sync call, which UserInteraction treats as opaque, is here the     *)
(* read-modify-write of the act node that uievent.Handle makes: the read   *)
(* goes through the UI document cache, the write commits the row and then  *)
(* replaces the cache entry.  The store itself is the module               *)
(* UiDocumentStore.                                                        *)
(***************************************************************************)
EXTENDS UserInteraction, FiniteSets

CONSTANTS
    worker,      \* the worker goroutine in WaitForInput
    publisher,   \* the worker goroutine in PublishOutput
    NoNode,      \* the document has no such act node
    MaxTurns,    \* LLMChatNodePipeline.MaxTurns
    Fresh,       \* the nodes a client may ask CreateNodeInTab to create
    MaxInputs    \* bound on the inputs the users send

Users == Callers \ {publisher}

ASSUME ChatAssumption ==
    /\ Waiters = {worker} /\ publisher \in Callers
    /\ MaxTurns \in Nat /\ MaxInputs \in Nat
    /\ MaxMessages >= MaxInputs + MaxTurns + 1  \* the bound never stops the worker

\* A timeline entry is the number of its message.
Node == [status : {"UNSPECIFIED", "IDLE", "PLANNING", "NEEDS_USER_ACTION"},
         mode : {"", "idle", "planning", "needs_user_action"}, timeline : Seq(Nat)]

ASSUME NodeAssumption == NoNode \notin Node

VARIABLES
    stage, turn,      \* LLMChatNodePipeline.Run
    row, cached,      \* the act node: committed, and in the document cache
    fresh, created,   \* the node CreateNodeInTab is given, and its progress
    at, local, half,  \* per goroutine: its Handle call in progress
    stale,            \* history: some Handle wrote over a node it had not read
    dropped           \* history: messages whose Handle call failed

chatVars == <<stage, turn>>
nodeVars == <<row, cached, fresh, created, at, local, half, stale, dropped>>
allVars  == <<vars, chatVars, nodeVars>>

------------------------------------------------------------------------------
(* The act node. *)

\* A client creates a node without status and mode, or an idle one.
Bare == [status |-> "UNSPECIFIED", mode |-> "", timeline |-> <<>>]
Idle == [status |-> "IDLE", mode |-> "idle", timeline |-> <<>>]

ASSUME FreshAssumption == Fresh \subseteq {Bare, Idle}

SetTo(node, status, mode) == [node EXCEPT !.status = status, !.mode = mode]
Log(node, n) == [node EXCEPT !.timeline = Append(@, n)]

\* Variant: the output is shown but not logged.
EventUnlogged(node, ev, done) ==
    CASE ev.type = "user_accepted"    -> SetTo(Log(node, ev.msg), "PLANNING", "planning")
      [] ev.type = "assistant_output" -> SetTo(node, "NEEDS_USER_ACTION", "needs_user_action")
      [] OTHER                        -> node

\* Variant: assistant_done logs the message again.
EventLoggedTwice(node, ev, done) ==
    CASE ev.type = "user_accepted"    -> SetTo(Log(node, ev.msg), "PLANNING", "planning")
      [] ev.type = "assistant_output" -> SetTo(Log(node, ev.msg), "NEEDS_USER_ACTION", "needs_user_action")
      [] OTHER                        -> node

\* Variant: an input is taken for the start of a search.
EventSkipsPlanning(node, ev, done) ==
    CASE ev.type = "user_accepted"    -> SetTo(Log(node, ev.msg), "SEARCHING", "searching")
      [] ev.type = "assistant_output" ->
           SetTo(IF done THEN node ELSE Log(node, ev.msg), "NEEDS_USER_ACTION", "needs_user_action")
      [] OTHER                        -> node

\* The effect of an event; an assistant_output event is handled a second time
\* as assistant_done.
applyEventToNode(node, ev, done) ==
    CASE ev.type = "user_accepted" -> SetTo(Log(node, ev.msg), "PLANNING", "planning")
      [] ev.type = "assistant_output" ->
           SetTo(IF done THEN node ELSE Log(node, ev.msg),
                 "NEEDS_USER_ACTION", "needs_user_action")
      [] ev.type = "waiting_on" -> SetTo(node, "NEEDS_USER_ACTION", "needs_user_action")
      [] ev.type = "waiting_off" ->
           IF node.mode = "" THEN [node EXCEPT !.mode = "planning"] ELSE node

\* CanTransition of internal/domain/act, as a relation.
CanTransition(from, to) ==
    \/ from = to
    \/ from = "UNSPECIFIED" /\ to = "IDLE"
    \/ to = "PLANNING" /\ from \in {"UNSPECIFIED", "IDLE", "NEEDS_USER_ACTION", "DONE", "FAILED"}
    \/ from = "PLANNING" /\ to \in {"SUGGESTING", "SEARCHING", "RUNNING_WORKER"}
    \/ from = "RUNNING_WORKER" /\ to = "DONE"
    \/ from \in {"PLANNING", "SUGGESTING", "SEARCHING", "RUNNING_WORKER"}
       /\ to = "NEEDS_USER_ACTION"
    \/ from \in {"PLANNING", "SUGGESTING", "SEARCHING", "RUNNING_WORKER",
                 "NEEDS_USER_ACTION"}
       /\ to = "FAILED"

------------------------------------------------------------------------------
ChatInit ==
    /\ Init
    /\ stage = "start"
    /\ turn = 0
    /\ row = NoNode
    /\ cached = NoNode
    /\ fresh \in Fresh
    /\ created = "no"
    /\ at = [g \in Procs |-> "ready"]
    /\ local = [g \in Procs |-> <<>>]
    /\ half = [g \in Procs |-> FALSE]
    /\ stale = FALSE
    /\ dropped = {}

------------------------------------------------------------------------------
(* uievent.Handle, for the first call g still has to make. *)

\* A new run has an empty document; the node is created once the tab shows it.
CreateNodeInTab ==
    /\ created = "no"
    /\ row' = fresh
    /\ created' = "stored"
    /\ UNCHANGED <<vars, chatVars, cached, fresh, at, local, half, stale, dropped>>

CreateNodeCached ==
    /\ created = "stored"
    /\ cached' = fresh
    /\ created' = "done"
    /\ UNCHANGED <<vars, chatVars, row, fresh, at, local, half, stale, dropped>>

Syncing(g) == emit[g] # <<>> /\ pc[g] # "persist"

\* The read: the cached document, or after a miss the row, which is then cached.
HandleRead(g) ==
    /\ Syncing(g) /\ at[g] = "ready"
    /\ \E node \in {cached, row} \ {NoNode} :
         /\ cached' = node
         /\ local' = [local EXCEPT ![g] =
                        <<node, applyEventToNode(node, Head(emit[g]), half[g])>>]
    /\ at' = [at EXCEPT ![g] = "read"]
    /\ UNCHANGED <<vars, chatVars, row, fresh, created, half, stale, dropped>>

\* The write: ApplyOps with base version 0 replaces the node.
HandleCommit(g) ==
    /\ at[g] = "read"
    /\ row' = local[g][2]
    /\ stale' = (stale \/ row # local[g][1])
    /\ at' = [at EXCEPT ![g] = "stored"]
    /\ UNCHANGED <<vars, chatVars, cached, fresh, created, local, half, dropped>>

\* The call returns.
HandleEnds(g) ==
    /\ at' = [at EXCEPT ![g] = "ready"]
    /\ local' = [local EXCEPT ![g] = <<>>]
    /\ UNCHANGED <<chatVars, row, fresh, created, stale>>

\* The cache takes the document that was written.  OnAssistantOutput makes a
\* second Handle call.
HandleReturn(g) ==
    /\ at[g] = "stored"
    /\ cached' = local[g][2]
    /\ half' = [half EXCEPT ![g] = Head(emit[g]).type = "assistant_output" /\ ~@]
    /\ IF half'[g] THEN UNCHANGED vars ELSE SyncReturn(g)
    /\ HandleEnds(g)
    /\ UNCHANGED dropped

\* There is no such node, or the store fails: the caller ignores the error.
HandleFail(g) ==
    /\ Syncing(g)
    /\ at[g] \in {"ready", "read"}
    /\ dropped' = IF half[g] THEN dropped ELSE dropped \cup {Head(emit[g]).msg}
    /\ half' = [half EXCEPT ![g] = FALSE]
    /\ SyncReturn(g)
    /\ HandleEnds(g)
    /\ UNCHANGED cached

Handle(g) == HandleRead(g) \/ HandleCommit(g) \/ HandleReturn(g) \/ HandleFail(g)

------------------------------------------------------------------------------
(* LLMChatNodePipeline.Run. *)

\* Without an input the worker opens the conversation.
ChatStart ==
    /\ stage = "start"
    /\ stage' \in {"publish", "loop"}
    /\ UNCHANGED <<vars, turn, nodeVars>>

\* The loop head and generateReply, which may fail or return nothing.
ChatTurn ==
    /\ stage = "loop"
    /\ IF turn >= MaxTurns
       THEN stage' = "done" /\ UNCHANGED turn
       ELSE /\ turn' = turn + 1
            /\ stage' \in {"publish", "done"}
    /\ UNCHANGED <<vars, nodeVars>>

ChatPublish ==
    /\ stage = "publish"
    /\ Enter(publisher)
    /\ stage' = "publishing"
    /\ UNCHANGED <<turn, nodeVars>>

\* PublishOutput has returned, its UI sync calls included.
ChatPublished ==
    /\ stage = "publishing"
    /\ pc[publisher] = "idle" /\ emit[publisher] = <<>>
    /\ stage' = "wait"
    /\ UNCHANGED <<vars, turn, nodeVars>>

ChatWait ==
    /\ stage = "wait"
    /\ Enter(worker)
    /\ stage' = "waiting"
    /\ UNCHANGED <<turn, nodeVars>>

\* WaitForInput has its result and returns once its UI sync calls have.
ChatInput ==
    /\ WaitForInputPop(worker)
    /\ stage' = "input"
    /\ UNCHANGED <<turn, nodeVars>>

\* Variant: the worker waits again after a timeout.
ChatRetry ==
    /\ WaitForInputClosed(worker) \/ WaitForInputCancel(worker)
    /\ stage' = "wait"
    /\ UNCHANGED <<turn, nodeVars>>

\* No input: the session is closed or the idle timeout has run out.
ChatNoInput ==
    /\ WaitForInputClosed(worker) \/ WaitForInputCancel(worker)
    /\ stage' = "leave"
    /\ UNCHANGED <<turn, nodeVars>>

ChatWaited ==
    /\ stage \in {"input", "leave"}
    /\ emit[worker] = <<>>
    /\ stage' = IF stage = "input" THEN "loop" ELSE "done"
    /\ UNCHANGED <<vars, turn, nodeVars>>

------------------------------------------------------------------------------
(* A step of the user-interaction service that leaves the rest alone. *)
Only(A) == A /\ UNCHANGED <<chatVars, nodeVars>>

\* The failure of a Put, which nothing here depends on, is in UserInteraction.
Persist(c) == Only(persistConversation(c) /\ artifact' = snap[c])

InputsSent == Cardinality({i \in DOMAIN conversation : conversation[i].role = "user"})

WorkerRun ==
    \/ ChatStart \/ ChatTurn \/ ChatPublish \/ ChatPublished \/ ChatWait \/ ChatInput
    \/ ChatNoInput \/ ChatWaited
    \/ Only(PublishOutput(publisher)) \/ Persist(publisher)
    \/ Only(WaitForInputPark(worker)) \/ Only(Wake(worker))

IdleTimeout == Only(WaitForInputCtxDone(worker))

\* Bounds: the users send MaxInputs inputs and close an open session.
UserRun(c) ==
    \/ Only(InputsSent < MaxInputs /\ Send(c)) \/ Only(SendRejected(c))
    \/ Only(~closed /\ Close(c)) \/ Persist(c)

ChatNext ==
    \/ WorkerRun \/ IdleTimeout
    \/ \E c \in Users : Only(Enter(c)) \/ UserRun(c)
    \/ \E g \in Procs : Handle(g)
    \/ CreateNodeInTab \/ CreateNodeCached

ChatSpec == ChatInit /\ [][ChatNext]_allVars

\* Goroutines that can run do.  The deadline of the idle timeout is absolute:
\* once it has passed it is ready at every later select.
ChatFairSpec ==
    /\ ChatSpec
    /\ WF_allVars(WorkerRun) /\ SF_allVars(IdleTimeout)
    /\ \A g \in Procs : WF_allVars(Handle(g))

------------------------------------------------------------------------------
(* Properties. *)

ChatTypeOK ==
    /\ stage \in {"start", "publish", "publishing", "wait", "waiting", "input",
                  "leave", "loop", "done"}
    /\ turn \in 0..MaxTurns
    /\ {row, cached} \subseteq Node \cup {NoNode}
    /\ at \in [Procs -> {"ready", "read", "stored"}]
    /\ \A g \in Procs : at[g] # "ready" => emit[g] # <<>> /\ local[g] \in Node \X Node

\* The worker answers every input before it asks for the next one, and never
\* speaks twice in a row: its outputs are the opening (or the answer to the
\* run's own input) and one answer per input taken from the session.
AnswersKeepUp ==
    LET outputs == Cardinality(AssistantSeqs)
    IN  /\ outputs - 1 <= Len(delivered) /\ Len(delivered) <= outputs
        /\ stage \in {"wait", "waiting"} => Len(delivered) = outputs - 1

\* Whatever the order of the UI sync calls, the timeline never has a message
\* twice or one that is not in the conversation.
TimelineSound ==
    row # NoNode =>
      /\ SeqElems(row.timeline) \subseteq DOMAIN conversation
      /\ \A i, j \in DOMAIN row.timeline : i # j => row.timeline[i] # row.timeline[j]

AllSynced == \A g \in Procs : emit[g] = <<>>
Missing   == {i \in DOMAIN conversation : row = NoNode \/ i \notin SeqElems(row.timeline)}

\* A message is missing from the timeline only if its own UI sync call failed or
\* some call wrote over a node it had not read.
TimelineLossExplained == AllSynced => stale \/ Missing \subseteq dropped

\* The status of the act node moves along the act state machine (CanTransition),
\* which the event service does not consult: the steps that leave it are the
\* opening prompt on a node that has not been planned, and a call that writes
\* back a node older than the row.
StatusLapseExplained ==
    [][row # NoNode /\ ~stale' =>
         \/ CanTransition(row.status, row'.status)
         \/ row.status \in {"UNSPECIFIED", "IDLE"} /\ row'.status = "NEEDS_USER_ACTION"]_allVars

\* The run ends: the turns are limited, a silent user times out and a closed
\* session returns no input.
ChatEnds == <>(stage = "done")
==============================================================================
