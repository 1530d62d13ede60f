--------------------------- MODULE UserInteraction ---------------------------
(***************************************************************************)
(* The user-interaction service of the gateway                             *)
(* (internal/gateway/service/userinteraction): one session, that is one    *)
(* (run, node) pair, shared by the goroutines that call the service.       *)
(*                                                                         *)
(* Every critical section under Service.mu is one action; what a goroutine *)
(* does after the unlock (persisting the conversation, calling the UI      *)
(* sync, pushing to a subscription channel, selecting on the "changed"     *)
(* channel) is one further action per step, so that calls interleave       *)
(* exactly where the code lets them.                                       *)
(*                                                                         *)
(* The text of a message is represented by its Seq number in the           *)
(* conversation.  A "changed" channel is closed and replaced by            *)
(* notifyLocked; the model keeps the set of goroutines whose captured      *)
(* channel has been closed.                                                *)
(***************************************************************************)
EXTENDS Integers, Sequences

CONSTANTS
    Waiters,      \* goroutines that call WaitForInput (workers)
    Pollers,      \* goroutines that call Wait or Snapshot (long-poll RPC)
    Subscribers,  \* goroutines started by Subscribe (one per WebSocket)
    Callers,      \* goroutines that call Send, PublishOutput or Close
    Ids,          \* interaction ids a request may carry
    NoId,         \* the empty interaction id
    NewId,        \* the id newInteractionID() makes for this session
    OutCap,       \* capacity of a subscription channel (8 in the code)
    MaxMessages   \* bound on the length of the conversation

Procs == Waiters \cup Pollers \cup Subscribers \cup Callers

ASSUME CapAssumption == OutCap \in Nat \ {0} /\ MaxMessages \in Nat

ASSUME ProcsDisjoint ==
    /\ Waiters \cap (Pollers \cup Subscribers \cup Callers) = {}
    /\ Pollers \cap (Subscribers \cup Callers) = {}
    /\ Subscribers \cap Callers = {}

ASSUME IdsAssumption == NoId # NewId /\ NoId \notin Ids

VARIABLES
    interactionID, closed, waiting,            \* sessionState
    inputQueue, outputQueue, conversation,     \* sessionState
    woken,      \* goroutines whose captured "changed" channel is closed
    pc,         \* where each goroutine is
    emit,       \* UI sync calls each goroutine still has to make
    snap,       \* conversation snapshot each caller still has to Put
    artifact,   \* the persisted conversation
    lapse,      \* history: since the artifact was last complete, a Put has failed or
                \* has put an older conversation over a newer one
    taken,      \* events a subscriber goroutine still has to push
    out,        \* the subscription channels
    told,       \* the wait state each subscriber computed last
    delivered,  \* history: inputs popped by WaitForInput, in order
    seen,       \* history: assistant messages read from each channel
    lost        \* history: assistant messages a full channel dropped

session == <<interactionID, closed, waiting, inputQueue, outputQueue,
             conversation>>
subVars == <<taken, out, told, seen, lost>>
vars == <<session, woken, pc, emit, snap, artifact, lapse, subVars, delivered>>

------------------------------------------------------------------------------
(* Helpers. *)

AllIds == Ids \cup {NoId, NewId}

Message == [role : {"user", "assistant"}, id : AllIds]

\* UI sync calls: OnUserAccepted, OnAssistantOutput, OnWaiting(true / false).
UserAccepted(n)    == [type |-> "user_accepted", msg |-> n]
AssistantOutput(n) == [type |-> "assistant_output", msg |-> n]
WaitingOn          == [type |-> "waiting_on", msg |-> 0]
WaitingOff         == [type |-> "waiting_off", msg |-> 0]

SyncCall == [type : {"user_accepted", "assistant_output", "waiting_on",
                      "waiting_off"}, msg : Nat]

\* The id of the session after a request that carries `id' (NoId if none).
EnsureId(id) == IF id # NoId THEN id
                ELSE IF interactionID = NoId THEN NewId ELSE interactionID

\* waitResponseFromStateLocked, for a session whose id is `id'.
WaitState(id) == [kind |-> "wait_state", waiting |-> waiting /\ ~closed,
                  closed |-> closed, id |-> id]

AssistantMessage(m) == [kind |-> "assistant_message", msg |-> m.msg,
                        id |-> m.id]

Event == [kind : {"wait_state"}, waiting : BOOLEAN, closed : BOOLEAN, id : AllIds]
         \cup [kind : {"assistant_message"}, msg : Nat, id : AllIds]

IsMessage(e) == e.kind = "assistant_message"

\* Goroutines that hold a channel they captured from st.changed.
Listening == {g \in Procs : pc[g] \in {"parked", "push", "drop"}}

\* Faulty notifications: a single goroutine woken (a send instead of a close);
\* only goroutines already blocked in their select woken.
NotifyOne    == IF Listening = {} THEN woken' = woken
                ELSE \E g \in Listening : woken' = woken \cup {g}
NotifyParked == woken' = woken \cup {g \in Listening : pc[g] = "parked"}

\* notifyLocked closes st.changed and installs a fresh channel.
notifyLocked == woken' = woken \cup Listening

\* A faulty queue: last in, first out.
PushFront(q, m) == <<m>> \o q

\* How Send and PublishOutput queue a message.
Enqueue(q, m) == Append(q, m)

SeqElems(s) == {s[i] : i \in DOMAIN s}

------------------------------------------------------------------------------
Init ==
    /\ interactionID = NoId
    /\ closed = FALSE
    /\ waiting = FALSE
    /\ inputQueue = <<>>
    /\ outputQueue = <<>>
    /\ conversation = <<>>
    /\ woken = {}
    /\ pc = [g \in Procs |-> "idle"]
    /\ emit = [g \in Procs |-> <<>>]
    /\ snap = [c \in Callers |-> <<>>]
    /\ artifact = <<>>
    /\ lapse = FALSE
    /\ taken = [s \in Subscribers |-> <<>>]
    /\ out = [s \in Subscribers |-> <<>>]
    /\ told = [s \in Subscribers |-> <<>>]
    /\ delivered = <<>>
    /\ seen = [s \in Subscribers |-> <<>>]
    /\ lost = {}

------------------------------------------------------------------------------
(* A call enters the service; a goroutine makes a call only once the        *)
(* previous one, UI sync calls included, has returned.                      *)
Enter(g) ==
    /\ pc[g] = "idle"
    /\ emit[g] = <<>>
    /\ pc' = [pc EXCEPT ![g] = "lock"]
    /\ UNCHANGED <<session, woken, emit, snap, artifact, lapse, subVars, delivered>>

\* One UI sync call returns.
SyncReturn(g) ==
    /\ emit[g] # <<>>
    /\ pc[g] # "persist"
    /\ emit' = [emit EXCEPT ![g] = Tail(@)]
    /\ UNCHANGED <<session, woken, pc, snap, artifact, lapse, subVars, delivered>>

------------------------------------------------------------------------------
(* WaitForInput.  A queued input is served before the closed flag is        *)
(* looked at.                                                               *)
WaitForInputPop(w) ==
    /\ pc[w] = "lock"
    /\ inputQueue # <<>>
    /\ interactionID' = EnsureId(NoId)
    /\ inputQueue' = Tail(inputQueue)
    /\ delivered' = Append(delivered, Head(inputQueue))
    /\ waiting' = FALSE
    /\ notifyLocked
    /\ emit' = [emit EXCEPT ![w] = <<WaitingOn, WaitingOff>>]
    /\ pc' = [pc EXCEPT ![w] = "idle"]
    /\ UNCHANGED <<closed, outputQueue, conversation, snap, artifact, lapse, subVars>>

WaitForInputClosed(w) ==
    /\ pc[w] = "lock"
    /\ inputQueue = <<>>
    /\ closed
    /\ interactionID' = EnsureId(NoId)
    /\ waiting' = FALSE
    /\ notifyLocked
    /\ emit' = [emit EXCEPT ![w] = <<WaitingOn, WaitingOff>>]
    /\ pc' = [pc EXCEPT ![w] = "idle"]
    /\ UNCHANGED <<closed, inputQueue, outputQueue, conversation, snap,
                   artifact, lapse, subVars, delivered>>

StartWaiting(w) ==
    /\ pc[w] = "lock"
    /\ inputQueue = <<>>
    /\ ~closed
    /\ interactionID' = EnsureId(NoId)
    /\ waiting' = TRUE
    /\ emit' = [emit EXCEPT ![w] = <<WaitingOn>>]
    /\ pc' = [pc EXCEPT ![w] = "parked"]
    /\ UNCHANGED <<closed, inputQueue, outputQueue, conversation, snap,
                   artifact, lapse, subVars, delivered>>

\* A faulty park: the channel is captured before it is closed.
ParkOnOldChannel(w) == StartWaiting(w) /\ woken' = woken \cup Listening \cup {w}

\* The waiter notifies the others first and then captures the new channel.
WaitForInputPark(w) == StartWaiting(w) /\ notifyLocked

\* The select of Wait and WaitForInput: the captured channel is closed.
Wake(g) ==
    /\ pc[g] = "parked"
    /\ emit[g] = <<>>
    /\ g \in woken
    /\ woken' = woken \ {g}
    /\ pc' = [pc EXCEPT ![g] = "lock"]
    /\ UNCHANGED <<session, emit, snap, artifact, lapse, subVars, delivered>>

\* The select of WaitForInput: the caller's context ends, whether or not the
\* channel is closed too.
WaitForInputCtxDone(w) ==
    /\ pc[w] = "parked"
    /\ emit[w] = <<>>
    /\ woken' = woken \ {w}
    /\ pc' = [pc EXCEPT ![w] = "cancel"]
    /\ UNCHANGED <<session, emit, snap, artifact, lapse, subVars, delivered>>

LeaveCancelled(w) ==
    /\ pc[w] = "cancel"
    /\ notifyLocked
    /\ emit' = [emit EXCEPT ![w] = <<WaitingOff>>]
    /\ pc' = [pc EXCEPT ![w] = "idle"]
    /\ UNCHANGED <<interactionID, closed, inputQueue, outputQueue,
                   conversation, snap, artifact, lapse, subVars, delivered>>

\* A faulty cancellation: the flag this call set stays up.
CancelKeepsWaiting(w) == LeaveCancelled(w) /\ UNCHANGED waiting

WaitForInputCancel(w) == LeaveCancelled(w) /\ waiting' = FALSE

------------------------------------------------------------------------------
(* Wait (the long-poll RPC) and Snapshot.  Both may give the session its    *)
(* id, without a notification.                                              *)
WaitReturn(p) ==  \* ready, or timeoutMs <= 0, or Snapshot
    /\ pc[p] = "lock"
    /\ interactionID' = EnsureId(NoId)
    /\ pc' = [pc EXCEPT ![p] = "idle"]
    /\ UNCHANGED <<closed, waiting, inputQueue, outputQueue, conversation,
                   woken, emit, snap, artifact, lapse, subVars, delivered>>

WaitPark(p) ==
    /\ pc[p] = "lock"
    /\ ~waiting /\ ~closed
    /\ interactionID' = EnsureId(NoId)
    /\ pc' = [pc EXCEPT ![p] = "parked"]
    /\ UNCHANGED <<closed, waiting, inputQueue, outputQueue, conversation,
                   woken, emit, snap, artifact, lapse, subVars, delivered>>

WaitTimeout(p) ==
    /\ pc[p] = "parked"
    /\ woken' = woken \ {p}
    /\ pc' = [pc EXCEPT ![p] = "idle"]
    /\ UNCHANGED <<session, emit, snap, artifact, lapse, subVars, delivered>>

------------------------------------------------------------------------------
(* Send, PublishOutput and Close.  Send on a closed session returns         *)
(* Accepted:false and changes nothing.                                      *)
AcceptInput(c) ==
    /\ pc[c] = "lock"
    /\ Len(conversation) < MaxMessages
    /\ \E id \in Ids \cup {NoId} :
         /\ interactionID' = EnsureId(id)
         /\ conversation' = Append(conversation,
                                   [role |-> "user", id |-> EnsureId(id)])
    /\ inputQueue' = Enqueue(inputQueue, Len(conversation) + 1)
    /\ waiting' = FALSE
    /\ notifyLocked
    /\ snap' = [snap EXCEPT ![c] = conversation']
    /\ emit' = [emit EXCEPT ![c] = <<UserAccepted(Len(conversation) + 1)>>]
    /\ pc' = [pc EXCEPT ![c] = "persist"]
    /\ UNCHANGED <<closed, outputQueue, artifact, lapse, subVars, delivered>>

Send(c) == ~closed /\ AcceptInput(c)

SendRejected(c) ==
    /\ pc[c] = "lock"
    /\ closed
    /\ pc' = [pc EXCEPT ![c] = "idle"]
    /\ UNCHANGED <<session, woken, emit, snap, artifact, lapse, subVars, delivered>>

PublishOutput(c) ==
    /\ pc[c] = "lock"
    /\ Len(conversation) < MaxMessages
    /\ \E id \in Ids \cup {NoId} :
         /\ interactionID' = EnsureId(id)
         /\ conversation' = Append(conversation,
                                   [role |-> "assistant", id |-> EnsureId(id)])
         /\ outputQueue' = Enqueue(outputQueue,
                                   [msg |-> Len(conversation) + 1,
                                    id |-> EnsureId(id)])
    /\ notifyLocked
    /\ snap' = [snap EXCEPT ![c] = conversation']
    /\ emit' = [emit EXCEPT ![c] = <<AssistantOutput(Len(conversation) + 1)>>]
    /\ pc' = [pc EXCEPT ![c] = "persist"]
    /\ UNCHANGED <<closed, waiting, inputQueue, artifact, lapse, subVars, delivered>>

Close(c) ==
    /\ pc[c] = "lock"
    /\ \E id \in Ids \cup {NoId} : interactionID' = EnsureId(id)
    /\ closed' = TRUE
    /\ waiting' = FALSE
    /\ notifyLocked
    /\ emit' = [emit EXCEPT ![c] = <<WaitingOff>>]
    /\ pc' = [pc EXCEPT ![c] = "idle"]
    /\ UNCHANGED <<inputQueue, outputQueue, conversation, snap, artifact, lapse,
                   subVars, delivered>>

\* The Put has failed, or what it overwrites was newer.
Lapses(c) == artifact' # snap[c] \/ Len(snap[c]) < Len(artifact)

\* Variant: a Put is left to another caller that is about to make one.
persistOnlyLast(c) ==
    /\ pc[c] = "persist"
    /\ artifact' = IF \E d \in Callers \ {c} : pc[d] = "persist"
                   THEN artifact ELSE snap[c]
    /\ lapse' = (/\ artifact' # conversation
                 /\ lapse \/ Len(snap[c]) < Len(artifact))
    /\ snap' = [snap EXCEPT ![c] = <<>>]
    /\ pc' = [pc EXCEPT ![c] = "idle"]
    /\ UNCHANGED <<session, woken, emit, subVars, delivered>>

\* persistConversation: the Put happens outside the lock, and its failure is
\* only logged.
persistConversation(c) ==
    /\ pc[c] = "persist"
    /\ artifact' \in {snap[c], artifact}
    /\ lapse' = (artifact' # conversation /\ (lapse \/ Lapses(c)))
    /\ snap' = [snap EXCEPT ![c] = <<>>]
    /\ pc' = [pc EXCEPT ![c] = "idle"]
    /\ UNCHANGED <<session, woken, emit, subVars, delivered>>

------------------------------------------------------------------------------
(* The goroutine of Subscribe and the reader of its channel.                *)
SubscribeRead(s) ==
    /\ pc[s] = "lock"
    /\ interactionID' = EnsureId(NoId)
    /\ told' = [told EXCEPT ![s] = <<WaitState(EnsureId(NoId))>>]
    /\ taken' = [taken EXCEPT ![s] =
                   <<WaitState(EnsureId(NoId))>> \o
                   [i \in DOMAIN outputQueue |-> AssistantMessage(outputQueue[i])]]
    /\ pc' = [pc EXCEPT ![s] = "push"]
    /\ UNCHANGED <<closed, waiting, inputQueue, conversation, woken, emit,
                   snap, artifact, lapse, out, seen, lost, delivered>>

\* A faulty drain: the outputs are read but not taken.
DrainKeepsQueue(s) == SubscribeRead(s) /\ UNCHANGED outputQueue

SubscribeDrain(s) == SubscribeRead(s) /\ outputQueue' = <<>>

\* pushEvent, first select: there is room.
PushEvent(s) ==
    /\ pc[s] = "push"
    /\ taken[s] # <<>>
    /\ Len(out[s]) < OutCap
    /\ out' = [out EXCEPT ![s] = Append(@, Head(taken[s]))]
    /\ taken' = [taken EXCEPT ![s] = Tail(@)]
    /\ UNCHANGED <<session, woken, pc, emit, snap, artifact, lapse, told, seen, lost,
                   delivered>>

\* pushEvent, first select: the channel is full.
PushFull(s) ==
    /\ pc[s] = "push"
    /\ taken[s] # <<>>
    /\ Len(out[s]) = OutCap
    /\ pc' = [pc EXCEPT ![s] = "drop"]
    /\ UNCHANGED <<session, woken, emit, snap, artifact, lapse, subVars, delivered>>

\* pushEvent, second and third select: the oldest event is dropped (even if
\* the reader has made room by now) and the new one goes in.
PushDropOldest(s) ==
    /\ pc[s] = "drop"
    /\ out' = [out EXCEPT ![s] =
                 Append(IF @ = <<>> THEN @ ELSE Tail(@), Head(taken[s]))]
    /\ lost' = IF out[s] # <<>> /\ IsMessage(Head(out[s]))
               THEN lost \cup {Head(out[s]).msg} ELSE lost
    /\ taken' = [taken EXCEPT ![s] = Tail(@)]
    /\ pc' = [pc EXCEPT ![s] = "push"]
    /\ UNCHANGED <<session, woken, emit, snap, artifact, lapse, told, seen, delivered>>

SubscribeWake(s) ==
    /\ pc[s] = "push"
    /\ taken[s] = <<>>
    /\ s \in woken
    /\ woken' = woken \ {s}
    /\ pc' = [pc EXCEPT ![s] = "lock"]
    /\ UNCHANGED <<session, emit, snap, artifact, lapse, subVars, delivered>>

SubscribeCtxDone(s) ==
    /\ pc[s] = "push"
    /\ taken[s] = <<>>
    /\ woken' = woken \ {s}
    /\ pc' = [pc EXCEPT ![s] = "done"]
    /\ UNCHANGED <<session, emit, snap, artifact, lapse, subVars, delivered>>

\* The forwarding goroutine of the WebSocket handler reads one event.
Receive(s) ==
    /\ out[s] # <<>>
    /\ out' = [out EXCEPT ![s] = Tail(@)]
    /\ seen' = IF IsMessage(Head(out[s]))
               THEN [seen EXCEPT ![s] = Append(@, Head(out[s]).msg)]
               ELSE seen
    /\ UNCHANGED <<session, woken, pc, emit, snap, artifact, lapse, taken, told, lost,
                   delivered>>

------------------------------------------------------------------------------
WaiterRun(w) ==
    \/ WaitForInputPop(w) \/ WaitForInputClosed(w) \/ WaitForInputPark(w)
    \/ Wake(w) \/ WaitForInputCancel(w)

PollerRun(p) == WaitReturn(p) \/ Wake(p)

SubscriberRun(s) ==
    SubscribeDrain(s) \/ PushEvent(s) \/ PushFull(s) \/ PushDropOldest(s)
    \/ SubscribeWake(s)

CallerRun(c) ==
    Send(c) \/ SendRejected(c) \/ PublishOutput(c) \/ Close(c)
    \/ persistConversation(c)

Next ==
    \/ \E g \in Procs : Enter(g) \/ SyncReturn(g)
    \/ \E w \in Waiters : WaiterRun(w) \/ WaitForInputCtxDone(w)
    \/ \E p \in Pollers : PollerRun(p) \/ WaitPark(p) \/ WaitTimeout(p)
    \/ \E c \in Callers : CallerRun(c)
    \/ \E s \in Subscribers :
         SubscriberRun(s) \/ SubscribeCtxDone(s) \/ Receive(s)

Spec == Init /\ [][Next]_vars

\* A goroutine that can run is eventually scheduled and sync.Mutex admits every
\* goroutine in the end; nothing obliges a client to call, a context to end or
\* a caller to pick one operation.  The handler keeps reading its channel.
Fairness ==
    /\ \A g \in Procs : WF_vars(SyncReturn(g))
    /\ \A w \in Waiters : WF_vars(WaiterRun(w))
    /\ \A p \in Pollers : WF_vars(PollerRun(p))
    /\ \A s \in Subscribers : WF_vars(SubscriberRun(s)) /\ WF_vars(Receive(s))
    /\ \A c \in Callers : WF_vars(persistConversation(c))

FairSpec == Spec /\ Fairness

------------------------------------------------------------------------------
(* Properties. *)

SessionType ==
    /\ interactionID \in AllIds
    /\ closed \in BOOLEAN
    /\ waiting \in BOOLEAN
    /\ inputQueue \in Seq(Nat)
    /\ delivered \in Seq(Nat)
    /\ outputQueue \in Seq([msg : Nat, id : AllIds])
    /\ conversation \in Seq(Message)
    /\ artifact \in Seq(Message)
    /\ lapse \in BOOLEAN

ProcType ==
    /\ pc \in [Procs -> {"idle", "lock", "parked", "cancel", "persist", "push",
                         "drop", "done"}]
    /\ woken \subseteq Listening
    /\ emit \in [Procs -> Seq(SyncCall)]
    /\ snap \in [Callers -> Seq(Message)]

SubType ==
    /\ taken \in [Subscribers -> Seq(Event)]
    /\ out \in [Subscribers -> Seq(Event)]
    /\ told \in [Subscribers -> Seq(Event)]
    /\ seen \in [Subscribers -> Seq(Nat)]
    /\ lost \subseteq Nat
    /\ \A s \in Subscribers : Len(out[s]) <= OutCap
    /\ \A s \in Subscribers : pc[s] = "drop" => taken[s] # <<>>

TypeOK == SessionType /\ ProcType /\ SubType

\* A WaitForInput caller parked on an open "changed" channel has nothing to
\* wake up for: no input is queued, the session is open, and the session shows
\* that it is waiting.  Another caller's Send, Close or cancellation between
\* the check and the select must not be missed.
WaiterNotMissed ==
    \A w \in Waiters : pc[w] = "parked" /\ w \notin woken
        => inputQueue = <<>> /\ ~closed /\ waiting

\* A Wait long-poll parked on an open channel has not missed the session
\* starting to wait or being closed.
PollerNotMissed ==
    \A p \in Pollers : pc[p] = "parked" /\ p \notin woken
        => ~waiting /\ ~closed

\* A subscriber whose captured channel is still open has been told the current
\* state of the session, id included, and has taken every output: the id that
\* Wait and Snapshot assign without a notification is never missed.
SubscriberCurrent ==
    \A s \in Subscribers : pc[s] \in {"push", "drop"} /\ s \notin woken
        => outputQueue = <<>> /\ told[s] = <<WaitState(interactionID)>>

\* No wake-up is lost: nobody who holds an open "changed" channel has missed what
\* it waits for, be it a worker, a long-poll or a subscription.
NoWakeupLost == WaiterNotMissed /\ PollerNotMissed /\ SubscriberCurrent

\* The session only claims to wait for the user while some WaitForInput call is
\* in progress: every way out of WaitForInput resets the flag that others may
\* have set.
WaitingIsReal ==
    waiting => \E w \in Waiters : pc[w] \in {"parked", "lock", "cancel"}

UserSeqs == {i \in DOMAIN conversation : conversation[i].role = "user"}
AssistantSeqs == {i \in DOMAIN conversation : conversation[i].role = "assistant"}

\* Every accepted input is handed to exactly one WaitForInput call, in the order
\* in which Send accepted it, or is still queued.
InputsExactlyOnceInOrder ==
    LET all == delivered \o inputQueue
    IN  /\ \A i, j \in DOMAIN all : i < j => all[i] < all[j]
        /\ SeqElems(all) = UserSeqs

\* A session never reopens and no input enters the conversation after Close,
\* although inputs that were queued before may still be delivered.
ClosedIsFinal ==
    [][closed => closed' /\ UserSeqs' = UserSeqs]_vars

MsgsOf(evs) == {evs[i].msg : i \in {j \in DOMAIN evs : IsMessage(evs[j])}}

\* Messages that have gone to subscriber s and are not lost.
Trail(s) == SeqElems(seen[s]) \cup MsgsOf(out[s]) \cup MsgsOf(taken[s])

Queued == {outputQueue[i].msg : i \in DOMAIN outputQueue}

\* Every published output is in exactly one place: still queued, with exactly
\* one subscriber (taken, in its channel, or read), or dropped by that
\* subscriber's full channel.
OutputsConserved ==
    /\ AssistantSeqs = Queued \cup lost \cup UNION {Trail(s) : s \in Subscribers}
    /\ Queued \cap lost = {}
    /\ \A s \in Subscribers : Trail(s) \cap (Queued \cup lost) = {}
    /\ \A s, t \in Subscribers : s # t => Trail(s) \cap Trail(t) = {}

MsgsIncrease(evs) ==
    \A i, j \in DOMAIN evs :
        i < j /\ IsMessage(evs[i]) /\ IsMessage(evs[j]) => evs[i].msg < evs[j].msg

\* The reader of a subscription gets the outputs in the order in which they were
\* published, although the channel drops events when it is full.
OutputsInOrder ==
    \A s \in Subscribers :
        /\ \A i, j \in DOMAIN seen[s] : i < j => seen[s][i] < seen[s][j]
        /\ MsgsIncrease(out[s])
        /\ \A n \in SeqElems(seen[s]), m \in MsgsOf(out[s]) : n < m

\* Every published output goes to exactly one subscriber, in the order of
\* publication, or is counted as dropped by a full channel.
OutputsOnceInOrder == OutputsConserved /\ OutputsInOrder

\* An earlier state of the conversation, or the present one.
Past(s) == Len(s) <= Len(conversation) /\ \A i \in DOMAIN s : s[i] = conversation[i]

\* When no Put is under way the artifact is the whole conversation, although the
\* snapshots are put after the unlock and in any order: unless a Put has failed or
\* an older snapshot came in last, and then only until the next one.  It never
\* holds anything but an earlier state of the conversation.
ArtifactCurrent ==
    /\ Past(artifact)
    /\ (\A c \in Callers : pc[c] # "persist") /\ ~lapse => artifact = conversation

------------------------------------------------------------------------------
(* Liveness. *)

InWaitForInput(w) == pc[w] \in {"lock", "parked"}

\* Close ends every WaitForInput call that is parked.
CloseReleases ==
    \A w \in Waiters : closed /\ pc[w] = "parked" ~> pc[w] = "idle"

\* An accepted input reaches a WaitForInput call, unless every such call ends
\* first.
InputReachesWaiter ==
    \A n \in 1..MaxMessages :
        n \in SeqElems(inputQueue) /\ (\E w \in Waiters : InWaitForInput(w))
        ~> n \in SeqElems(delivered) \/ ~\E w \in Waiters : InWaitForInput(w)

\* WaitForInput blocks instead of spinning: again and again a caller that has no
\* rival for good is either out of the call or parked on an open channel.
WaitForInputBlocks ==
    \A w \in Waiters :
        <>[](\A v \in Waiters \ {w} : pc[v] = "idle")
        => []<>(pc[w] = "idle" \/ (pc[w] = "parked" /\ w \notin woken))

\* An output published while a subscription is open reaches its reader, unless
\* the channel overflows or the subscription ends.
OutputReachesReader ==
    \A n \in 1..MaxMessages : \A s \in Subscribers :
        n \in Queued /\ pc[s] \notin {"idle", "done"}
        ~> n \in SeqElems(seen[s]) \cup lost \/ pc[s] = "done"
           \/ \E t \in Subscribers \ {s} : n \in Trail(t)
==============================================================================
