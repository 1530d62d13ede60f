---------------------------- MODULE InteractionWS ----------------------------
(***************************************************************************)
(* One WebSocket connection of HandleInteractionWS                         *)
(* (internal/gateway/handler/ws): the handler's reader loop, the writer    *)
(* goroutine, and the goroutine that forwards the events of the session's  *)
(* subscription.  Reader and forwarder push onto the same writeCh; every   *)
(* select of pushInteractionWS is one action.  A message is                *)
(* <<goroutine, number>>; what it says is left to UserInteraction.  A ping *)
(* that succeeds changes nothing here.                                     *)
(***************************************************************************)
EXTENDS Integers, Sequences

CONSTANTS
    Cap,       \* capacity of writeCh (32 in the code)
    MaxPushes  \* bound on the messages of the reader and of the forwarder

ASSUME WSAssumption == Cap \in Nat \ {0} /\ MaxPushes \in Nat \ {0}

Pushers == {"reader", "forwarder"}

VARIABLES
    ctxDone,  \* the connection's context is cancelled
    writer,   \* the writer goroutine: "run" or "done"
    pc,       \* the reader loop and the forwarder
    pushes,   \* messages each of them has pushed or is pushing
    writeCh,
    wire      \* history: what was written to the socket

vars == <<ctxDone, writer, pc, pushes, writeCh, wire>>

\* Variant: the forwarder is started before "subscribed" is pushed.
InitEager ==
    /\ ctxDone = FALSE
    /\ writer = "run"
    /\ pc = [g \in Pushers |-> "read"]
    /\ pushes = [g \in Pushers |-> 0]
    /\ writeCh = <<>>
    /\ wire = <<>>

Init ==
    /\ ctxDone = FALSE
    /\ writer = "run"
    /\ pc = [g \in Pushers |-> IF g = "reader" THEN "read" ELSE "off"]
    /\ pushes = [g \in Pushers |-> 0]
    /\ writeCh = <<>>
    /\ wire = <<>>

------------------------------------------------------------------------------
(* pushInteractionWS. *)

Pushed(g) == <<g, pushes[g]>>

\* Where the goroutines are once a push of g is over: the forwarder is started
\* when "subscribed" has been pushed.
AfterPush(g) ==
    [pc EXCEPT ![g] = "read",
               !["forwarder"] = IF @ = "off" \/ g = "forwarder" THEN "read" ELSE @]

\* First select: there is room, or not.
PushNow(g) ==
    /\ pc[g] = "push"
    /\ Len(writeCh) < Cap
    /\ writeCh' = Append(writeCh, Pushed(g))
    /\ pc' = AfterPush(g)
    /\ UNCHANGED <<ctxDone, writer, pushes, wire>>

PushFull(g) ==
    /\ pc[g] = "push"
    /\ Len(writeCh) = Cap
    /\ pc' = [pc EXCEPT ![g] = "drop"]
    /\ UNCHANGED <<ctxDone, writer, pushes, writeCh, wire>>

\* Second select: take the oldest message out, if there is one by now.
PushDrop(g) ==
    /\ pc[g] = "drop"
    /\ writeCh' = IF writeCh = <<>> THEN <<>> ELSE Tail(writeCh)
    /\ pc' = [pc EXCEPT ![g] = "again"]
    /\ UNCHANGED <<ctxDone, writer, pushes, wire>>

\* Variant: the message goes in before the ones that wait.
PushOvertake(g) ==
    /\ pc[g] = "again"
    /\ writeCh' = IF Len(writeCh) < Cap THEN <<Pushed(g)>> \o writeCh ELSE writeCh
    /\ pc' = AfterPush(g)
    /\ UNCHANGED <<ctxDone, writer, pushes, wire>>

\* Third select: the message goes in, or is lost because the other goroutine has
\* taken the place.
PushAgain(g) ==
    /\ pc[g] = "again"
    /\ writeCh' = IF Len(writeCh) < Cap THEN Append(writeCh, Pushed(g)) ELSE writeCh
    /\ pc' = AfterPush(g)
    /\ UNCHANGED <<ctxDone, writer, pushes, wire>>

StartPush(g) ==
    /\ pc[g] = "read"
    /\ pushes[g] < MaxPushes
    /\ pushes' = [pushes EXCEPT ![g] = @ + 1]
    /\ pc' = [pc EXCEPT ![g] = "push"]

------------------------------------------------------------------------------
(* The goroutines. *)

\* The subscription is made and "subscribed" pushed; then every inbound message,
\* whatever its type, is answered with one message.  (Subscribe only refuses
\* empty ids, which the handler has refused before.)
ReadMessage == StartPush("reader") /\ UNCHANGED <<ctxDone, writer, writeCh, wire>>

\* Variant: the context is only cancelled when the handler returns.
ReadErrorNoCancel ==
    /\ pc["reader"] = "read" /\ pushes["reader"] > 0
    /\ pc' = [pc EXCEPT !["reader"] = "leave"]
    /\ UNCHANGED <<ctxDone, writer, pushes, writeCh, wire>>

\* The peer is gone or the read deadline has passed.
ReadError ==
    /\ pc["reader"] = "read" /\ pushes["reader"] > 0
    /\ ctxDone' = TRUE
    /\ pc' = [pc EXCEPT !["reader"] = "leave"]
    /\ UNCHANGED <<writer, pushes, writeCh, wire>>

\* The handler waits for the writer and returns.
HandlerReturn ==
    /\ pc["reader"] = "leave"
    /\ writer = "done"
    /\ pc' = [pc EXCEPT !["reader"] = "done"]
    /\ UNCHANGED <<ctxDone, writer, pushes, writeCh, wire>>

\* An event of the subscription, or the end of the context: a select with both
\* ready takes either.
ForwardEvent == StartPush("forwarder") /\ UNCHANGED <<ctxDone, writer, writeCh, wire>>

ForwarderDone ==
    /\ pc["forwarder"] = "read"
    /\ ctxDone
    /\ pc' = [pc EXCEPT !["forwarder"] = "done"]
    /\ UNCHANGED <<ctxDone, writer, pushes, writeCh, wire>>

WriteJSON ==
    /\ writer = "run"
    /\ writeCh # <<>>
    /\ wire' = Append(wire, Head(writeCh))
    /\ writeCh' = Tail(writeCh)
    /\ UNCHANGED <<ctxDone, writer, pc, pushes>>

\* Variant: a message that cannot be written is passed over.
WriteGoesOn ==
    /\ writer = "run"
    /\ writeCh # <<>> /\ writeCh' = Tail(writeCh)
    /\ UNCHANGED <<ctxDone, writer, pc, pushes, wire>>

\* A write fails or meets its deadline; a ping that fails takes no message.
WriteFails ==
    /\ writer = "run"
    /\ \/ UNCHANGED writeCh
       \/ writeCh # <<>> /\ writeCh' = Tail(writeCh)
    /\ writer' = "done"
    /\ UNCHANGED <<ctxDone, pc, pushes, wire>>

WriterDone ==
    /\ writer = "run"
    /\ ctxDone
    /\ writer' = "done"
    /\ UNCHANGED <<ctxDone, pc, pushes, writeCh, wire>>

------------------------------------------------------------------------------
Push(g) == PushNow(g) \/ PushFull(g) \/ PushDrop(g) \/ PushAgain(g)

Next ==
    \/ \E g \in Pushers : Push(g)
    \/ ReadMessage \/ ReadError \/ HandlerReturn
    \/ ForwardEvent \/ ForwarderDone
    \/ WriteJSON \/ WriteFails \/ WriterDone

Spec == Init /\ [][Next]_vars

\* Without a writer no ping goes out, no pong comes back and nothing extends the
\* read deadline: ReadJSON fails in the end, however much the peer sends.
ReadDeadline == writer = "done" /\ ReadError

\* Goroutines that can run do, and a select does not for ever pass over a case
\* that is ready.
FairSpec ==
    /\ Spec
    /\ \A g \in Pushers : WF_vars(Push(g))
    /\ WF_vars(ReadMessage /\ pushes["reader"] = 0) /\ WF_vars(HandlerReturn)
    /\ SF_vars(ForwarderDone) /\ SF_vars(WriterDone)
    /\ SF_vars(ReadDeadline)

------------------------------------------------------------------------------
(* Properties. *)

TypeOK ==
    /\ ctxDone \in BOOLEAN
    /\ writer \in {"run", "done"}
    /\ pc \in [Pushers -> {"off", "read", "push", "drop", "again", "leave", "done"}]
    /\ pushes \in [Pushers -> 0..MaxPushes]
    /\ writeCh \in Seq(Pushers \X Nat) /\ Len(writeCh) <= Cap
    /\ wire \in Seq(Pushers \X Nat)

\* "subscribed" comes before anything else the peer is told, although two
\* goroutines push and pushes evict messages.
SubscribedFirst ==
    \A i \in DOMAIN (wire \o writeCh) : (wire \o writeCh)[i] = <<"reader", 1>> => i = 1

\* The connection implements the lossy channel: as long as the writer goes on,
\* nothing that was pushed is kept from the peer but by a push that has met the
\* channel full, and a writer that has failed once on a message writes no other.
Lossy == INSTANCE LossyChannel WITH
    Sources <- Pushers, MaxOffers <- MaxPushes,
    offered <- pushes,
    busy <- [g \in Pushers |-> pc[g] \in {"push", "drop", "again"}],
    full <- {g \in Pushers : pc[g] = "drop"},
    queue <- writeCh, reading <- writer = "run", received <- wire
ImplementsLossyChannel == Lossy!Spec

\* So the peer gets the answers of the reader loop and the events of the
\* forwarder each in order and none twice, whatever the pushes evict.
WireInOrder == Lossy!ReceivedInOrder

\* A connection whose peer is gone or whose writer has failed is torn down: the
\* handler returns and no goroutine of it is left behind.
HandlerEnds ==
    ctxDone \/ writer = "done"
        ~> writer = "done" /\ pc["reader"] = "done" /\ pc["forwarder"] = "done"
==============================================================================
