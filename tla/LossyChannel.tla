----------------------------- MODULE LossyChannel -----------------------------
(***************************************************************************)
(* What a drop-oldest push onto a buffered Go channel promises             *)
(* (pushInteractionWS of the WebSocket handler, pushEvent of a             *)
(* subscription).  A message is lost for one of three reasons: a push that *)
(* has met the channel full drops the oldest one; a push gives up its own  *)
(* at a full channel; the reader fails on the one it has just taken, which *)
(* is the last it takes.  Otherwise the reader gets every message, those   *)
(* of each source in order and none of them twice.                         *)
(* A message is <<source, number>>.                                        *)
(***************************************************************************)
EXTENDS Integers, Sequences

CONSTANTS
    Sources,   \* the goroutines that push
    Cap,       \* capacity of the channel
    MaxOffers  \* bound on the messages of a source

VARIABLES
    offered,   \* how many messages each source has pushed or is pushing
    busy,      \* is the source in the middle of a push?
    full,      \* the sources that have met the channel full and may drop a message
    queue,     \* the channel
    reading,   \* the reader goes on
    received   \* what the reader has got

vars == <<offered, busy, full, queue, reading, received>>

Init ==
    /\ offered = [s \in Sources |-> 0]
    /\ busy = [s \in Sources |-> FALSE]
    /\ full = {}
    /\ queue = <<>>
    /\ reading = TRUE
    /\ received = <<>>

Offer(s) ==
    /\ ~busy[s] /\ offered[s] < MaxOffers
    /\ offered' = [offered EXCEPT ![s] = @ + 1]
    /\ busy' = [busy EXCEPT ![s] = TRUE]
    /\ UNCHANGED <<full, queue, reading, received>>

\* The message goes in.
Accept(s) ==
    /\ busy[s] /\ s \notin full /\ Len(queue) < Cap
    /\ queue' = Append(queue, <<s, offered[s]>>)
    /\ busy' = [busy EXCEPT ![s] = FALSE]
    /\ UNCHANGED <<offered, full, reading, received>>

\* There is no room for it.
MeetFull(s) ==
    /\ busy[s] /\ s \notin full /\ Len(queue) = Cap
    /\ full' = full \cup {s}
    /\ UNCHANGED <<offered, busy, queue, reading, received>>

\* The push drops the oldest message, if there is one by now.
Evict(s) ==
    /\ s \in full
    /\ full' = full \ {s}
    /\ queue' = IF queue = <<>> THEN <<>> ELSE Tail(queue)
    /\ UNCHANGED <<offered, busy, reading, received>>

\* The message is given up: the channel is full, of others' messages too.
Discard(s) ==
    /\ busy[s] /\ s \notin full /\ Len(queue) = Cap
    /\ busy' = [busy EXCEPT ![s] = FALSE]
    /\ UNCHANGED <<offered, full, queue, reading, received>>

Deliver ==
    /\ reading /\ queue # <<>>
    /\ received' = Append(received, Head(queue))
    /\ queue' = Tail(queue)
    /\ UNCHANGED <<offered, busy, full, reading>>

\* The reader ends, or fails on a message, which is lost.
ReaderEnds ==
    /\ reading /\ reading' = FALSE
    /\ \/ UNCHANGED queue
       \/ queue # <<>> /\ queue' = Tail(queue)
    /\ UNCHANGED <<offered, busy, full, received>>

Next ==
    \/ \E s \in Sources : Offer(s) \/ Accept(s) \/ MeetFull(s) \/ Evict(s) \/ Discard(s)
    \/ Deliver \/ ReaderEnds

Spec == Init /\ [][Next]_vars

------------------------------------------------------------------------------
(* Properties. *)

\* The messages on their way, oldest first.
Trail == received \o queue

\* The reader gets the messages of each source in the order in which they were
\* pushed, and none twice, although pushes evict and discard messages.
ReceivedInOrder ==
    \A i, j \in DOMAIN Trail :
        i < j /\ Trail[i][1] = Trail[j][1] => Trail[i][2] < Trail[j][2]
==============================================================================
