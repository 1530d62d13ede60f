------------------------- MODULE InteractionWSProofs -------------------------
(***************************************************************************)
(* The WebSocket connection keeps its types and implements the lossy       *)
(* channel, for every capacity of writeCh and any number of messages.      *)
(* Every select of pushInteractionWS is one step of the channel or a       *)
(* stutter; TypeOK is the only invariant the simulation needs.             *)
(* The order on the wire is kept by the channel (NotAhead, WayInOrder).    *)
(* That "subscribed" comes first has an invariant of its own, FirstInv.    *)
(***************************************************************************)
EXTENDS InteractionWS, TLAPS

LEMMA InitType == Init => TypeOK
<1> SUFFICES ASSUME Init PROVE TypeOK
  OBVIOUS
<1>1. pc \in [Pushers -> {"off", "read", "push", "drop", "again", "leave", "done"}]
  BY DEF Init, Pushers
<1>2. pushes \in [Pushers -> 0..MaxPushes]
  BY WSAssumption DEF Init, WSAssumption
<1>3. writeCh \in Seq(Pushers \X Nat) /\ wire \in Seq(Pushers \X Nat) /\ Len(writeCh) = 0
  BY DEF Init
<1>4. ctxDone \in BOOLEAN /\ writer \in {"run", "done"}
  BY DEF Init
<1>5. Len(writeCh) <= Cap
  BY <1>3, WSAssumption DEF WSAssumption
<1>6. QED
  BY <1>1, <1>2, <1>3, <1>4, <1>5 DEF TypeOK

LEMMA NextType == TypeOK /\ [Next]_vars => TypeOK'
<1> SUFFICES ASSUME TypeOK, [Next]_vars PROVE TypeOK'
  OBVIOUS
<1> USE WSAssumption DEF WSAssumption, TypeOK
<1>m. \A g \in Pushers : Pushed(g) \in Pushers \X Nat
  BY DEF Pushed
<1>a. \A g \in Pushers : AfterPush(g) \in
        [Pushers -> {"off", "read", "push", "drop", "again", "leave", "done"}]
  BY DEF AfterPush
<1>1. ASSUME NEW g \in Pushers, PushNow(g) PROVE TypeOK'
  <2>1. writeCh' \in Seq(Pushers \X Nat) /\ Len(writeCh') <= Cap
    BY <1>1, <1>m DEF PushNow
  <2>2. QED
    BY <1>1, <1>a, <2>1 DEF PushNow
<1>2. ASSUME NEW g \in Pushers, PushFull(g) PROVE TypeOK'
  BY <1>2 DEF PushFull
<1>3. ASSUME NEW g \in Pushers, PushDrop(g) PROVE TypeOK'
  <2>1. writeCh' \in Seq(Pushers \X Nat) /\ Len(writeCh') <= Cap
    BY <1>3 DEF PushDrop
  <2>2. QED
    BY <1>3, <2>1 DEF PushDrop
<1>4. ASSUME NEW g \in Pushers, PushAgain(g) PROVE TypeOK'
  <2>1. writeCh' \in Seq(Pushers \X Nat) /\ Len(writeCh') <= Cap
    BY <1>4, <1>m DEF PushAgain
  <2>2. QED
    BY <1>4, <1>a, <2>1 DEF PushAgain
<1>5. ASSUME NEW g \in Pushers, StartPush(g), UNCHANGED <<ctxDone, writer, writeCh, wire>>
      PROVE TypeOK'
  BY <1>5 DEF StartPush
<1>6. CASE ReadError \/ HandlerReturn \/ ForwarderDone
  BY <1>6 DEF ReadError, HandlerReturn, ForwarderDone
<1>7. CASE WriteJSON
  <2>1. /\ writeCh' \in Seq(Pushers \X Nat) /\ Len(writeCh') <= Cap
        /\ Head(writeCh) \in Pushers \X Nat
    BY <1>7 DEF WriteJSON
  <2>2. QED
    BY <1>7, <2>1 DEF WriteJSON
<1>8. CASE WriteFails
  <2>1. writeCh' \in Seq(Pushers \X Nat) /\ Len(writeCh') <= Cap
    <3>1. CASE UNCHANGED writeCh
      BY <3>1
    <3>2. CASE writeCh # <<>> /\ writeCh' = Tail(writeCh)
      BY <3>2
    <3>3. QED
      BY <1>8, <3>1, <3>2 DEF WriteFails
  <2>2. QED
    BY <1>8, <2>1 DEF WriteFails
<1>9. CASE WriterDone
  BY <1>9 DEF WriterDone
<1>10. CASE UNCHANGED vars
  BY <1>10 DEF vars
<1>11. QED
  BY <1>1, <1>2, <1>3, <1>4, <1>5, <1>6, <1>7, <1>8, <1>9, <1>10
     DEF Next, Push, ReadMessage, ForwardEvent, Pushers

\* The types of the connection's goroutines and its channel, which never holds
\* more than Cap messages.
THEOREM TypeCorrect == Spec => []TypeOK
  BY InitType, NextType, PTL DEF Spec

------------------------------------------------------------------------------
Busy(g) == pc[g] \in {"push", "drop", "again"}

LEMMA InitRefines == Init => Lossy!Init
<1> SUFFICES ASSUME Init PROVE Lossy!Init
  OBVIOUS
<1>1. \A g \in Pushers : (pc[g] \in {"push", "drop", "again"}) = FALSE
  BY DEF Init, Pushers
<1>2. [g \in Pushers |-> pc[g] \in {"push", "drop", "again"}] = [g \in Pushers |-> FALSE]
  BY <1>1
<1>3. {g \in Pushers : pc[g] = "drop"} = {}
  BY DEF Init, Pushers
<1>4. (writer = "run") = TRUE
  BY DEF Init
<1>5. QED
  BY <1>2, <1>3, <1>4 DEF Init, Lossy!Init

LEMMA NextRefines == TypeOK /\ [Next]_vars => [Lossy!Next]_Lossy!vars
<1> SUFFICES ASSUME TypeOK, [Next]_vars PROVE [Lossy!Next]_Lossy!vars
  OBVIOUS
<1> DEFINE busy == [h \in Pushers |-> pc[h] \in {"push", "drop", "again"}]
           full == {h \in Pushers : pc[h] = "drop"}
           reading == writer = "run"
<1>t. /\ pc \in [Pushers -> {"off", "read", "push", "drop", "again", "leave", "done"}]
      /\ Len(writeCh) <= Cap /\ Len(writeCh) \in Nat
      /\ pushes \in [Pushers -> 0..MaxPushes]
      /\ "forwarder" \in Pushers /\ "reader" \in Pushers
  BY DEF TypeOK, Pushers
<1>c. Cap \in Nat
  BY WSAssumption DEF WSAssumption
\* A push that is over makes its goroutine, and no other, idle.
<1>a. ASSUME NEW g \in Pushers, Busy(g), pc' = AfterPush(g)
      PROVE busy' = [busy EXCEPT ![g] = FALSE]
  <2>1. ASSUME NEW h \in Pushers
        PROVE (pc'[h] \in {"push", "drop", "again"}) = (IF h = g THEN FALSE ELSE busy[h])
    <3>1. CASE h = g
      <4>1. pc'[h] = "read"
        BY <1>a, <1>t, <3>1 DEF AfterPush
      <4>2. (pc'[h] \in {"push", "drop", "again"}) = FALSE
        BY <4>1
      <4>3. (IF h = g THEN FALSE ELSE busy[h]) = FALSE
        BY <3>1
      <4>4. QED
        BY <4>2, <4>3
    <3>2. CASE h # g
      <4>1. pc'[h] = pc[h] \/ (pc[h] = "off" /\ pc'[h] = "read")
        BY <1>a, <1>t, <3>2 DEF AfterPush
      <4>2. (pc'[h] \in {"push", "drop", "again"}) = (pc[h] \in {"push", "drop", "again"})
        BY <4>1
      <4>3. busy[h] = (pc[h] \in {"push", "drop", "again"})
        OBVIOUS
      <4>4. QED
        BY <3>2, <4>2, <4>3
    <3>3. QED
      BY <3>1, <3>2
  <2>3. busy' = [h \in Pushers |-> IF h = g THEN FALSE ELSE busy[h]]
    BY <2>1
  <2>4. QED
    BY <2>3
\* A push in progress stays in progress.
<1>b. ASSUME NEW g \in Pushers, Busy(g), NEW l \in {"drop", "again"},
             pc' = [pc EXCEPT ![g] = l]
      PROVE busy' = busy
  BY <1>b, <1>t DEF Busy
\* Steps outside of a push.
<1>o. ASSUME NEW g \in Pushers, ~Busy(g), NEW l \in {"leave", "done"},
             pc' = [pc EXCEPT ![g] = l]
      PROVE busy' = busy
  BY <1>o, <1>t DEF Busy
\* Only the selects that find the channel full and drop a message change who
\* may drop one.
<1>f. ASSUME NEW g \in Pushers, pc[g] # "drop", NEW l \in {"push", "again", "leave", "done"},
             pc' = [pc EXCEPT ![g] = l] \/ pc' = AfterPush(g)
      PROVE full' = full
  <2>1. \A h \in Pushers : pc'[h] = "drop" <=> pc[h] = "drop"
    BY <1>f, <1>t DEF AfterPush
  <2> QED BY <2>1
<1>1. ASSUME NEW g \in Pushers, PushNow(g) PROVE Lossy!Accept(g)
  <2>1. Busy(g) /\ busy[g] /\ pc[g] = "push"
    BY <1>1 DEF PushNow, Busy
  <2>2. full' = full /\ g \notin full
    BY <1>1, <1>f, <2>1 DEF PushNow
  <2>3. reading' = reading
    BY <1>1 DEF PushNow
  <2>4. QED
    BY <1>1, <1>a, <2>1, <2>2, <2>3 DEF PushNow, Lossy!Accept, Pushed
<1>2. ASSUME NEW g \in Pushers, PushFull(g) PROVE Lossy!MeetFull(g)
  <2>1. Busy(g) /\ busy[g] /\ g \notin full
    BY <1>2 DEF PushFull, Busy
  <2>2. \A h \in Pushers : pc'[h] = IF h = g THEN "drop" ELSE pc[h]
    BY <1>2, <1>t DEF PushFull
  <2>3. full' = full \cup {g}
    BY <2>2
  <2>4. busy' = busy
    BY <1>2, <1>b, <2>1 DEF PushFull
  <2>5. QED
    BY <1>2, <2>1, <2>3, <2>4 DEF PushFull, Lossy!MeetFull
<1>3. ASSUME NEW g \in Pushers, PushDrop(g) PROVE Lossy!Evict(g)
  <2>1. Busy(g) /\ g \in full
    BY <1>3 DEF PushDrop, Busy
  <2>2. \A h \in Pushers : pc'[h] = IF h = g THEN "again" ELSE pc[h]
    BY <1>3, <1>t DEF PushDrop
  <2>3. full' = full \ {g}
    BY <2>2
  <2>4. busy' = busy
    BY <1>3, <1>b, <2>1 DEF PushDrop
  <2>5. QED
    BY <1>3, <2>1, <2>3, <2>4 DEF PushDrop, Lossy!Evict
<1>4. ASSUME NEW g \in Pushers, PushAgain(g) PROVE Lossy!Accept(g) \/ Lossy!Discard(g)
  <2>1. Busy(g) /\ busy[g] /\ pc[g] = "again"
    BY <1>4 DEF PushAgain, Busy
  <2>2. Len(writeCh) < Cap \/ Len(writeCh) = Cap
    BY <1>t, <1>c
  <2>3. full' = full /\ g \notin full
    BY <1>4, <1>f, <2>1 DEF PushAgain
  <2>4. busy' = [busy EXCEPT ![g] = FALSE]
    BY <1>4, <1>a, <2>1 DEF PushAgain
  <2>5. QED
    BY <1>4, <2>1, <2>2, <2>3, <2>4 DEF PushAgain, Lossy!Accept, Lossy!Discard, Pushed
<1>5. ASSUME NEW g \in Pushers, StartPush(g), UNCHANGED <<ctxDone, writer, writeCh, wire>>
      PROVE Lossy!Offer(g)
  <2>1. ~busy[g]
    BY <1>5 DEF StartPush
  <2>2. busy' = [busy EXCEPT ![g] = TRUE]
    BY <1>5, <1>t DEF StartPush
  <2>3. full' = full
    BY <1>5, <1>f DEF StartPush
  <2>4. QED
    BY <1>5, <2>1, <2>2, <2>3 DEF StartPush, Lossy!Offer
<1>6. ASSUME ReadError \/ HandlerReturn \/ ForwarderDone PROVE UNCHANGED Lossy!vars
  <2>1. PICK g \in Pushers, l \in {"leave", "done"} :
          ~Busy(g) /\ pc[g] # "drop" /\ pc' = [pc EXCEPT ![g] = l]
    BY <1>6, <1>t DEF ReadError, HandlerReturn, ForwarderDone, Busy
  <2>2. busy' = busy
    BY <1>o, <2>1
  <2>3. full' = full
    BY <1>f, <2>1
  <2>4. QED
    BY <1>6, <2>2, <2>3 DEF ReadError, HandlerReturn, ForwarderDone, Lossy!vars
<1>7. ASSUME WriteJSON PROVE Lossy!Deliver
  BY <1>7 DEF WriteJSON, Lossy!Deliver
<1>8. ASSUME WriteFails \/ WriterDone PROVE Lossy!ReaderEnds
  <2>1. reading = TRUE /\ reading' = FALSE
    BY <1>8 DEF WriteFails, WriterDone
  <2>2. busy' = busy /\ full' = full
    BY <1>8 DEF WriteFails, WriterDone
  <2>3. QED
    BY <1>8, <2>1, <2>2 DEF WriteFails, WriterDone, Lossy!ReaderEnds
<1>9. ASSUME UNCHANGED vars PROVE UNCHANGED Lossy!vars
  BY <1>9 DEF Lossy!vars, vars
<1>10. QED
  BY <1>1, <1>2, <1>3, <1>4, <1>5, <1>6, <1>7, <1>8, <1>9
     DEF Next, Push, ReadMessage, ForwardEvent, Lossy!Next, Pushers

\* The two goroutines that push onto writeCh and the writer that drains it
\* implement the lossy channel.
THEOREM Refinement == Spec => ImplementsLossyChannel
  BY InitType, NextType, InitRefines, NextRefines, PTL
     DEF Spec, Lossy!Spec, ImplementsLossyChannel

------------------------------------------------------------------------------
(* The order of the messages follows from what the channel does alone.  It *)
(* becomes inductive once it is known that no message on its way is newer  *)
(* than what its source has offered, and older if the source is in the     *)
(* middle of a push.                                                       *)

\* How the messages on their way change.
LEMMA TrailType ==
    ASSUME NEW S, NEW r \in Seq(S), NEW q \in Seq(S)
    PROVE  /\ r \o q \in Seq(S)
           /\ Len(r \o q) = Len(r) + Len(q)
           /\ DOMAIN (r \o q) = 1..Len(r) + Len(q)
  OBVIOUS

LEMMA TrailAppend ==
    ASSUME NEW S, NEW r \in Seq(S), NEW q \in Seq(S), NEW m \in S
    PROVE  /\ Len(r \o Append(q, m)) = Len(r \o q) + 1
           /\ \A i \in DOMAIN (r \o q) : (r \o Append(q, m))[i] = (r \o q)[i]
           /\ (r \o Append(q, m))[Len(r \o q) + 1] = m
  OBVIOUS

LEMMA TrailMove ==
    ASSUME NEW S, NEW r \in Seq(S), NEW q \in Seq(S), q # <<>>
    PROVE  Append(r, Head(q)) \o Tail(q) = r \o q
<1>1. Append(r, Head(q)) \o Tail(q) \in Seq(S) /\ r \o q \in Seq(S)
  OBVIOUS
<1>2. Len(Append(r, Head(q)) \o Tail(q)) = Len(r \o q)
  OBVIOUS
<1>3. \A i \in 1..Len(r \o q) : (Append(r, Head(q)) \o Tail(q))[i] = (r \o q)[i]
  OBVIOUS
<1>4. QED
  BY <1>1, <1>2, <1>3

LEMMA TrailDrop ==
    ASSUME NEW S, NEW r \in Seq(S), NEW q \in Seq(S), q # <<>>
    PROVE  /\ Len(r \o Tail(q)) = Len(r \o q) - 1
           /\ \A i \in DOMAIN (r \o Tail(q)) :
                (r \o Tail(q))[i] = (r \o q)[IF i <= Len(r) THEN i ELSE i + 1]
  OBVIOUS

Way == wire \o writeCh

NotAhead ==
    \A i \in DOMAIN Way :
        /\ Way[i][2] <= pushes[Way[i][1]]
        /\ Busy(Way[i][1]) => Way[i][2] < pushes[Way[i][1]]

WayInOrder ==
    \A i, j \in DOMAIN Way : i < j /\ Way[i][1] = Way[j][1] => Way[i][2] < Way[j][2]

LEMMA WayType ==
    ASSUME TypeOK
    PROVE  /\ wire \in Seq(Pushers \X Nat) /\ writeCh \in Seq(Pushers \X Nat)
           /\ Way \in Seq(Pushers \X Nat)
           /\ \A i \in DOMAIN Way : Way[i][1] \in Pushers /\ Way[i][2] \in Nat
           /\ \A g \in Pushers : pushes[g] \in Nat
<1>1. wire \in Seq(Pushers \X Nat) /\ writeCh \in Seq(Pushers \X Nat)
  BY DEF TypeOK
<1>2. Way \in Seq(Pushers \X Nat)
  BY <1>1, TrailType DEF Way
<1>3. \A g \in Pushers : pushes[g] \in Nat
  BY WSAssumption DEF TypeOK
<1>4. \A i \in DOMAIN Way : Way[i] \in Pushers \X Nat
  BY <1>2
<1> QED
  BY <1>1, <1>2, <1>3, <1>4

\* A message fewer: order and bound are those of the longer sequence.
LEMMA DropKeeps ==
    ASSUME TypeOK, NotAhead, WayInOrder, writeCh # <<>>, writeCh' = Tail(writeCh),
           UNCHANGED <<wire, pushes>>, \A g \in Pushers : Busy(g)' <=> Busy(g)
    PROVE  NotAhead' /\ WayInOrder'
<1> DEFINE up(i) == IF i <= Len(wire) THEN i ELSE i + 1
<1>1. wire \in Seq(Pushers \X Nat) /\ writeCh \in Seq(Pushers \X Nat)
  BY WayType
<1>2. /\ Way \in Seq(Pushers \X Nat) /\ Way' \in Seq(Pushers \X Nat)
      /\ Len(Way') = Len(Way) - 1
      /\ \A i \in DOMAIN Way' : Way'[i] = Way[up(i)]
  <2>1. Tail(writeCh) \in Seq(Pushers \X Nat) BY <1>1
  <2>2. Way \in Seq(Pushers \X Nat) BY <1>1, TrailType DEF Way
  <2>3. Way' = wire \o Tail(writeCh) BY DEF Way
  <2>4. Way' \in Seq(Pushers \X Nat) BY <1>1, <2>1, <2>3, TrailType
  <2>5. /\ Len(wire \o Tail(writeCh)) = Len(wire \o writeCh) - 1
        /\ \A i \in DOMAIN (wire \o Tail(writeCh)) :
             (wire \o Tail(writeCh))[i] = (wire \o writeCh)[up(i)]
    BY <1>1, TrailDrop
  <2>6. Way = wire \o writeCh BY DEF Way
  <2> QED BY <2>2, <2>3, <2>4, <2>5, <2>6
<1>d. /\ Len(wire) \in Nat /\ Len(Way) \in Nat
      /\ DOMAIN Way = 1..Len(Way) /\ DOMAIN Way' = 1..(Len(Way) - 1)
  BY <1>1, <1>2
<1>3. \A i \in DOMAIN Way' : up(i) \in DOMAIN Way
  BY <1>d
<1>4. \A i, j \in DOMAIN Way' : i < j => up(i) < up(j)
  BY <1>d
<1> HIDE DEF up
<1>5. NotAhead'
  BY <1>2, <1>3, WayType DEF NotAhead
<1>6. WayInOrder'
  BY <1>2, <1>3, <1>4 DEF WayInOrder
<1> QED
  BY <1>5, <1>6

\* The messages on their way stay the same.
LEMMA SameWayKeeps ==
    ASSUME TypeOK, NotAhead, WayInOrder, Way' = Way,
           \A g \in Pushers :
               \/ pushes'[g] = pushes[g] /\ (Busy(g)' => Busy(g))
               \/ pushes'[g] = pushes[g] + 1
    PROVE  NotAhead' /\ WayInOrder'
<1>1. WayInOrder'
  BY DEF WayInOrder
<1>2. ASSUME NEW i \in DOMAIN Way
      PROVE  /\ Way[i][2] <= pushes'[Way[i][1]]
             /\ Busy(Way[i][1])' => Way[i][2] < pushes'[Way[i][1]]
  <2>1. PICK g \in Pushers, n \in Nat : g = Way[i][1] /\ n = Way[i][2]
    BY WayType
  <2>2. n <= pushes[g] /\ (Busy(g) => n < pushes[g]) /\ pushes[g] \in Nat
    BY <2>1, WayType DEF NotAhead
  <2>3. n <= pushes'[g] /\ (Busy(g)' => n < pushes'[g])
    BY <2>2
  <2> QED
    BY <2>1, <2>3 DEF Busy
<1> QED
  BY <1>1, <1>2 DEF NotAhead, Busy

\* The message that g is pushing goes in.
LEMMA AcceptKeeps ==
    ASSUME TypeOK, NotAhead, WayInOrder, NEW g \in Pushers, Busy(g), ~Busy(g)',
           writeCh' = Append(writeCh, <<g, pushes[g]>>),
           UNCHANGED <<wire, pushes>>,
           \A h \in Pushers : h # g => (Busy(h)' <=> Busy(h))
    PROVE  NotAhead' /\ WayInOrder'
<1>1. <<g, pushes[g]>> \in Pushers \X Nat /\ pushes[g] \in Nat
  BY WayType
<1>2. /\ Way \in Seq(Pushers \X Nat)
      /\ DOMAIN Way = 1..Len(Way) /\ Len(Way) \in Nat
      /\ DOMAIN Way' = 1..(Len(Way) + 1)
      /\ \A i \in DOMAIN Way : Way'[i] = Way[i]
      /\ Way'[Len(Way) + 1] = <<g, pushes[g]>>
  <2>1. Append(writeCh, <<g, pushes[g]>>) \in Seq(Pushers \X Nat)
    BY <1>1, WayType
  <2> QED
    BY <1>1, <2>1, WayType, TrailType, TrailAppend DEF Way
<1>3. \A i \in DOMAIN Way' : i \in DOMAIN Way \/ i = Len(Way) + 1
  BY <1>2
<1>4. \A i \in DOMAIN Way : Way[i][1] = g => Way[i][2] < pushes[g]
  BY DEF NotAhead
<1>5. ASSUME NEW i \in DOMAIN Way'
      PROVE  /\ Way'[i][2] <= pushes[Way'[i][1]]
             /\ pc'[Way'[i][1]] \in {"push", "drop", "again"} =>
                  Way'[i][2] < pushes[Way'[i][1]]
  <2>1. CASE i \in DOMAIN Way
    <3>1. PICK h \in Pushers, n \in Nat : h = Way[i][1] /\ n = Way[i][2]
      BY <2>1, WayType
    <3>2. n <= pushes[h] /\ (Busy(h) => n < pushes[h])
      BY <2>1, <3>1 DEF NotAhead
    <3>3. Busy(h)' => Busy(h)
      OBVIOUS
    <3>4. Way'[i][1] = h /\ Way'[i][2] = n
      BY <1>2, <2>1, <3>1
    <3> QED
      BY <3>2, <3>3, <3>4 DEF Busy
  <2>2. CASE i = Len(Way) + 1
    BY <1>1, <1>2, <2>2 DEF Busy
  <2> QED
    BY <1>3, <2>1, <2>2
<1>6. WayInOrder'
  <2> SUFFICES ASSUME NEW i \in DOMAIN Way', NEW j \in DOMAIN Way', i < j,
                      Way'[i][1] = Way'[j][1]
               PROVE  Way'[i][2] < Way'[j][2]
    BY DEF WayInOrder
  <2>1. i \in DOMAIN Way
    BY <1>2
  <2>2. CASE j \in DOMAIN Way
    BY <1>2, <2>1, <2>2 DEF WayInOrder
  <2>3. CASE j = Len(Way) + 1
    BY <1>2, <1>4, <2>1, <2>3
  <2> QED
    BY <1>3, <2>2, <2>3
<1> QED
  BY <1>5, <1>6 DEF NotAhead, Busy

\* Every step of the abstract channel keeps the order of the messages.
LEMMA ChannelKeepsOrder ==
    TypeOK /\ NotAhead /\ WayInOrder /\ [Lossy!Next]_Lossy!vars => NotAhead' /\ WayInOrder'
<1> SUFFICES ASSUME TypeOK, NotAhead, WayInOrder, [Lossy!Next]_Lossy!vars
             PROVE  NotAhead' /\ WayInOrder'
  OBVIOUS
<1> DEFINE busy == [h \in Pushers |-> pc[h] \in {"push", "drop", "again"}]
<1>b. \A h \in Pushers : (busy[h] <=> Busy(h)) /\ (busy'[h] <=> Busy(h)')
  BY DEF Busy
<1>d. DOMAIN busy = Pushers /\ DOMAIN busy' = Pushers /\ DOMAIN pushes = Pushers
  BY DEF TypeOK
<1>1. ASSUME NEW g \in Pushers, Lossy!Offer(g) PROVE NotAhead' /\ WayInOrder'
  <2>1. /\ pushes' = [pushes EXCEPT ![g] = @ + 1] /\ busy' = [busy EXCEPT ![g] = TRUE]
        /\ UNCHANGED <<writeCh, wire>>
    BY <1>1 DEF Lossy!Offer
  <2> HIDE DEF busy
  <2>2. \A h \in Pushers : \/ pushes'[h] = pushes[h] /\ (Busy(h)' => Busy(h))
                           \/ pushes'[h] = pushes[h] + 1
    BY <1>b, <1>d, <2>1
  <2> QED
    BY <2>1, <2>2, SameWayKeeps DEF Way
<1>2. ASSUME NEW g \in Pushers, Lossy!Accept(g) PROVE NotAhead' /\ WayInOrder'
  <2>1. /\ busy[g] /\ busy' = [busy EXCEPT ![g] = FALSE]
        /\ writeCh' = Append(writeCh, <<g, pushes[g]>>) /\ UNCHANGED <<pushes, wire>>
    BY <1>2 DEF Lossy!Accept
  <2> HIDE DEF busy
  <2>2. Busy(g) /\ ~Busy(g)' /\ \A h \in Pushers : h # g => (Busy(h)' <=> Busy(h))
    BY <1>b, <1>d, <2>1
  <2> QED
    BY <2>1, <2>2, AcceptKeeps
<1>3. ASSUME NEW g \in Pushers, Lossy!Discard(g) PROVE NotAhead' /\ WayInOrder'
  <2>1. busy' = [busy EXCEPT ![g] = FALSE] /\ UNCHANGED <<pushes, writeCh, wire>>
    BY <1>3 DEF Lossy!Discard
  <2> HIDE DEF busy
  <2>2. \A h \in Pushers : pushes'[h] = pushes[h] /\ (Busy(h)' => Busy(h))
    BY <1>b, <1>d, <2>1
  <2> QED
    BY <2>1, <2>2, SameWayKeeps DEF Way
<1>4. CASE (\E g \in Pushers : Lossy!Evict(g) \/ Lossy!MeetFull(g)) \/ Lossy!ReaderEnds
  <2>1. /\ busy' = busy /\ UNCHANGED <<pushes, wire>>
        /\ writeCh' = writeCh \/ (writeCh # <<>> /\ writeCh' = Tail(writeCh))
    BY <1>4 DEF Lossy!Evict, Lossy!MeetFull, Lossy!ReaderEnds
  <2> HIDE DEF busy
  <2>2. \A h \in Pushers : Busy(h)' <=> Busy(h)
    BY <1>b, <2>1
  <2>3. CASE writeCh' = writeCh
    BY <2>1, <2>2, <2>3, SameWayKeeps DEF Way
  <2>4. CASE writeCh # <<>> /\ writeCh' = Tail(writeCh)
    BY <2>1, <2>2, <2>4, DropKeeps
  <2> QED
    BY <2>1, <2>3, <2>4
<1>5. CASE Lossy!Deliver
  <2>1. /\ busy' = busy /\ pushes' = pushes /\ writeCh # <<>>
        /\ wire' = Append(wire, Head(writeCh)) /\ writeCh' = Tail(writeCh)
    BY <1>5 DEF Lossy!Deliver
  <2>2. Way' = Way
    BY <2>1, WayType, TrailMove DEF Way
  <2> HIDE DEF busy
  <2>3. \A h \in Pushers : pushes'[h] = pushes[h] /\ (Busy(h)' => Busy(h))
    BY <1>b, <2>1
  <2> QED
    BY <2>2, <2>3, SameWayKeeps
<1>6. CASE UNCHANGED Lossy!vars
  <2>1. busy' = busy /\ UNCHANGED <<pushes, writeCh, wire>>
    BY <1>6 DEF Lossy!vars
  <2> HIDE DEF busy
  <2>2. \A h \in Pushers : pushes'[h] = pushes[h] /\ (Busy(h)' => Busy(h))
    BY <1>b, <2>1
  <2> QED
    BY <2>1, <2>2, SameWayKeeps DEF Way
<1> QED
  BY <1>1, <1>2, <1>3, <1>4, <1>5, <1>6 DEF Lossy!Next

\* The peer gets the answers of the reader loop and the events of the forwarder
\* each in order and none twice, although their pushes evict and discard
\* messages: every step of the handler is one of the channel, and the channel
\* keeps the order.
THEOREM WireOrdered == Spec => []WireInOrder
<1>1. Init => NotAhead /\ WayInOrder
  <2>1. Init => DOMAIN Way = {}
    BY DEF Init, Way
  <2> QED
    BY <2>1 DEF NotAhead, WayInOrder
<1>2. WayInOrder => WireInOrder
  BY DEF WayInOrder, Way, WireInOrder, Lossy!ReceivedInOrder, Lossy!Trail
<1> QED
  BY <1>1, <1>2, InitType, NextType, NextRefines, ChannelKeepsOrder, PTL DEF Spec
------------------------------------------------------------------------------
(* "subscribed" is the first message of the reader loop: until it is in the    *)
(* channel nothing else can be, because the forwarder is not started, and what *)
(* is evicted or written afterwards only shortens the channel at its head.     *)

Mark == <<"reader", 1>>

Fresh == pushes["reader"] = 0 \/ (pushes["reader"] = 1 /\ Busy("reader"))

FirstInv ==
    /\ pushes["reader"] = 0 => pc["reader"] = "read"
    /\ Fresh => wire = <<>> /\ writeCh = <<>> /\ pc["forwarder"] = "off"
    /\ \A i \in DOMAIN wire : wire[i] = Mark => i = 1
    /\ \A i \in DOMAIN writeCh : writeCh[i] = Mark => i = 1 /\ wire = <<>>

LEMMA InitFirst == Init => FirstInv
  BY DEF Init, FirstInv, Fresh, Busy, Pushers

\* A message is put at the end of the channel.
LEMMA AppendFirst ==
  ASSUME TypeOK, FirstInv, NEW g \in Pushers, Busy(g),
         writeCh' = Append(writeCh, Pushed(g)), pc' = AfterPush(g),
         UNCHANGED <<pushes, wire>>
  PROVE  FirstInv'
<1> USE DEF Pushers
<1>1. pushes["reader"] \in Nat /\ pushes["reader"] # 0
  <2>1. pushes["reader"] \in Nat BY WSAssumption DEF TypeOK, WSAssumption
  <2>2. CASE g = "reader" BY <2>1, <2>2 DEF FirstInv, Busy
  <2>3. CASE g = "forwarder" BY <2>1, <2>3 DEF FirstInv, Busy, Fresh
  <2> QED BY <2>1, <2>2, <2>3
<1>2. g = "reader" => ~Fresh' BY <1>1 DEF Fresh, Busy, AfterPush, TypeOK
<1>3. g = "forwarder" => ~Fresh BY DEF FirstInv, Busy
<1>4. g = "forwarder" => ~Fresh'
  BY <1>1, <1>3 DEF Fresh, Busy, AfterPush, TypeOK
<1>5. writeCh \in Seq(Pushers \X Nat) BY DEF TypeOK
<1>6. Pushed(g) = Mark => Fresh BY DEF Pushed, Mark, Fresh, FirstInv
<1>7. ASSUME NEW i \in DOMAIN writeCh', writeCh'[i] = Mark PROVE i = 1 /\ wire = <<>>
  <2>1. CASE i \in DOMAIN writeCh BY <1>5, <1>7, <2>1 DEF FirstInv
  <2>2. CASE i = Len(writeCh) + 1
    <3>1. Pushed(g) = Mark BY <1>5, <1>7, <2>2
    <3> QED BY <1>6, <2>2, <3>1 DEF FirstInv
  <2> QED BY <1>5, <2>1, <2>2
<1> QED BY <1>1, <1>2, <1>4, <1>7 DEF FirstInv

\* The channel loses its head, to the wire or altogether, or stays as it is, and
\* whoever pushes goes on.
LEMMA TailFirst ==
  ASSUME TypeOK, FirstInv,
         writeCh' = writeCh \/ (writeCh # <<>> /\ writeCh' = Tail(writeCh)),
         \/ wire' = wire
         \/ writeCh # <<>> /\ wire' = Append(wire, Head(writeCh)) /\ writeCh' = Tail(writeCh),
         Fresh' => Fresh, Fresh => pc'["forwarder"] = "off",
         pushes'["reader"] = 0 => pc'["reader"] = "read"
  PROVE  FirstInv'
<1>1. writeCh \in Seq(Pushers \X Nat) /\ wire \in Seq(Pushers \X Nat) BY DEF TypeOK
<1>2. Fresh' => wire' = <<>> /\ writeCh' = <<>> /\ pc'["forwarder"] = "off"
  BY DEF FirstInv
<1>3. \A i \in DOMAIN writeCh' : writeCh'[i] = Mark =>
         i = 1 /\ wire = <<>> /\ writeCh' = writeCh
  <2>1. CASE writeCh' = writeCh BY <2>1 DEF FirstInv
  <2>2. CASE writeCh # <<>> /\ writeCh' = Tail(writeCh)
    <3>1. ASSUME NEW i \in DOMAIN writeCh' PROVE writeCh'[i] # Mark
      <4>1. i \in Nat \ {0} /\ i + 1 \in DOMAIN writeCh /\ writeCh'[i] = writeCh[i + 1]
        BY <1>1, <2>2, <3>1
      <4> QED BY <4>1 DEF FirstInv
    <3> QED BY <3>1
  <2> QED BY <2>1, <2>2
<1>4. CASE wire' = wire BY <1>2, <1>3, <1>4 DEF FirstInv
<1>5. CASE writeCh # <<>> /\ wire' = Append(wire, Head(writeCh)) /\ writeCh' = Tail(writeCh)
  <2>1. \A i \in DOMAIN writeCh' : writeCh'[i] # Mark
    <3>1. writeCh' # writeCh
      <4>1. Len(Tail(writeCh)) = Len(writeCh) - 1 /\ Len(writeCh) \in Nat BY <1>1, <1>5
      <4> QED BY <4>1, <1>5
    <3> QED BY <1>3, <3>1
  <2>2. ASSUME NEW i \in DOMAIN wire', wire'[i] = Mark PROVE i = 1
    <3>1. CASE i \in DOMAIN wire
      <4>1. wire'[i] = wire[i] BY <1>1, <1>5, <3>1
      <4> QED BY <2>2, <3>1, <4>1 DEF FirstInv
    <3>2. CASE i = Len(wire) + 1
      <4>1. wire'[i] = writeCh[1] /\ 1 \in DOMAIN writeCh BY <1>1, <1>5, <3>2
      <4>2. wire = <<>> BY <2>2, <4>1 DEF FirstInv
      <4> QED BY <3>2, <4>2
    <3>3. i \in DOMAIN wire \/ i = Len(wire) + 1 BY <1>1, <1>5
    <3> QED BY <3>1, <3>2, <3>3
  <2> QED BY <1>2, <2>1, <2>2 DEF FirstInv
<1> QED BY <1>4, <1>5

LEMMA NextFirst == TypeOK /\ FirstInv /\ [Next]_vars => FirstInv'
<1> SUFFICES ASSUME TypeOK, FirstInv, [Next]_vars PROVE FirstInv' OBVIOUS
<1>p. "reader" \in Pushers /\ "forwarder" \in Pushers BY DEF Pushers
<1>n. pushes["reader"] \in Nat
  BY <1>p, WSAssumption DEF TypeOK, WSAssumption
<1>1. ASSUME NEW g \in Pushers, PushNow(g) PROVE FirstInv'
  BY <1>1, AppendFirst DEF PushNow, Busy
<1>2. ASSUME NEW g \in Pushers, PushFull(g) \/ PushDrop(g) PROVE FirstInv'
  <2>1. /\ writeCh' = writeCh \/ (writeCh # <<>> /\ writeCh' = Tail(writeCh))
        /\ wire' = wire /\ pushes' = pushes
    BY <1>2 DEF PushFull, PushDrop
  <2>2. Busy(g) /\ Busy(g)' /\ \A h \in Pushers : h # g => pc'[h] = pc[h]
    BY <1>2 DEF PushFull, PushDrop, Busy, TypeOK
  <2>3. Fresh' => Fresh BY <1>p, <2>1, <2>2 DEF Fresh, Busy
  <2>4. Fresh => pc'["forwarder"] = "off" BY <1>p, <2>2 DEF FirstInv, Busy
  <2>5. pushes'["reader"] = 0 => pc'["reader"] = "read"
    BY <1>p, <2>1, <2>2 DEF FirstInv, Busy
  <2> QED BY <2>1, <2>3, <2>4, <2>5, TailFirst
<1>3. ASSUME NEW g \in Pushers, PushAgain(g) PROVE FirstInv'
  <2>1. CASE Len(writeCh) < Cap BY <1>3, <2>1, AppendFirst DEF PushAgain, Busy
  <2>2. CASE ~(Len(writeCh) < Cap)
    <3>1. /\ UNCHANGED <<writeCh, wire, pushes>> /\ pc' = AfterPush(g)
      BY <1>3, <2>2 DEF PushAgain
    <3>2. ~Fresh
      <4>1. Fresh => Len(writeCh) = 0 BY DEF FirstInv
      <4> QED BY <2>2, <4>1, WSAssumption DEF WSAssumption
    <3>3. pushes["reader"] # 0 BY <3>2 DEF Fresh
    <3>4. pc'["reader"] = pc["reader"] \/ ~Busy("reader")'
      BY <1>p, <3>1 DEF AfterPush, Busy, TypeOK, Pushers
    <3>5. ~Fresh' BY <3>1, <3>2, <3>3, <3>4 DEF Fresh, Busy
    <3> QED BY <3>1, <3>2, <3>3, <3>5, TailFirst
  <2> QED BY <2>1, <2>2
<1>4. CASE ReadMessage
  <2>1. /\ pc["reader"] = "read" /\ UNCHANGED <<writeCh, wire>>
        /\ pushes'["reader"] = pushes["reader"] + 1 /\ pc'["reader"] = "push"
        /\ pc'["forwarder"] = pc["forwarder"]
    BY <1>4, <1>p DEF ReadMessage, StartPush, TypeOK
  <2>2. Fresh' => Fresh BY <1>n, <2>1 DEF Fresh
  <2>3. pushes'["reader"] # 0 BY <1>n, <2>1
  <2> QED BY <2>1, <2>2, <2>3, TailFirst DEF FirstInv
<1>5. CASE ForwardEvent
  <2>1. /\ pc["forwarder"] = "read" /\ UNCHANGED <<writeCh, wire>>
        /\ pushes'["reader"] = pushes["reader"] /\ pc'["reader"] = pc["reader"]
    BY <1>5, <1>p DEF ForwardEvent, StartPush, TypeOK
  <2>2. Fresh' => Fresh BY <2>1 DEF Fresh, Busy
  <2>3. ~Fresh BY <2>1 DEF FirstInv
  <2> QED BY <2>1, <2>2, <2>3, TailFirst DEF FirstInv
<1>6. CASE ReadError \/ HandlerReturn
  <2>1. /\ UNCHANGED <<pushes, writeCh, wire>>
        /\ ~Busy("reader") /\ ~Busy("reader")' /\ pc'["forwarder"] = pc["forwarder"]
        /\ pushes["reader"] # 0
    BY <1>6, <1>p, <1>n DEF ReadError, HandlerReturn, Busy, TypeOK, FirstInv
  <2> QED BY <2>1, TailFirst DEF FirstInv, Fresh
<1>7. CASE ForwarderDone
  <2>1. /\ UNCHANGED <<pushes, writeCh, wire>> /\ pc["forwarder"] = "read"
        /\ pc'["reader"] = pc["reader"]
    BY <1>7, <1>p DEF ForwarderDone, TypeOK
  <2>2. (Fresh' <=> Fresh) /\ ~Fresh BY <2>1 DEF Fresh, Busy, FirstInv
  <2> QED BY <2>1, <2>2, TailFirst DEF FirstInv
<1>8. CASE WriteJSON \/ WriteFails \/ WriterDone
  <2>1. UNCHANGED <<pc, pushes>> BY <1>8 DEF WriteJSON, WriteFails, WriterDone
  <2>2. Fresh' <=> Fresh BY <2>1 DEF Fresh, Busy
  <2> QED BY <1>8, <2>1, <2>2, TailFirst DEF FirstInv, WriteJSON, WriteFails, WriterDone
<1>9. CASE UNCHANGED vars
  BY <1>9, TailFirst DEF vars, FirstInv, Fresh, Busy
<1> QED
  BY <1>1, <1>2, <1>3, <1>4, <1>5, <1>6, <1>7, <1>8, <1>9 DEF Next, Push

\* The peer is told "subscribed" before anything else, for every capacity: when it
\* is on the wire or in the channel, nothing is before it.
THEOREM SubscribedComesFirst == Spec => []SubscribedFirst
<1>1. TypeOK /\ FirstInv => SubscribedFirst
  <2> SUFFICES ASSUME TypeOK, FirstInv, NEW i \in DOMAIN (wire \o writeCh),
                      (wire \o writeCh)[i] = Mark
               PROVE  i = 1
    BY DEF SubscribedFirst, Mark
  <2>1. writeCh \in Seq(Pushers \X Nat) /\ wire \in Seq(Pushers \X Nat) BY DEF TypeOK
  <2>2. CASE i <= Len(wire)
    <3>1. i \in DOMAIN wire /\ (wire \o writeCh)[i] = wire[i] BY <2>1, <2>2
    <3> QED BY <3>1 DEF FirstInv
  <2>3. CASE i > Len(wire)
    <3>1. /\ i - Len(wire) \in DOMAIN writeCh
          /\ (wire \o writeCh)[i] = writeCh[i - Len(wire)]
      BY <2>1, <2>3
    <3>2. i - Len(wire) = 1 /\ Len(wire) = 0 BY <3>1 DEF FirstInv
    <3> QED BY <2>1, <3>2
  <2> QED BY <2>1, <2>2, <2>3
<1> QED BY <1>1, InitType, NextType, InitFirst, NextFirst, PTL DEF Spec
==============================================================================
