----------------------- MODULE UserInteractionProofs -----------------------
EXTENDS UserInteraction, TLAPS

\* Head and Tail of a nonempty sequence, Append, and what they do to lengths.
LEMMA HeadTailFacts ==
    ASSUME NEW S, NEW q \in Seq(S), q # <<>>
    PROVE  /\ Head(q) \in S
           /\ Tail(q) \in Seq(S)
           /\ Len(q) \in Nat \ {0}
           /\ Len(Tail(q)) = Len(q) - 1
  OBVIOUS

LEMMA AppendFacts ==
    ASSUME NEW S, NEW q \in Seq(S), NEW e \in S
    PROVE  Append(q, e) \in Seq(S) /\ Len(Append(q, e)) = Len(q) + 1 /\ Len(q) \in Nat
  OBVIOUS

LEMMA ElementFacts ==
    ASSUME NEW S, NEW q \in Seq(S), NEW i \in DOMAIN q
    PROVE  q[i] \in S
  OBVIOUS

\* EnsureId always yields a proper id: once a call has touched the session, its
\* id is not empty.
LEMMA EnsureIdFacts ==
    ASSUME SessionType, NEW id \in Ids \cup {NoId}
    PROVE  EnsureId(id) \in AllIds /\ EnsureId(id) # NoId
  BY IdsAssumption DEF EnsureId, SessionType, AllIds

\* The UI sync calls an operation queues are well formed.
LEMMA SyncCallTypes ==
    ASSUME NEW n \in Nat
    PROVE  /\ <<WaitingOn>> \in Seq(SyncCall)
           /\ <<WaitingOff>> \in Seq(SyncCall)
           /\ <<WaitingOn, WaitingOff>> \in Seq(SyncCall)
           /\ <<UserAccepted(n)>> \in Seq(SyncCall)
           /\ <<AssistantOutput(n)>> \in Seq(SyncCall)
<1>1. {WaitingOn, WaitingOff, UserAccepted(n), AssistantOutput(n)} \subseteq SyncCall
  BY DEF WaitingOn, WaitingOff, UserAccepted, AssistantOutput, SyncCall
<1> QED
  BY <1>1

\* A function on 1..n is a sequence.
LEMMA FunctionIsSeq ==
    ASSUME NEW S, NEW n \in Nat, NEW f \in [1..n -> S]
    PROVE  f \in Seq(S)
  OBVIOUS

\* What a subscriber takes from the session is a sequence of events.
LEMMA DrainType ==
    ASSUME SessionType, NEW id \in AllIds
    PROVE  /\ <<WaitState(id)>> \in Seq(Event)
           /\ <<WaitState(id)>> \o
              [i \in DOMAIN outputQueue |-> AssistantMessage(outputQueue[i])] \in Seq(Event)
<1>1. WaitState(id) \in Event
  BY DEF WaitState, Event, SessionType
<1>2. \A i \in DOMAIN outputQueue : AssistantMessage(outputQueue[i]) \in Event
  <2> SUFFICES ASSUME NEW i \in DOMAIN outputQueue
               PROVE  AssistantMessage(outputQueue[i]) \in Event
    OBVIOUS
  <2>1. outputQueue[i] \in [msg : Nat, id : AllIds]
    BY ElementFacts DEF SessionType
  <2>2. outputQueue[i].msg \in Nat /\ outputQueue[i].id \in AllIds
    BY <2>1
  <2> QED
    BY <2>2 DEF AssistantMessage, Event
<1>3. [i \in DOMAIN outputQueue |-> AssistantMessage(outputQueue[i])] \in Seq(Event)
  <2>1. DOMAIN outputQueue = 1..Len(outputQueue) /\ Len(outputQueue) \in Nat
    BY DEF SessionType
  <2> HIDE DEF Event
  <2> QED
    BY <1>2, <2>1, FunctionIsSeq
<1> QED
  BY <1>1, <1>3

\* One step preserves the types.
LEMMA TypeStep == TypeOK /\ [Next]_vars => TypeOK'
<1> SUFFICES ASSUME TypeOK, [Next]_vars PROVE TypeOK'
  OBVIOUS
<1> USE CapAssumption, ProcsDisjoint
<1>1. ASSUME NEW g \in Procs, Enter(g) PROVE TypeOK'
  <2>1. SessionType'
    BY <1>1, EnsureIdFacts DEF TypeOK, SessionType, Enter, session, Message, ProcType
  <2>2. ProcType'
    BY <1>1, SyncCallTypes, <2>1 DEF TypeOK, ProcType, Listening, Procs, Enter, SessionType
  <2>3. SubType'
    BY <1>1 DEF TypeOK, SubType, ProcType, Procs, Enter, subVars
  <2> QED
    BY <2>1, <2>2, <2>3 DEF TypeOK
<1>2. ASSUME NEW g \in Procs, SyncReturn(g) PROVE TypeOK'
  <2>1. SessionType'
    BY <1>2, EnsureIdFacts DEF TypeOK, SessionType, SyncReturn, session, Message, ProcType
  <2>2. ProcType'
    BY <1>2, SyncCallTypes, <2>1 DEF TypeOK, ProcType, Listening, Procs, SyncReturn, SessionType
  <2>3. SubType'
    BY <1>2 DEF TypeOK, SubType, ProcType, Procs, SyncReturn, subVars
  <2> QED
    BY <2>1, <2>2, <2>3 DEF TypeOK
<1>3. ASSUME NEW g \in Waiters, WaitForInputPop(g) PROVE TypeOK'
  <2>1. SessionType'
    <3>1. Head(inputQueue) \in Nat /\ Tail(inputQueue) \in Seq(Nat)
      BY <1>3, HeadTailFacts DEF TypeOK, SessionType, WaitForInputPop
    <3>2. Append(delivered, Head(inputQueue)) \in Seq(Nat)
      BY <3>1, AppendFacts DEF TypeOK, SessionType
    <3> QED
      BY <1>3, <3>1, <3>2, EnsureIdFacts DEF TypeOK, SessionType, WaitForInputPop
  <2>2. ProcType'
    BY <1>3, SyncCallTypes, <2>1 DEF TypeOK, ProcType, Listening, Procs, notifyLocked, WaitForInputPop, SessionType
  <2>3. SubType'
    BY <1>3 DEF TypeOK, SubType, ProcType, Procs, WaitForInputPop, subVars
  <2> QED
    BY <2>1, <2>2, <2>3 DEF TypeOK
<1>4. ASSUME NEW g \in Waiters, WaitForInputClosed(g) PROVE TypeOK'
  <2>1. SessionType'
    BY <1>4, EnsureIdFacts DEF TypeOK, SessionType, WaitForInputClosed, session, Message, ProcType
  <2>2. ProcType'
    BY <1>4, SyncCallTypes, <2>1 DEF TypeOK, ProcType, Listening, Procs, notifyLocked, WaitForInputClosed, SessionType
  <2>3. SubType'
    BY <1>4 DEF TypeOK, SubType, ProcType, Procs, WaitForInputClosed, subVars
  <2> QED
    BY <2>1, <2>2, <2>3 DEF TypeOK
<1>5. ASSUME NEW g \in Waiters, WaitForInputPark(g) PROVE TypeOK'
  <2>1. SessionType'
    BY <1>5, EnsureIdFacts DEF TypeOK, SessionType, WaitForInputPark, StartWaiting, session, Message, ProcType
  <2>2. ProcType'
    BY <1>5, SyncCallTypes, <2>1 DEF TypeOK, ProcType, Listening, Procs, notifyLocked, WaitForInputPark, StartWaiting, SessionType
  <2>3. SubType'
    BY <1>5 DEF TypeOK, SubType, ProcType, Procs, WaitForInputPark, StartWaiting, subVars
  <2> QED
    BY <2>1, <2>2, <2>3 DEF TypeOK
<1>6. ASSUME NEW g \in Waiters, WaitForInputCancel(g) PROVE TypeOK'
  <2>1. SessionType'
    BY <1>6, EnsureIdFacts DEF TypeOK, SessionType, WaitForInputCancel, LeaveCancelled, session, Message, ProcType
  <2>2. ProcType'
    BY <1>6, SyncCallTypes, <2>1 DEF TypeOK, ProcType, Listening, Procs, notifyLocked, WaitForInputCancel, LeaveCancelled, SessionType
  <2>3. SubType'
    BY <1>6 DEF TypeOK, SubType, ProcType, Procs, WaitForInputCancel, LeaveCancelled, subVars
  <2> QED
    BY <2>1, <2>2, <2>3 DEF TypeOK
<1>7. ASSUME NEW g \in Waiters, WaitForInputCtxDone(g) PROVE TypeOK'
  <2>1. SessionType'
    BY <1>7, EnsureIdFacts DEF TypeOK, SessionType, WaitForInputCtxDone, session, Message, ProcType
  <2>2. ProcType'
    BY <1>7, SyncCallTypes, <2>1 DEF TypeOK, ProcType, Listening, Procs, notifyLocked, WaitForInputCtxDone, SessionType
  <2>3. SubType'
    BY <1>7 DEF TypeOK, SubType, ProcType, Procs, WaitForInputCtxDone, subVars
  <2> QED
    BY <2>1, <2>2, <2>3 DEF TypeOK
<1>8. ASSUME NEW g \in Waiters \cup Pollers, Wake(g) PROVE TypeOK'
  <2>1. SessionType'
    BY <1>8, EnsureIdFacts DEF TypeOK, SessionType, Wake, session, Message, ProcType
  <2>2. ProcType'
    BY <1>8, SyncCallTypes, <2>1 DEF TypeOK, ProcType, Listening, Procs, Wake, SessionType
  <2>3. SubType'
    BY <1>8 DEF TypeOK, SubType, ProcType, Procs, Wake, subVars
  <2> QED
    BY <2>1, <2>2, <2>3 DEF TypeOK
<1>9. ASSUME NEW g \in Pollers, WaitReturn(g) PROVE TypeOK'
  <2>1. SessionType'
    BY <1>9, EnsureIdFacts DEF TypeOK, SessionType, WaitReturn, session, Message, ProcType
  <2>2. ProcType'
    BY <1>9, SyncCallTypes, <2>1 DEF TypeOK, ProcType, Listening, Procs, WaitReturn, SessionType
  <2>3. SubType'
    BY <1>9 DEF TypeOK, SubType, ProcType, Procs, WaitReturn, subVars
  <2> QED
    BY <2>1, <2>2, <2>3 DEF TypeOK
<1>10. ASSUME NEW g \in Pollers, WaitPark(g) PROVE TypeOK'
  <2>1. SessionType'
    BY <1>10, EnsureIdFacts DEF TypeOK, SessionType, WaitPark, session, Message, ProcType
  <2>2. ProcType'
    BY <1>10, SyncCallTypes, <2>1 DEF TypeOK, ProcType, Listening, Procs, WaitPark, SessionType
  <2>3. SubType'
    BY <1>10 DEF TypeOK, SubType, ProcType, Procs, WaitPark, subVars
  <2> QED
    BY <2>1, <2>2, <2>3 DEF TypeOK
<1>11. ASSUME NEW g \in Pollers, WaitTimeout(g) PROVE TypeOK'
  <2>1. SessionType'
    BY <1>11, EnsureIdFacts DEF TypeOK, SessionType, WaitTimeout, session, Message, ProcType
  <2>2. ProcType'
    BY <1>11, SyncCallTypes, <2>1 DEF TypeOK, ProcType, Listening, Procs, WaitTimeout, SessionType
  <2>3. SubType'
    BY <1>11 DEF TypeOK, SubType, ProcType, Procs, WaitTimeout, subVars
  <2> QED
    BY <2>1, <2>2, <2>3 DEF TypeOK
<1>12. ASSUME NEW g \in Callers, Send(g) PROVE TypeOK'
  <2>1. SessionType'
    <3>1. PICK id \in Ids \cup {NoId} :
             /\ interactionID' = EnsureId(id)
             /\ conversation' = Append(conversation,
                                       [role |-> "user", id |-> EnsureId(id)])
      BY <1>12 DEF Send, AcceptInput, Enqueue
    <3>2. EnsureId(id) \in AllIds
      BY EnsureIdFacts DEF TypeOK
    <3>3. conversation' \in Seq(Message)
      BY <3>1, <3>2, AppendFacts DEF TypeOK, SessionType, Message
    <3>4. inputQueue' \in Seq(Nat)
      BY <1>12 DEF Send, AcceptInput, Enqueue, TypeOK, SessionType
    <3> QED
      BY <1>12, <3>1, <3>2, <3>3, <3>4 DEF TypeOK, SessionType, Send, AcceptInput, Enqueue
  <2>2. ProcType'
    BY <1>12, SyncCallTypes, <2>1 DEF TypeOK, ProcType, Listening, Procs, notifyLocked, Send, AcceptInput, Enqueue, SessionType
  <2>3. SubType'
    BY <1>12 DEF TypeOK, SubType, ProcType, Procs, Send, AcceptInput, Enqueue, subVars
  <2> QED
    BY <2>1, <2>2, <2>3 DEF TypeOK
<1>13. ASSUME NEW g \in Callers, SendRejected(g) PROVE TypeOK'
  <2>1. SessionType'
    BY <1>13, EnsureIdFacts DEF TypeOK, SessionType, SendRejected, session, Message, ProcType
  <2>2. ProcType'
    BY <1>13, SyncCallTypes, <2>1 DEF TypeOK, ProcType, Listening, Procs, notifyLocked, SendRejected, SessionType
  <2>3. SubType'
    BY <1>13 DEF TypeOK, SubType, ProcType, Procs, SendRejected, subVars
  <2> QED
    BY <2>1, <2>2, <2>3 DEF TypeOK
<1>14. ASSUME NEW g \in Callers, PublishOutput(g) PROVE TypeOK'
  <2>1. SessionType'
    BY <1>14, EnsureIdFacts DEF TypeOK, SessionType, PublishOutput, Enqueue, session, Message, ProcType
  <2>2. ProcType'
    BY <1>14, SyncCallTypes, <2>1 DEF TypeOK, ProcType, Listening, Procs, notifyLocked, PublishOutput, Enqueue, SessionType
  <2>3. SubType'
    BY <1>14 DEF TypeOK, SubType, ProcType, Procs, PublishOutput, Enqueue, subVars
  <2> QED
    BY <2>1, <2>2, <2>3 DEF TypeOK
<1>15. ASSUME NEW g \in Callers, Close(g) PROVE TypeOK'
  <2>1. SessionType'
    BY <1>15, EnsureIdFacts DEF TypeOK, SessionType, Close, session, Message, ProcType
  <2>2. ProcType'
    BY <1>15, SyncCallTypes, <2>1 DEF TypeOK, ProcType, Listening, Procs, notifyLocked, Close, SessionType
  <2>3. SubType'
    BY <1>15 DEF TypeOK, SubType, ProcType, Procs, Close, subVars
  <2> QED
    BY <2>1, <2>2, <2>3 DEF TypeOK
<1>16. ASSUME NEW g \in Callers, persistConversation(g) PROVE TypeOK'
  <2>1. SessionType'
    BY <1>16, EnsureIdFacts DEF TypeOK, SessionType, persistConversation, session, Message, ProcType
  <2>2. ProcType'
    BY <1>16, SyncCallTypes, <2>1 DEF TypeOK, ProcType, Listening, Procs, notifyLocked, persistConversation, SessionType
  <2>3. SubType'
    BY <1>16 DEF TypeOK, SubType, ProcType, Procs, persistConversation, subVars
  <2> QED
    BY <2>1, <2>2, <2>3 DEF TypeOK
<1>17. ASSUME NEW g \in Subscribers, SubscribeDrain(g) PROVE TypeOK'
  <2>1. SessionType'
    BY <1>17, EnsureIdFacts DEF TypeOK, SessionType, SubscribeDrain, SubscribeRead, session, Message, ProcType
  <2>2. ProcType'
    BY <1>17, SyncCallTypes, <2>1 DEF TypeOK, ProcType, Listening, Procs, SubscribeDrain, SubscribeRead, SessionType
  <2>3. SubType'
    BY <1>17, EnsureIdFacts, DrainType DEF TypeOK, SubType, ProcType, Procs, SubscribeDrain, SubscribeRead, subVars, Event, IsMessage
  <2> QED
    BY <2>1, <2>2, <2>3 DEF TypeOK
<1>18. ASSUME NEW g \in Subscribers, PushEvent(g) PROVE TypeOK'
  <2>1. SessionType'
    BY <1>18, EnsureIdFacts DEF TypeOK, SessionType, PushEvent, session, Message, ProcType
  <2>2. ProcType'
    BY <1>18, SyncCallTypes, <2>1 DEF TypeOK, ProcType, Listening, Procs, PushEvent, SessionType
  <2>3. SubType'
    <3>1. Head(taken[g]) \in Event /\ Tail(taken[g]) \in Seq(Event)
      BY <1>18, HeadTailFacts DEF TypeOK, SubType, PushEvent
    <3>2. /\ Append(out[g], Head(taken[g])) \in Seq(Event)
          /\ Len(Append(out[g], Head(taken[g]))) <= OutCap
      BY <1>18, <3>1, AppendFacts DEF TypeOK, SubType, PushEvent
    <3>3. pc'[g] # "drop" /\ pc' = pc
      BY <1>18 DEF PushEvent
    <3> QED
      BY <1>18, <3>1, <3>2, <3>3 DEF TypeOK, SubType, PushEvent
  <2> QED
    BY <2>1, <2>2, <2>3 DEF TypeOK
<1>19. ASSUME NEW g \in Subscribers, PushFull(g) PROVE TypeOK'
  <2>1. SessionType'
    BY <1>19, EnsureIdFacts DEF TypeOK, SessionType, PushFull, session, Message, ProcType
  <2>2. ProcType'
    BY <1>19, SyncCallTypes, <2>1 DEF TypeOK, ProcType, Listening, Procs, PushFull, SessionType
  <2>3. SubType'
    BY <1>19 DEF TypeOK, SubType, ProcType, Procs, PushFull, subVars, Event, IsMessage
  <2> QED
    BY <2>1, <2>2, <2>3 DEF TypeOK
<1>20. ASSUME NEW g \in Subscribers, PushDropOldest(g) PROVE TypeOK'
  <2>1. SessionType'
    BY <1>20, EnsureIdFacts DEF TypeOK, SessionType, PushDropOldest, session, Message, ProcType
  <2>2. ProcType'
    BY <1>20, SyncCallTypes, <2>1 DEF TypeOK, ProcType, Listening, Procs, PushDropOldest, SessionType
  <2>3. SubType'
    <3>0. taken[g] \in Seq(Event) /\ taken[g] # <<>> /\ out[g] \in Seq(Event) /\ Len(out[g]) <= OutCap
      <4>1. pc[g] = "drop"
        BY <1>20 DEF PushDropOldest
      <4> QED
        BY <4>1 DEF TypeOK, SubType
    <3>1. Head(taken[g]) \in Event /\ Tail(taken[g]) \in Seq(Event)
      BY <3>0, HeadTailFacts
    <3> DEFINE rest == IF out[g] = <<>> THEN out[g] ELSE Tail(out[g])
    <3>2. rest \in Seq(Event) /\ Len(rest) < OutCap
      <4>1. CASE out[g] = <<>>
        BY <3>0, <4>1
      <4>2. CASE out[g] # <<>>
        BY <3>0, <4>2, HeadTailFacts
      <4> QED
        BY <4>1, <4>2
    <3>3. Append(rest, Head(taken[g])) \in Seq(Event) /\ Len(Append(rest, Head(taken[g]))) <= OutCap
      BY <3>1, <3>2, AppendFacts
    <3>4. lost' \subseteq Nat
      <4>1. CASE out[g] # <<>> /\ IsMessage(Head(out[g]))
        <5>1. Head(out[g]) \in Event
          BY <4>1, HeadTailFacts DEF TypeOK, SubType
        <5>2. Head(out[g]).msg \in Nat
          BY <4>1, <5>1 DEF Event, IsMessage
        <5> QED
          BY <1>20, <4>1, <5>2 DEF PushDropOldest, TypeOK, SubType
      <4>2. CASE ~(out[g] # <<>> /\ IsMessage(Head(out[g])))
        BY <1>20, <4>2 DEF PushDropOldest, TypeOK, SubType
      <4> QED
        BY <4>1, <4>2
    <3>5. \A s \in Subscribers : s # g => pc'[s] = pc[s]
      BY <1>20 DEF PushDropOldest, TypeOK, ProcType, Procs
    <3>6. pc'[g] # "drop"
      BY <1>20 DEF PushDropOldest, TypeOK, ProcType, Procs
    <3>7. out' = [out EXCEPT ![g] = Append(rest, Head(taken[g]))]
      BY <1>20 DEF PushDropOldest, TypeOK, SubType
    <3> HIDE DEF rest
    <3> QED
      BY <1>20, <3>1, <3>3, <3>4, <3>5, <3>6, <3>7 DEF TypeOK, SubType, PushDropOldest
  <2> QED
    BY <2>1, <2>2, <2>3 DEF TypeOK
<1>21. ASSUME NEW g \in Subscribers, SubscribeWake(g) PROVE TypeOK'
  <2>1. SessionType'
    BY <1>21, EnsureIdFacts DEF TypeOK, SessionType, SubscribeWake, session, Message, ProcType
  <2>2. ProcType'
    BY <1>21, SyncCallTypes, <2>1 DEF TypeOK, ProcType, Listening, Procs, SubscribeWake, SessionType
  <2>3. SubType'
    BY <1>21 DEF TypeOK, SubType, ProcType, Procs, SubscribeWake, subVars, Event, IsMessage
  <2> QED
    BY <2>1, <2>2, <2>3 DEF TypeOK
<1>22. ASSUME NEW g \in Subscribers, SubscribeCtxDone(g) PROVE TypeOK'
  <2>1. SessionType'
    BY <1>22, EnsureIdFacts DEF TypeOK, SessionType, SubscribeCtxDone, session, Message, ProcType
  <2>2. ProcType'
    BY <1>22, SyncCallTypes, <2>1 DEF TypeOK, ProcType, Listening, Procs, SubscribeCtxDone, SessionType
  <2>3. SubType'
    BY <1>22 DEF TypeOK, SubType, ProcType, Procs, SubscribeCtxDone, subVars, Event, IsMessage
  <2> QED
    BY <2>1, <2>2, <2>3 DEF TypeOK
<1>23. ASSUME NEW g \in Subscribers, Receive(g) PROVE TypeOK'
  <2>1. SessionType'
    BY <1>23, EnsureIdFacts DEF TypeOK, SessionType, Receive, session, Message, ProcType
  <2>2. ProcType'
    BY <1>23, SyncCallTypes, <2>1 DEF TypeOK, ProcType, Listening, Procs, Receive, SessionType
  <2>3. SubType'
    <3>0. out[g] \in Seq(Event) /\ out[g] # <<>> /\ Len(out[g]) <= OutCap
      <4>1. out[g] # <<>>
        BY <1>23 DEF Receive
      <4> QED
        BY <4>1 DEF TypeOK, SubType
    <3>1. /\ Head(out[g]) \in Event /\ Tail(out[g]) \in Seq(Event)
          /\ Len(Tail(out[g])) <= OutCap
      BY <3>0, HeadTailFacts
    <3>2. seen' \in [Subscribers -> Seq(Nat)]
      <4>1. CASE IsMessage(Head(out[g]))
        <5>1. Head(out[g]).msg \in Nat
          BY <3>1, <4>1 DEF Event, IsMessage
        <5>2. Append(seen[g], Head(out[g]).msg) \in Seq(Nat)
          BY <5>1, AppendFacts DEF TypeOK, SubType
        <5> QED
          BY <1>23, <4>1, <5>2 DEF Receive, TypeOK, SubType
      <4>2. CASE ~IsMessage(Head(out[g]))
        BY <1>23, <4>2 DEF Receive, TypeOK, SubType
      <4> QED
        BY <4>1, <4>2
    <3>3. UNCHANGED <<taken, told, lost, pc>> /\ out' = [out EXCEPT ![g] = Tail(out[g])]
      BY <1>23 DEF Receive
    <3>4. out' \in [Subscribers -> Seq(Event)] /\ \A s \in Subscribers : Len(out'[s]) <= OutCap
      BY <3>1, <3>3 DEF TypeOK, SubType
    <3>5. \A s \in Subscribers : pc'[s] = "drop" => taken'[s] # <<>>
      BY <3>3 DEF TypeOK, SubType
    <3> QED
      BY <3>2, <3>3, <3>4, <3>5 DEF TypeOK, SubType
  <2> QED
    BY <2>1, <2>2, <2>3 DEF TypeOK
<1>24. CASE UNCHANGED vars
  BY <1>24 DEF TypeOK, SessionType, ProcType, SubType, Listening, vars, session, subVars
<1> QED
  BY <1>1, <1>2, <1>3, <1>4, <1>5, <1>6, <1>7, <1>8, <1>9, <1>10, <1>11, <1>12, <1>13, <1>14, <1>15, <1>16, <1>17, <1>18, <1>19, <1>20, <1>21, <1>22, <1>23, <1>24 DEF Next, WaiterRun, PollerRun, SubscriberRun, CallerRun

(* Notification. *)

\* The strengthening the proofs need: a subscription that holds a channel has
\* already given the session its id, so no later call assigns one silently.
SubscribedHasId ==
    \A s \in Subscribers : pc[s] \in {"push", "drop"} => interactionID # NoId

NotifyInv == /\ WaiterNotMissed
             /\ PollerNotMissed
             /\ SubscriberCurrent
             /\ SubscribedHasId
             /\ WaitingIsReal

\* One step preserves NotifyInv: whatever changes the state a parked goroutine
\* looked at also closes the channel it captured.
LEMMA NotifyStep == TypeOK /\ NotifyInv /\ [Next]_vars => NotifyInv'
<1> SUFFICES ASSUME TypeOK, NotifyInv, [Next]_vars PROVE NotifyInv'
  OBVIOUS
<1> USE ProcsDisjoint DEF NotifyInv, WaiterNotMissed, PollerNotMissed, SubscriberCurrent,
        SubscribedHasId, WaitingIsReal, WaitState
<1>1. ASSUME NEW g \in Procs, Enter(g) PROVE NotifyInv'
  BY <1>1, EnsureIdFacts DEF TypeOK, SessionType, ProcType, SubType, Listening, Procs, Enter, session, subVars
<1>2. ASSUME NEW g \in Procs, SyncReturn(g) PROVE NotifyInv'
  BY <1>2, EnsureIdFacts DEF TypeOK, SessionType, ProcType, SubType, Listening, Procs, SyncReturn, session, subVars
<1>3. ASSUME NEW g \in Waiters, WaitForInputPop(g) PROVE NotifyInv'
  BY <1>3, EnsureIdFacts DEF TypeOK, SessionType, ProcType, SubType, Listening, Procs, WaitForInputPop, notifyLocked, EnsureId, session, subVars
<1>4. ASSUME NEW g \in Waiters, WaitForInputClosed(g) PROVE NotifyInv'
  BY <1>4, EnsureIdFacts DEF TypeOK, SessionType, ProcType, SubType, Listening, Procs, WaitForInputClosed, notifyLocked, EnsureId, session, subVars
<1>5. ASSUME NEW g \in Waiters, WaitForInputPark(g) PROVE NotifyInv'
  BY <1>5, EnsureIdFacts DEF TypeOK, SessionType, ProcType, SubType, Listening, Procs, WaitForInputPark, StartWaiting, notifyLocked, EnsureId, session, subVars
<1>6. ASSUME NEW g \in Waiters, WaitForInputCancel(g) PROVE NotifyInv'
  BY <1>6, EnsureIdFacts DEF TypeOK, SessionType, ProcType, SubType, Listening, Procs, WaitForInputCancel, LeaveCancelled, notifyLocked, EnsureId, session, subVars
<1>7. ASSUME NEW g \in Waiters, WaitForInputCtxDone(g) PROVE NotifyInv'
  BY <1>7, EnsureIdFacts DEF TypeOK, SessionType, ProcType, SubType, Listening, Procs, WaitForInputCtxDone, EnsureId, session, subVars
<1>8. ASSUME NEW g \in Waiters \cup Pollers, Wake(g) PROVE NotifyInv'
  BY <1>8, EnsureIdFacts DEF TypeOK, SessionType, ProcType, SubType, Listening, Procs, Wake, session, subVars
<1>9. ASSUME NEW g \in Pollers, WaitReturn(g) PROVE NotifyInv'
  BY <1>9, EnsureIdFacts DEF TypeOK, SessionType, ProcType, SubType, Listening, Procs, WaitReturn, EnsureId, session, subVars
<1>10. ASSUME NEW g \in Pollers, WaitPark(g) PROVE NotifyInv'
  BY <1>10, EnsureIdFacts DEF TypeOK, SessionType, ProcType, SubType, Listening, Procs, WaitPark, EnsureId, session, subVars
<1>11. ASSUME NEW g \in Pollers, WaitTimeout(g) PROVE NotifyInv'
  BY <1>11, EnsureIdFacts DEF TypeOK, SessionType, ProcType, SubType, Listening, Procs, WaitTimeout, EnsureId, session, subVars
<1>12. ASSUME NEW g \in Callers, Send(g) PROVE NotifyInv'
  BY <1>12, EnsureIdFacts DEF TypeOK, SessionType, ProcType, SubType, Listening, Procs, Send, AcceptInput, Enqueue, notifyLocked, session, subVars
<1>13. ASSUME NEW g \in Callers, SendRejected(g) PROVE NotifyInv'
  BY <1>13, EnsureIdFacts DEF TypeOK, SessionType, ProcType, SubType, Listening, Procs, SendRejected, session, subVars
<1>14. ASSUME NEW g \in Callers, PublishOutput(g) PROVE NotifyInv'
  BY <1>14, EnsureIdFacts DEF TypeOK, SessionType, ProcType, SubType, Listening, Procs, PublishOutput, Enqueue, notifyLocked, session, subVars
<1>15. ASSUME NEW g \in Callers, Close(g) PROVE NotifyInv'
  BY <1>15, EnsureIdFacts DEF TypeOK, SessionType, ProcType, SubType, Listening, Procs, Close, notifyLocked, session, subVars
<1>16. ASSUME NEW g \in Callers, persistConversation(g) PROVE NotifyInv'
  BY <1>16, EnsureIdFacts DEF TypeOK, SessionType, ProcType, SubType, Listening, Procs, persistConversation, session, subVars
<1>17. ASSUME NEW g \in Subscribers, SubscribeDrain(g) PROVE NotifyInv'
  <2>1. /\ pc' = [pc EXCEPT ![g] = "push"] /\ DOMAIN pc = Procs
        /\ told' = [told EXCEPT ![g] = <<WaitState(EnsureId(NoId))>>] /\ DOMAIN told = Subscribers
        /\ interactionID' = EnsureId(NoId) /\ outputQueue' = <<>>
        /\ UNCHANGED <<closed, waiting, inputQueue, woken>>
    BY <1>17 DEF TypeOK, ProcType, SubType, SubscribeDrain, SubscribeRead
  <2>2. EnsureId(NoId) # NoId /\ (interactionID # NoId => EnsureId(NoId) = interactionID)
    BY IdsAssumption DEF EnsureId
  <2>3. WaiterNotMissed' /\ PollerNotMissed' /\ WaitingIsReal'
    BY <2>1, <1>17 DEF Procs
  <2>4. SubscriberCurrent'
    BY <2>1, <2>2, <1>17 DEF Procs
  <2>5. SubscribedHasId'
    BY <2>1, <2>2
  <2> QED
    BY <2>3, <2>4, <2>5
<1>18. ASSUME NEW g \in Subscribers, PushEvent(g) PROVE NotifyInv'
  BY <1>18, EnsureIdFacts DEF TypeOK, SessionType, ProcType, SubType, Listening, Procs, PushEvent, session, subVars
<1>19. ASSUME NEW g \in Subscribers, PushFull(g) PROVE NotifyInv'
  BY <1>19, EnsureIdFacts DEF TypeOK, SessionType, ProcType, SubType, Listening, Procs, PushFull, session, subVars
<1>20. ASSUME NEW g \in Subscribers, PushDropOldest(g) PROVE NotifyInv'
  BY <1>20, EnsureIdFacts DEF TypeOK, SessionType, ProcType, SubType, Listening, Procs, PushDropOldest, session, subVars
<1>21. ASSUME NEW g \in Subscribers, SubscribeWake(g) PROVE NotifyInv'
  BY <1>21, EnsureIdFacts DEF TypeOK, SessionType, ProcType, SubType, Listening, Procs, SubscribeWake, session, subVars
<1>22. ASSUME NEW g \in Subscribers, SubscribeCtxDone(g) PROVE NotifyInv'
  BY <1>22, EnsureIdFacts DEF TypeOK, SessionType, ProcType, SubType, Listening, Procs, SubscribeCtxDone, session, subVars
<1>23. ASSUME NEW g \in Subscribers, Receive(g) PROVE NotifyInv'
  BY <1>23, EnsureIdFacts DEF TypeOK, SessionType, ProcType, SubType, Listening, Procs, Receive, session, subVars
<1>24. CASE UNCHANGED vars
  BY <1>24 DEF vars, session, subVars
<1> QED
  BY <1>1, <1>2, <1>3, <1>4, <1>5, <1>6, <1>7, <1>8, <1>9, <1>10, <1>11, <1>12, <1>13, <1>14, <1>15, <1>16, <1>17, <1>18, <1>19, <1>20, <1>21, <1>22, <1>23, <1>24 DEF Next, WaiterRun, PollerRun, SubscriberRun, CallerRun



(* Inputs. *)

\* Moving the head of the queue to the end of what was delivered changes nothing
\* in the whole.
LEMMA PopConcat ==
    ASSUME NEW d \in Seq(Nat), NEW q \in Seq(Nat), q # <<>>
    PROVE  Append(d, Head(q)) \o Tail(q) = d \o q
  OBVIOUS

LEMMA AppendConcat ==
    ASSUME NEW d \in Seq(Nat), NEW q \in Seq(Nat), NEW e \in Nat
    PROVE  d \o Append(q, e) = Append(d \o q, e)
  OBVIOUS

\* Appending a number above all elements keeps a sequence increasing.
LEMMA AppendIncreasing ==
    ASSUME NEW a \in Seq(Nat), NEW e \in Nat,
           \A i, j \in DOMAIN a : i < j => a[i] < a[j],
           \A i \in DOMAIN a : a[i] < e
    PROVE  /\ \A i, j \in DOMAIN Append(a, e) : i < j => Append(a, e)[i] < Append(a, e)[j]
           /\ SeqElems(Append(a, e)) = SeqElems(a) \cup {e}
<1>1. /\ DOMAIN Append(a, e) = 1..(Len(a) + 1)
      /\ DOMAIN a = 1..Len(a)
      /\ Len(a) \in Nat
      /\ \A i \in 1..Len(a) : Append(a, e)[i] = a[i]
      /\ Append(a, e)[Len(a) + 1] = e
  OBVIOUS
<1>2. \A i, j \in DOMAIN Append(a, e) : i < j => Append(a, e)[i] < Append(a, e)[j]
  <2> SUFFICES ASSUME NEW i \in 1..(Len(a) + 1), NEW j \in 1..(Len(a) + 1), i < j
               PROVE  Append(a, e)[i] < Append(a, e)[j]
    BY <1>1
  <2>1. i \in 1..Len(a)
    BY <1>1
  <2>2. CASE j \in 1..Len(a)
    BY <1>1, <2>1, <2>2
  <2>3. CASE j = Len(a) + 1
    BY <1>1, <2>1, <2>3
  <2> QED
    BY <1>1, <2>2, <2>3
<1>3. SeqElems(Append(a, e)) = SeqElems(a) \cup {e}
  BY <1>1 DEF SeqElems
<1> QED
  BY <1>2, <1>3

\* What appending a message does to the Seq numbers of the user's messages.
LEMMA UserSeqsAppend ==
    ASSUME SessionType, NEW m \in Message, conversation' = Append(conversation, m)
    PROVE  /\ UserSeqs' = IF m.role = "user" THEN UserSeqs \cup {Len(conversation) + 1}
                                             ELSE UserSeqs
           /\ \A i \in UserSeqs : i \in Nat /\ i < Len(conversation) + 1
<1>1. /\ DOMAIN conversation' = 1..(Len(conversation) + 1)
      /\ DOMAIN conversation = 1..Len(conversation)
      /\ Len(conversation) \in Nat
      /\ \A i \in 1..Len(conversation) : conversation'[i] = conversation[i]
      /\ conversation'[Len(conversation) + 1] = m
  BY DEF SessionType
<1> QED
  BY <1>1 DEF UserSeqs

\* One step preserves the order and the completeness of the inputs.
LEMMA InputsStep ==
    TypeOK /\ InputsExactlyOnceInOrder /\ [Next]_vars => InputsExactlyOnceInOrder'
<1> SUFFICES ASSUME TypeOK, InputsExactlyOnceInOrder, [Next]_vars
             PROVE  InputsExactlyOnceInOrder'
  OBVIOUS
<1> DEFINE all == delivered \o inputQueue
<1>1. delivered \in Seq(Nat) /\ inputQueue \in Seq(Nat) /\ all \in Seq(Nat)
  BY DEF TypeOK, SessionType
<1>2. ASSUME UNCHANGED <<conversation, delivered, inputQueue>>
      PROVE  InputsExactlyOnceInOrder'
  BY <1>2 DEF InputsExactlyOnceInOrder, UserSeqs, SeqElems
<1>3. ASSUME NEW w \in Waiters, WaitForInputPop(w) PROVE InputsExactlyOnceInOrder'
  <2>1. delivered' \o inputQueue' = all
    BY <1>1, <1>3, PopConcat DEF WaitForInputPop
  <2>2. UserSeqs' = UserSeqs
    BY <1>3 DEF WaitForInputPop, UserSeqs
  <2> QED
    BY <2>1, <2>2 DEF InputsExactlyOnceInOrder, SeqElems
<1>4. ASSUME NEW c \in Callers, Send(c) PROVE InputsExactlyOnceInOrder'
  <2> DEFINE n == Len(conversation) + 1
  <2>1. PICK id \in Ids \cup {NoId} :
           conversation' = Append(conversation, [role |-> "user", id |-> EnsureId(id)])
    BY <1>4 DEF Send, AcceptInput, Enqueue
  <2>2. [role |-> "user", id |-> EnsureId(id)] \in Message
    BY EnsureIdFacts DEF TypeOK, Message
  <2>3. UserSeqs' = UserSeqs \cup {n} /\ \A i \in UserSeqs : i < n
    BY <2>1, <2>2, UserSeqsAppend DEF TypeOK
  <2>4. n \in Nat
    BY DEF TypeOK, SessionType
  <2>5. delivered' \o inputQueue' = Append(all, n)
    BY <1>1, <1>4, <2>4, AppendConcat DEF Send, AcceptInput, Enqueue
  <2>6. \A i \in DOMAIN all : all[i] < n
    BY <2>3 DEF InputsExactlyOnceInOrder, SeqElems
  <2>7. \A i, j \in DOMAIN all : i < j => all[i] < all[j]
    BY DEF InputsExactlyOnceInOrder
  <2> HIDE DEF n, all
  <2>8. /\ \A i, j \in DOMAIN Append(all, n) : i < j => Append(all, n)[i] < Append(all, n)[j]
        /\ SeqElems(Append(all, n)) = SeqElems(all) \cup {n}
    BY <1>1, <2>4, <2>6, <2>7, AppendIncreasing
  <2>9. SeqElems(all) = UserSeqs
    BY DEF all, InputsExactlyOnceInOrder
  <2>10. SeqElems(delivered' \o inputQueue') = UserSeqs'
    BY <2>3, <2>5, <2>8, <2>9
  <2> QED
    BY <2>5, <2>8, <2>10 DEF InputsExactlyOnceInOrder, SeqElems
<1>5. ASSUME NEW c \in Callers, PublishOutput(c) PROVE InputsExactlyOnceInOrder'
  <2>1. PICK id \in Ids \cup {NoId} :
           conversation' = Append(conversation, [role |-> "assistant", id |-> EnsureId(id)])
    BY <1>5 DEF PublishOutput, Enqueue
  <2>2. [role |-> "assistant", id |-> EnsureId(id)] \in Message
    BY EnsureIdFacts DEF TypeOK, Message
  <2>3. UserSeqs' = UserSeqs
    BY <2>1, <2>2, UserSeqsAppend DEF TypeOK
  <2>4. UNCHANGED <<delivered, inputQueue>>
    BY <1>5 DEF PublishOutput, Enqueue
  <2> QED
    BY <2>3, <2>4 DEF InputsExactlyOnceInOrder, SeqElems
<1>6. \/ UNCHANGED <<conversation, delivered, inputQueue>>
      \/ \E w \in Waiters : WaitForInputPop(w)
      \/ \E c \in Callers : Send(c) \/ PublishOutput(c)
  BY DEF Next, WaiterRun, PollerRun, SubscriberRun, CallerRun, vars, session, Enter, SyncReturn, WaitForInputClosed, WaitForInputPark, StartWaiting, WaitForInputCancel, LeaveCancelled, WaitForInputCtxDone, Wake, WaitReturn, WaitPark, WaitTimeout, SendRejected, Close, persistConversation, SubscribeDrain, SubscribeRead, PushEvent, PushFull, PushDropOldest, SubscribeWake, SubscribeCtxDone, Receive
<1> QED
  BY <1>2, <1>3, <1>4, <1>5, <1>6

(* Outputs. *)

\* What the Seq numbers of the assistant's messages become when a message is
\* appended to the conversation.
LEMMA AssistantSeqsAppend ==
    ASSUME SessionType, NEW m \in Message, conversation' = Append(conversation, m)
    PROVE  /\ AssistantSeqs' = IF m.role = "assistant"
                               THEN AssistantSeqs \cup {Len(conversation) + 1}
                               ELSE AssistantSeqs
           /\ \A i \in AssistantSeqs : i \in Nat /\ i < Len(conversation) + 1
<1>1. /\ DOMAIN conversation' = 1..(Len(conversation) + 1)
      /\ DOMAIN conversation = 1..Len(conversation)
      /\ Len(conversation) \in Nat
      /\ \A i \in 1..Len(conversation) : conversation'[i] = conversation[i]
      /\ conversation'[Len(conversation) + 1] = m
  BY DEF SessionType
<1> QED
  BY <1>1 DEF AssistantSeqs

\* The message of an event, as a set: none for a wait state.
MsgOf(e) == IF IsMessage(e) THEN {e.msg} ELSE {}

\* Taking the oldest event off a channel takes its message, and no other, off
\* the messages in the channel, and leaves the rest in order behind it.
LEMMA EventsTail ==
    ASSUME NEW evs \in Seq(Event), evs # <<>>, MsgsIncrease(evs)
    PROVE  /\ MsgsOf(evs) = MsgOf(Head(evs)) \cup MsgsOf(Tail(evs))
           /\ \A n \in MsgOf(Head(evs)), m \in MsgsOf(Tail(evs)) : n < m
           /\ MsgsIncrease(Tail(evs))
<1> DEFINE t == Tail(evs)
<1>1. /\ Len(evs) \in Nat \ {0} /\ DOMAIN evs = 1..Len(evs)
      /\ DOMAIN t = 1..(Len(evs) - 1)
      /\ \A i \in 1..(Len(evs) - 1) : t[i] = evs[i + 1]
      /\ Head(evs) = evs[1]
  OBVIOUS
<1> HIDE DEF t
<1>2. MsgsIncrease(t)
  <2> SUFFICES ASSUME NEW i \in DOMAIN t, NEW j \in DOMAIN t, i < j,
                      IsMessage(t[i]), IsMessage(t[j])
               PROVE  t[i].msg < t[j].msg
    BY DEF MsgsIncrease
  <2>1. i + 1 \in DOMAIN evs /\ j + 1 \in DOMAIN evs /\ i + 1 < j + 1
        /\ t[i] = evs[i + 1] /\ t[j] = evs[j + 1]
    BY <1>1
  <2> QED
    BY <2>1 DEF MsgsIncrease
<1>3. \A n \in MsgOf(Head(evs)), m \in MsgsOf(t) : n < m
  <2> SUFFICES ASSUME IsMessage(evs[1]), NEW j \in DOMAIN t, IsMessage(t[j])
               PROVE  evs[1].msg < t[j].msg
    BY <1>1 DEF MsgOf, MsgsOf
  <2>1. 1 \in DOMAIN evs /\ j + 1 \in DOMAIN evs /\ 1 < j + 1 /\ t[j] = evs[j + 1]
    BY <1>1
  <2> QED
    BY <2>1 DEF MsgsIncrease
<1>4. \A m : m \in MsgsOf(evs) <=> m \in MsgOf(Head(evs)) \cup MsgsOf(t)
  <2> SUFFICES ASSUME NEW m PROVE m \in MsgsOf(evs) <=> m \in MsgOf(Head(evs)) \cup MsgsOf(t)
    OBVIOUS
  <2>1. ASSUME NEW i \in DOMAIN evs, IsMessage(evs[i]), m = evs[i].msg
        PROVE  m \in MsgOf(Head(evs)) \cup MsgsOf(t)
    <3>1. CASE i = 1
      BY <1>1, <2>1, <3>1 DEF MsgOf
    <3>2. CASE i # 1
      <4>1. i - 1 \in DOMAIN t /\ t[i - 1] = evs[i]
        BY <1>1, <3>2
      <4> QED
        BY <2>1, <4>1 DEF MsgsOf
    <3> QED
      BY <3>1, <3>2
  <2>2. ASSUME NEW i \in DOMAIN t, IsMessage(t[i]), m = t[i].msg
        PROVE  m \in MsgsOf(evs)
    <3>1. i + 1 \in DOMAIN evs /\ t[i] = evs[i + 1]
      BY <1>1
    <3> QED
      BY <2>2, <3>1 DEF MsgsOf
  <2>3. ASSUME m \in MsgOf(Head(evs)) PROVE m \in MsgsOf(evs)
    <3>1. 1 \in DOMAIN evs
      BY <1>1
    <3> QED
      BY <1>1, <2>3, <3>1 DEF MsgOf, MsgsOf
  <2>4. m \in MsgsOf(evs) => \E i \in DOMAIN evs : IsMessage(evs[i]) /\ m = evs[i].msg
    BY DEF MsgsOf
  <2>5. m \in MsgsOf(t) => \E i \in DOMAIN t : IsMessage(t[i]) /\ m = t[i].msg
    BY DEF MsgsOf
  <2> QED
    BY <2>1, <2>2, <2>3, <2>4, <2>5
<1> QED
  BY <1>2, <1>3, <1>4 DEF t

\* Appending an event adds its message to the messages in the channel, in order
\* when that message is younger than the others.
LEMMA EventsAppend ==
    ASSUME NEW evs \in Seq(Event), NEW e \in Event, MsgsIncrease(evs),
           \A n \in MsgsOf(evs), m \in MsgOf(e) : n < m
    PROVE  /\ MsgsOf(Append(evs, e)) = MsgsOf(evs) \cup MsgOf(e)
           /\ MsgsIncrease(Append(evs, e))
<1> DEFINE a == Append(evs, e)
           l == Len(evs)
<1>1. /\ l \in Nat /\ DOMAIN evs = 1..l /\ DOMAIN a = 1..(l + 1)
      /\ \A i \in 1..l : a[i] = evs[i]
      /\ a[l + 1] = e
  OBVIOUS
<1> HIDE DEF a, l
<1>2. MsgsIncrease(a)
  <2> SUFFICES ASSUME NEW i \in DOMAIN a, NEW j \in DOMAIN a, i < j,
                      IsMessage(a[i]), IsMessage(a[j])
               PROVE  a[i].msg < a[j].msg
    BY DEF MsgsIncrease
  <2>1. i \in 1..l /\ i \in DOMAIN evs /\ a[i] = evs[i]
    BY <1>1
  <2>2. CASE j \in 1..l
    <3>1. j \in DOMAIN evs /\ a[j] = evs[j]
      BY <1>1, <2>2
    <3> QED
      BY <2>1, <3>1 DEF MsgsIncrease
  <2>3. CASE j = l + 1
    <3>1. evs[i].msg \in MsgsOf(evs) /\ e.msg \in MsgOf(e)
      BY <1>1, <2>1, <2>3 DEF MsgsOf, MsgOf
    <3> QED
      BY <1>1, <2>1, <2>3, <3>1
  <2> QED
    BY <1>1, <2>2, <2>3
<1>3. \A m : m \in MsgsOf(a) <=> m \in MsgsOf(evs) \cup MsgOf(e)
  <2> SUFFICES ASSUME NEW m PROVE m \in MsgsOf(a) <=> m \in MsgsOf(evs) \cup MsgOf(e)
    OBVIOUS
  <2>1. m \in MsgsOf(a) <=> \E i \in DOMAIN a : IsMessage(a[i]) /\ m = a[i].msg
    BY DEF MsgsOf
  <2>2. m \in MsgsOf(evs) <=> \E i \in DOMAIN evs : IsMessage(evs[i]) /\ m = evs[i].msg
    BY DEF MsgsOf
  <2>3. DOMAIN a = DOMAIN evs \cup {l + 1} /\ \A i \in DOMAIN evs : a[i] = evs[i]
    BY <1>1
  <2> QED
    BY <1>1, <2>1, <2>2, <2>3 DEF MsgOf
<1> QED
  BY <1>2, <1>3 DEF a

LEMMA EventsEmpty == MsgsOf(<<>>) = {} /\ MsgsIncrease(<<>>)
  BY DEF MsgsOf, MsgsIncrease

LEMMA ConsFacts ==
    ASSUME NEW S, NEW h \in S, NEW f \in Seq(S)
    PROVE  /\ DOMAIN (<<h>> \o f) = 1..(Len(f) + 1)
           /\ (<<h>> \o f)[1] = h
           /\ \A i \in 1..Len(f) : (<<h>> \o f)[i + 1] = f[i]
  OBVIOUS

QueueInOrder ==
    \A i, j \in DOMAIN outputQueue : i < j => outputQueue[i].msg < outputQueue[j].msg

\* What Subscribe takes out of the session is the wait state and then the queued
\* outputs, all of them and in their order.
LEMMA DrainFacts ==
    ASSUME SessionType, QueueInOrder, NEW id,
           NEW evs, evs = <<WaitState(id)>> \o
                          [i \in DOMAIN outputQueue |-> AssistantMessage(outputQueue[i])]
    PROVE  MsgsOf(evs) = Queued /\ MsgsIncrease(evs)
<1> DEFINE f == [i \in DOMAIN outputQueue |-> AssistantMessage(outputQueue[i])]
           l == Len(outputQueue)
<1>1. l \in Nat /\ DOMAIN outputQueue = 1..l
  BY DEF SessionType
<1>2. \A i \in 1..l : IsMessage(f[i]) /\ f[i].msg = outputQueue[i].msg
  BY <1>1 DEF AssistantMessage, IsMessage
<1> DEFINE S == {WaitState(id)} \cup {AssistantMessage(outputQueue[i]) : i \in 1..l}
<1>3. f \in Seq(S) /\ Len(f) = l /\ WaitState(id) \in S
  BY <1>1
<1>4. ~IsMessage(WaitState(id))
  BY DEF WaitState, IsMessage
<1> HIDE DEF f, l, S
<1>5. /\ DOMAIN evs = 1..(l + 1)
      /\ evs[1] = WaitState(id)
      /\ \A i \in 1..l : evs[i + 1] = f[i]
  <2>1. evs = <<WaitState(id)>> \o f
    BY DEF f
  <2> QED
    BY <1>1, <1>3, <2>1, ConsFacts
<1>6. \A k \in DOMAIN evs : IsMessage(evs[k]) =>
        k - 1 \in 1..l /\ evs[k].msg = outputQueue[k - 1].msg
  <2> SUFFICES ASSUME NEW k \in DOMAIN evs, IsMessage(evs[k])
               PROVE  k - 1 \in 1..l /\ evs[k].msg = outputQueue[k - 1].msg
    OBVIOUS
  <2>1. k # 1
    BY <1>4, <1>5
  <2>2. k - 1 \in 1..l /\ k = (k - 1) + 1
    BY <1>1, <1>5, <2>1
  <2> QED
    BY <1>2, <1>5, <2>2
<1>7. MsgsIncrease(evs)
  <2> SUFFICES ASSUME NEW i \in DOMAIN evs, NEW j \in DOMAIN evs, i < j,
                      IsMessage(evs[i]), IsMessage(evs[j])
               PROVE  evs[i].msg < evs[j].msg
    BY DEF MsgsIncrease
  <2>1. i - 1 < j - 1
    BY <1>1, <1>5
  <2>2. /\ i - 1 \in DOMAIN outputQueue /\ evs[i].msg = outputQueue[i - 1].msg
        /\ j - 1 \in DOMAIN outputQueue /\ evs[j].msg = outputQueue[j - 1].msg
    BY <1>1, <1>6
  <2>3. outputQueue[i - 1].msg < outputQueue[j - 1].msg
    BY <2>1, <2>2 DEF QueueInOrder
  <2> QED
    BY <2>2, <2>3
<1>8. MsgsOf(evs) \subseteq Queued
  <2> SUFFICES ASSUME NEW k \in DOMAIN evs, IsMessage(evs[k]) PROVE evs[k].msg \in Queued
    BY DEF MsgsOf
  <2>1. k - 1 \in DOMAIN outputQueue /\ evs[k].msg = outputQueue[k - 1].msg
    BY <1>1, <1>6
  <2> QED
    BY <2>1 DEF Queued
<1>9. Queued \subseteq MsgsOf(evs)
  <2> SUFFICES ASSUME NEW i \in 1..l PROVE outputQueue[i].msg \in MsgsOf(evs)
    BY <1>1 DEF Queued
  <2>1. i + 1 \in DOMAIN evs /\ evs[i + 1] = f[i]
    BY <1>1, <1>5
  <2> QED
    BY <1>2, <2>1 DEF MsgsOf
<1> QED
  BY <1>7, <1>8, <1>9

\* What a subscriber has taken is in order and younger than what has reached its
\* channel or its reader.
TakenInOrder ==
    \A s \in Subscribers :
        /\ MsgsIncrease(taken[s])
        /\ \A n \in SeqElems(seen[s]) \cup MsgsOf(out[s]), m \in MsgsOf(taken[s]) : n < m

\* What has left the session is older than what is still queued.
TrailBeforeQueue == \A s \in Subscribers : \A n \in Trail(s), m \in Queued : n < m

\* A subscriber goes back to the session with empty hands.
TakenWhilePushing == \A s \in Subscribers : taken[s] # <<>> => pc[s] \in {"push", "drop"}

OutputInv ==
    /\ OutputsConserved /\ OutputsInOrder
    /\ QueueInOrder /\ TakenInOrder /\ TrailBeforeQueue /\ TakenWhilePushing

\* A step that moves no output keeps the invariant.
LEMMA OutputFrame ==
    ASSUME OutputInv, UNCHANGED <<outputQueue, taken, out, seen, lost>>,
           AssistantSeqs' = AssistantSeqs, TakenWhilePushing'
    PROVE  OutputInv'
<1>1. Queued' = Queued /\ \A s \in Subscribers : Trail(s)' = Trail(s)
  BY DEF Queued, Trail, MsgsOf, SeqElems
<1>2. OutputsConserved'
  BY <1>1 DEF OutputInv, OutputsConserved
<1>3. OutputsInOrder' /\ TakenInOrder' /\ QueueInOrder'
  BY DEF OutputInv, OutputsInOrder, TakenInOrder, QueueInOrder, MsgsIncrease, MsgsOf, SeqElems
<1>4. TrailBeforeQueue'
  BY <1>1 DEF OutputInv, TrailBeforeQueue
<1> QED
  BY <1>2, <1>3, <1>4 DEF OutputInv

\* The part of the invariant about one subscriber, over what it has read, what is
\* in its channel and what it has taken.
SubOrder(sn, o, t) ==
    /\ \A i, j \in DOMAIN sn : i < j => sn[i] < sn[j]
    /\ MsgsIncrease(o)
    /\ MsgsIncrease(t)
    /\ \A n \in SeqElems(sn), m \in MsgsOf(o) : n < m
    /\ \A n \in SeqElems(sn) \cup MsgsOf(o), m \in MsgsOf(t) : n < m

LEMMA SubOrderIs ==
    /\ OutputsInOrder /\ TakenInOrder
         <=> \A s \in Subscribers : SubOrder(seen[s], out[s], taken[s])
    /\ OutputsInOrder' /\ TakenInOrder'
         <=> \A s \in Subscribers : SubOrder(seen'[s], out'[s], taken'[s])
<1>1. OutputsInOrder /\ TakenInOrder
         <=> \A s \in Subscribers : SubOrder(seen[s], out[s], taken[s])
  BY ZenonT(60) DEF OutputsInOrder, TakenInOrder, SubOrder
<1>2. OutputsInOrder' /\ TakenInOrder'
         <=> \A s \in Subscribers : SubOrder(seen'[s], out'[s], taken'[s])
  BY ZenonT(60) DEF OutputsInOrder, TakenInOrder, SubOrder, MsgsOf, SeqElems, MsgsIncrease
<1> QED
  BY <1>1, <1>2

\* A step of one subscriber that takes nothing from the session keeps the
\* invariant if it keeps that subscriber's order and neither invents nor forgets
\* a message, except for the ones it counts as lost.
LEMMA OutputMove ==
    ASSUME TypeOK, OutputInv, NEW g \in Subscribers,
           UNCHANGED <<outputQueue, conversation>>,
           \A s \in Subscribers \ {g} :
               seen'[s] = seen[s] /\ out'[s] = out[s] /\ taken'[s] = taken[s],
           SubOrder(seen'[g], out'[g], taken'[g]),
           NEW dropped, dropped \subseteq Trail(g),
           Trail(g)' = Trail(g) \ dropped, lost' = lost \cup dropped,
           TakenWhilePushing'
    PROVE  OutputInv'
<1>1. Queued' = Queued /\ AssistantSeqs' = AssistantSeqs
  BY DEF Queued, AssistantSeqs
<1>2. \A s \in Subscribers \ {g} : Trail(s)' = Trail(s)
  BY DEF Trail, MsgsOf, SeqElems
<1>3. \A s \in Subscribers : Trail(s)' = IF s = g THEN Trail(s) \ dropped ELSE Trail(s)
  BY <1>2
<1>4. OutputsConserved'
  <2> HIDE DEF Trail
  <2>1. \A m : (m \in lost' \/ \E s \in Subscribers : m \in Trail(s)')
               <=> (m \in lost \/ \E s \in Subscribers : m \in Trail(s))
    BY <1>3
  <2>2. (AssistantSeqs = Queued \cup lost \cup UNION {Trail(s) : s \in Subscribers})'
    <3>1. \A m : m \in AssistantSeqs
                 <=> m \in Queued \/ m \in lost \/ \E s \in Subscribers : m \in Trail(s)
      BY DEF OutputInv, OutputsConserved
    <3>2. \A m : m \in AssistantSeqs'
                 <=> m \in Queued' \/ m \in lost' \/ \E s \in Subscribers : m \in Trail(s)'
      BY <1>1, <2>1, <3>1
    <3> QED
      BY <3>2
  <2>3. (Queued \cap lost = {})'
    BY <1>1 DEF OutputInv, OutputsConserved
  <2>4. (\A s \in Subscribers : Trail(s) \cap (Queued \cup lost) = {})'
    BY <1>1, <1>3 DEF OutputInv, OutputsConserved
  <2>5. (\A s, t \in Subscribers : s # t => Trail(s) \cap Trail(t) = {})'
    BY <1>3 DEF OutputInv, OutputsConserved
  <2> QED
    BY <2>2, <2>3, <2>4, <2>5 DEF OutputsConserved
<1>5. OutputsInOrder' /\ TakenInOrder'
  <2>1. \A s \in Subscribers : SubOrder(seen[s], out[s], taken[s])
    BY SubOrderIs DEF OutputInv
  <2> HIDE DEF SubOrder
  <2>2. \A s \in Subscribers : SubOrder(seen'[s], out'[s], taken'[s])
    BY <2>1
  <2> QED
    BY <2>2, SubOrderIs
<1>6. TrailBeforeQueue'
  <2> HIDE DEF Trail
  <2> QED
    BY <1>1, <1>3 DEF OutputInv, TrailBeforeQueue
<1>7. QueueInOrder'
  BY DEF OutputInv, QueueInOrder
<1> QED
  BY <1>4, <1>5, <1>6, <1>7 DEF OutputInv

\* One step keeps the outputs conserved and in order.
LEMMA OutputStep == TypeOK /\ OutputInv /\ [Next]_vars => OutputInv'
<1> SUFFICES ASSUME TypeOK, OutputInv, [Next]_vars PROVE OutputInv'
  OBVIOUS
<1> USE ProcsDisjoint
<1>0. /\ DOMAIN pc = Procs /\ DOMAIN taken = Subscribers
      /\ DOMAIN out = Subscribers /\ DOMAIN seen = Subscribers
      /\ \A s \in Subscribers : /\ s \in Procs /\ taken[s] \in Seq(Event)
                                /\ out[s] \in Seq(Event) /\ seen[s] \in Seq(Nat)
  BY DEF TypeOK, ProcType, SubType, Procs
<1>1. \A s \in Subscribers : SubOrder(seen[s], out[s], taken[s])
  BY SubOrderIs DEF OutputInv
<1>2. ASSUME UNCHANGED <<outputQueue, taken, out, seen, lost, conversation>>,
             \A s \in Subscribers : pc'[s] # pc[s] => taken[s] = <<>> \/ pc'[s] \in {"push", "drop"}
      PROVE  OutputInv'
  <2>1. TakenWhilePushing'
    BY <1>2 DEF OutputInv, TakenWhilePushing
  <2>2. AssistantSeqs' = AssistantSeqs
    BY <1>2 DEF AssistantSeqs
  <2> QED
    BY <1>2, <2>1, <2>2, OutputFrame
<1>3. ASSUME NEW c \in Callers, Send(c) PROVE OutputInv'
  <2>1. PICK id \in Ids \cup {NoId} :
           conversation' = Append(conversation, [role |-> "user", id |-> EnsureId(id)])
    BY <1>3 DEF Send, AcceptInput
  <2>2. [role |-> "user", id |-> EnsureId(id)] \in Message
    BY EnsureIdFacts DEF TypeOK, Message
  <2>3. AssistantSeqs' = AssistantSeqs
    BY <2>1, <2>2, AssistantSeqsAppend DEF TypeOK
  <2>4. UNCHANGED <<outputQueue, taken, out, seen, lost>>
    BY <1>3 DEF Send, AcceptInput, subVars
  <2>5. TakenWhilePushing'
    BY <1>0, <1>3 DEF Send, AcceptInput, subVars, OutputInv, TakenWhilePushing
  <2> QED
    BY <2>3, <2>4, <2>5, OutputFrame
<1>4. ASSUME NEW c \in Callers, PublishOutput(c) PROVE OutputInv'
  <2>1. PICK id \in Ids \cup {NoId} :
           /\ conversation' = Append(conversation, [role |-> "assistant", id |-> EnsureId(id)])
           /\ outputQueue' = Append(outputQueue, [msg |-> Len(conversation) + 1, id |-> EnsureId(id)])
    BY <1>4 DEF PublishOutput, Enqueue
  <2>2. PICK n \in Nat : n = Len(conversation) + 1
    BY DEF TypeOK, SessionType
  <2>3. [role |-> "assistant", id |-> EnsureId(id)] \in Message /\ EnsureId(id) \in AllIds
    BY EnsureIdFacts DEF TypeOK, Message
  <2>4. AssistantSeqs' = AssistantSeqs \cup {n} /\ \A i \in AssistantSeqs : i < n
    BY <2>1, <2>2, <2>3, AssistantSeqsAppend DEF TypeOK
  <2>5. UNCHANGED <<taken, out, seen, lost>>
    BY <1>4 DEF PublishOutput, subVars
  <2>6. /\ DOMAIN outputQueue = 1..Len(outputQueue) /\ Len(outputQueue) \in Nat
        /\ DOMAIN outputQueue' = 1..(Len(outputQueue) + 1)
        /\ \A i \in 1..Len(outputQueue) : outputQueue'[i] = outputQueue[i]
        /\ outputQueue'[Len(outputQueue) + 1].msg = n
    BY <2>1, <2>2, <2>3 DEF TypeOK, SessionType
  <2>7. Queued' = Queued \cup {n}
    <3>1. DOMAIN outputQueue' = DOMAIN outputQueue \cup {Len(outputQueue) + 1}
      BY <2>6
    <3>2. \A m : m \in Queued' <=> \E i \in DOMAIN outputQueue' : m = outputQueue'[i].msg
      BY DEF Queued
    <3>3. \A m : m \in Queued <=> \E i \in DOMAIN outputQueue : m = outputQueue[i].msg
      BY DEF Queued
    <3>4. \A m : m \in Queued' <=> m \in Queued \/ m = n
      BY <2>6, <3>1, <3>2, <3>3
    <3> QED
      BY <3>4
  <2>8. \A s \in Subscribers : Trail(s)' = Trail(s)
    BY <2>5 DEF Trail, MsgsOf, SeqElems
  <2>9. \A m \in AssistantSeqs : m < n /\ m # n
    BY <2>2, <2>4 DEF AssistantSeqs
  <2>10. /\ Queued \subseteq AssistantSeqs /\ lost \subseteq AssistantSeqs
         /\ \A s \in Subscribers : Trail(s) \subseteq AssistantSeqs
    BY DEF OutputInv, OutputsConserved
  <2>11. OutputsConserved'
    BY <2>4, <2>5, <2>7, <2>8, <2>9, <2>10 DEF OutputInv, OutputsConserved
  <2>12. TrailBeforeQueue'
    BY <2>7, <2>8, <2>9, <2>10 DEF OutputInv, TrailBeforeQueue
  <2>13. QueueInOrder'
    <3> SUFFICES ASSUME NEW i \in 1..(Len(outputQueue) + 1),
                        NEW j \in 1..(Len(outputQueue) + 1), i < j
                 PROVE  outputQueue'[i].msg < outputQueue'[j].msg
      BY <2>6 DEF QueueInOrder
    <3>1. i \in 1..Len(outputQueue)
      BY <2>6
    <3>2. CASE j \in 1..Len(outputQueue)
      BY <2>6, <3>1, <3>2 DEF OutputInv, QueueInOrder
    <3>3. CASE j = Len(outputQueue) + 1
      <4>1. outputQueue[i].msg \in Queued
        BY <2>6, <3>1 DEF Queued
      <4>2. outputQueue[i].msg < n
        BY <2>9, <2>10, <4>1
      <4> QED
        BY <2>6, <3>1, <3>3, <4>2
    <3> QED
      BY <2>6, <3>2, <3>3
  <2>14. OutputsInOrder' /\ TakenInOrder'
    BY <1>1, <2>5, SubOrderIs
  <2>15. TakenWhilePushing'
    BY <1>0, <1>4, <2>5 DEF PublishOutput, OutputInv, TakenWhilePushing
  <2> QED
    BY <2>11, <2>12, <2>13, <2>14, <2>15 DEF OutputInv
<1>5. ASSUME NEW g \in Subscribers, SubscribeDrain(g) PROVE OutputInv'
  <2>1. /\ pc[g] = "lock" /\ pc' = [pc EXCEPT ![g] = "push"]
        /\ outputQueue' = <<>> /\ UNCHANGED <<conversation, out, seen, lost>>
        /\ taken' = [taken EXCEPT ![g] =
               <<WaitState(EnsureId(NoId))>> \o
               [i \in DOMAIN outputQueue |-> AssistantMessage(outputQueue[i])]]
    BY <1>5 DEF SubscribeDrain, SubscribeRead
  <2>2. taken[g] = <<>>
    BY <2>1 DEF OutputInv, TakenWhilePushing
  <2>3. MsgsOf(taken'[g]) = Queued /\ MsgsIncrease(taken'[g])
    BY <1>0, <2>1, DrainFacts DEF TypeOK, OutputInv
  <2>4. \A s \in Subscribers \ {g} : taken'[s] = taken[s]
    BY <1>0, <2>1
  <2>5. Queued' = {} /\ AssistantSeqs' = AssistantSeqs
    BY <2>1 DEF Queued, AssistantSeqs
  <2>6. \A s \in Subscribers \ {g} : Trail(s)' = Trail(s)
    BY <2>1, <2>4 DEF Trail, MsgsOf, SeqElems
  <2>7. Trail(g) = SeqElems(seen[g]) \cup MsgsOf(out[g])
    BY <2>2, EventsEmpty DEF Trail
  <2>8. Trail(g)' = SeqElems(seen'[g]) \cup MsgsOf(out'[g]) \cup MsgsOf(taken'[g])
    BY DEF Trail, SeqElems, MsgsOf
  <2>9. Trail(g)' = Trail(g) \cup Queued
    BY <2>1, <2>3, <2>7, <2>8
  <2>10. \A s \in Subscribers : Trail(s)' = IF s = g THEN Trail(s) \cup Queued ELSE Trail(s)
    BY <2>6, <2>9
  <2>11. OutputsConserved'
    <3>1. \A m : m \in AssistantSeqs
                 <=> m \in Queued \/ m \in lost \/ \E s \in Subscribers : m \in Trail(s)
      BY DEF OutputInv, OutputsConserved
    <3>2. \A m : m \in AssistantSeqs'
                 <=> m \in Queued' \/ m \in lost' \/ \E s \in Subscribers : m \in Trail(s)'
      BY <2>1, <2>5, <2>10, <3>1
    <3>3. (AssistantSeqs = Queued \cup lost \cup UNION {Trail(s) : s \in Subscribers})'
      BY <3>2
    <3>4. (Queued \cap lost = {})'
      BY <2>5
    <3>5. (\A s \in Subscribers : Trail(s) \cap (Queued \cup lost) = {})'
      BY <2>1, <2>5, <2>10 DEF OutputInv, OutputsConserved
    <3>6. (\A s, t \in Subscribers : s # t => Trail(s) \cap Trail(t) = {})'
      BY <2>10 DEF OutputInv, OutputsConserved
    <3> QED
      BY <3>3, <3>4, <3>5, <3>6 DEF OutputsConserved
  <2>12. SubOrder(seen'[g], out'[g], taken'[g])
    <3>1. \A n \in SeqElems(seen[g]) \cup MsgsOf(out[g]), m \in Queued : n < m
      BY <2>7 DEF OutputInv, TrailBeforeQueue
    <3>2. SubOrder(seen[g], out[g], taken[g])
      BY <1>1
    <3> QED
      BY <2>1, <2>3, <3>1, <3>2 DEF SubOrder
  <2>13. \A s \in Subscribers : SubOrder(seen'[s], out'[s], taken'[s])
    <3> HIDE DEF SubOrder
    <3> QED
      BY <1>1, <2>1, <2>4, <2>12
  <2>14. TrailBeforeQueue' /\ QueueInOrder'
    BY <2>1, <2>5 DEF TrailBeforeQueue, QueueInOrder
  <2>15. TakenWhilePushing'
    BY <1>0, <2>1, <2>4 DEF OutputInv, TakenWhilePushing
  <2> QED
    BY <2>11, <2>13, <2>14, <2>15, SubOrderIs DEF OutputInv
<1>6. ASSUME NEW g \in Subscribers, PushEvent(g) PROVE OutputInv'
  <2>1. /\ taken[g] # <<>> /\ pc' = pc /\ pc[g] = "push"
        /\ out' = [out EXCEPT ![g] = Append(out[g], Head(taken[g]))]
        /\ taken' = [taken EXCEPT ![g] = Tail(taken[g])]
        /\ UNCHANGED <<outputQueue, conversation, seen, lost>>
    BY <1>6 DEF PushEvent, session
  <2>2. SubOrder(seen[g], out[g], taken[g])
    BY <1>1
  <2>3. Head(taken[g]) \in Event
    BY <1>0, <2>1, HeadTailFacts
  <2>4. /\ MsgsOf(taken[g]) = MsgOf(Head(taken[g])) \cup MsgsOf(Tail(taken[g]))
        /\ \A n \in MsgOf(Head(taken[g])), m \in MsgsOf(Tail(taken[g])) : n < m
        /\ MsgsIncrease(Tail(taken[g]))
    BY <1>0, <2>1, <2>2, EventsTail DEF SubOrder
  <2>5. /\ MsgsOf(Append(out[g], Head(taken[g]))) = MsgsOf(out[g]) \cup MsgOf(Head(taken[g]))
        /\ MsgsIncrease(Append(out[g], Head(taken[g])))
    <3>1. \A n \in MsgsOf(out[g]), m \in MsgOf(Head(taken[g])) : n < m
      BY <2>2, <2>4 DEF SubOrder
    <3> QED
      BY <1>0, <2>2, <2>3, <3>1, EventsAppend DEF SubOrder
  <2>6. out'[g] = Append(out[g], Head(taken[g])) /\ taken'[g] = Tail(taken[g])
    BY <1>0, <2>1
  <2>7. SubOrder(seen'[g], out'[g], taken'[g])
    BY <2>1, <2>2, <2>4, <2>5, <2>6 DEF SubOrder
  <2>8. Trail(g)' = SeqElems(seen'[g]) \cup MsgsOf(out'[g]) \cup MsgsOf(taken'[g])
    BY DEF Trail, SeqElems, MsgsOf
  <2>9. Trail(g)' = Trail(g) \ {} /\ lost' = lost \cup {}
    BY <2>1, <2>4, <2>5, <2>6, <2>8 DEF Trail
  <2>10. \A s \in Subscribers \ {g} : seen'[s] = seen[s] /\ out'[s] = out[s] /\ taken'[s] = taken[s]
    BY <1>0, <2>1
  <2>11. TakenWhilePushing'
    BY <1>0, <2>1, <2>10 DEF OutputInv, TakenWhilePushing
  <2> QED
    BY <2>1, <2>7, <2>9, <2>10, <2>11, OutputMove
<1>7. ASSUME NEW g \in Subscribers, PushDropOldest(g) PROVE OutputInv'
  <2>0. PICK rest : rest = IF out[g] = <<>> THEN out[g] ELSE Tail(out[g])
    OBVIOUS
  <2>00. PICK dropped : dropped = IF out[g] = <<>> THEN {} ELSE MsgOf(Head(out[g]))
    OBVIOUS
  <2>1. /\ pc[g] = "drop" /\ pc' = [pc EXCEPT ![g] = "push"]
        /\ out' = [out EXCEPT ![g] = Append(rest, Head(taken[g]))]
        /\ taken' = [taken EXCEPT ![g] = Tail(taken[g])]
        /\ lost' = lost \cup dropped
        /\ UNCHANGED <<outputQueue, conversation, seen>>
    BY <1>7, <2>0, <2>00, <1>0 DEF PushDropOldest, session, MsgOf
  <2>2. SubOrder(seen[g], out[g], taken[g]) /\ taken[g] # <<>>
    BY <1>1, <2>1 DEF TypeOK, SubType
  <2>3. Head(taken[g]) \in Event /\ rest \in Seq(Event)
    BY <1>0, <2>0, <2>2, HeadTailFacts
  <2>4. /\ MsgsOf(taken[g]) = MsgOf(Head(taken[g])) \cup MsgsOf(Tail(taken[g]))
        /\ \A n \in MsgOf(Head(taken[g])), m \in MsgsOf(Tail(taken[g])) : n < m
        /\ MsgsIncrease(Tail(taken[g]))
    BY <1>0, <2>2, EventsTail DEF SubOrder
  <2>5. /\ MsgsOf(out[g]) = dropped \cup MsgsOf(rest)
        /\ \A n \in dropped, m \in MsgsOf(rest) : n < m
        /\ MsgsIncrease(rest)
    <3>1. CASE out[g] = <<>>
      BY <2>0, <2>00, <3>1, EventsEmpty
    <3>2. CASE out[g] # <<>>
      BY <1>0, <2>0, <2>00, <2>2, <3>2, EventsTail DEF SubOrder
    <3> QED
      BY <3>1, <3>2
  <2>6. /\ MsgsOf(Append(rest, Head(taken[g]))) = MsgsOf(rest) \cup MsgOf(Head(taken[g]))
        /\ MsgsIncrease(Append(rest, Head(taken[g])))
    <3>1. \A n \in MsgsOf(rest), m \in MsgOf(Head(taken[g])) : n < m
      BY <2>2, <2>4, <2>5 DEF SubOrder
    <3> QED
      BY <2>3, <2>5, <3>1, EventsAppend
  <2>7. out'[g] = Append(rest, Head(taken[g])) /\ taken'[g] = Tail(taken[g])
    BY <1>0, <2>1
  <2>8. SubOrder(seen'[g], out'[g], taken'[g])
    BY <2>1, <2>2, <2>4, <2>5, <2>6, <2>7 DEF SubOrder
  <2>9. Trail(g)' = SeqElems(seen'[g]) \cup MsgsOf(out'[g]) \cup MsgsOf(taken'[g])
    BY DEF Trail, SeqElems, MsgsOf
  <2>10. /\ \A n \in SeqElems(seen[g]) : n \notin dropped
         /\ \A n \in MsgsOf(rest) : n \notin dropped
         /\ \A n \in MsgsOf(taken[g]) : n \notin dropped
    <3>1. SeqElems(seen[g]) \subseteq Nat
      BY <1>0 DEF SeqElems
    <3>2. dropped \subseteq Nat
      <4>1. ASSUME out[g] # <<>> PROVE MsgOf(Head(out[g])) \subseteq Nat
        <5>1. Head(out[g]) \in Event
          BY <1>0, <4>1, HeadTailFacts
        <5> QED
          BY <5>1 DEF MsgOf, IsMessage, Event
      <4> QED
        BY <2>00, <4>1
    <3>3. \A n \in dropped : ~(n < n)
      BY <3>2
    <3> QED
      BY <2>2, <2>5, <3>3 DEF SubOrder
  <2>11. Trail(g)' = Trail(g) \ dropped /\ dropped \subseteq Trail(g)
    BY <2>1, <2>4, <2>5, <2>6, <2>7, <2>9, <2>10 DEF Trail
  <2>12. \A s \in Subscribers \ {g} : seen'[s] = seen[s] /\ out'[s] = out[s] /\ taken'[s] = taken[s]
    BY <1>0, <2>1
  <2>13. TakenWhilePushing'
    BY <1>0, <2>1, <2>12 DEF OutputInv, TakenWhilePushing
  <2> QED
    BY <2>1, <2>8, <2>11, <2>12, <2>13, OutputMove
<1>8. ASSUME NEW g \in Subscribers, Receive(g) PROVE OutputInv'
  <2>1. /\ out[g] # <<>> /\ pc' = pc
        /\ out' = [out EXCEPT ![g] = Tail(out[g])]
        /\ seen' = IF IsMessage(Head(out[g]))
                   THEN [seen EXCEPT ![g] = Append(seen[g], Head(out[g]).msg)] ELSE seen
        /\ UNCHANGED <<outputQueue, conversation, taken, lost>>
    BY <1>8 DEF Receive, session
  <2>2. SubOrder(seen[g], out[g], taken[g])
    BY <1>1
  <2>3. /\ MsgsOf(out[g]) = MsgOf(Head(out[g])) \cup MsgsOf(Tail(out[g]))
        /\ \A n \in MsgOf(Head(out[g])), m \in MsgsOf(Tail(out[g])) : n < m
        /\ MsgsIncrease(Tail(out[g]))
    BY <1>0, <2>1, <2>2, EventsTail DEF SubOrder
  <2>4. /\ SeqElems(seen'[g]) = SeqElems(seen[g]) \cup MsgOf(Head(out[g]))
        /\ \A i, j \in DOMAIN seen'[g] : i < j => seen'[g][i] < seen'[g][j]
    <3>1. CASE IsMessage(Head(out[g]))
      <4>1. Head(out[g]) \in Event
        BY <1>0, <2>1, HeadTailFacts
      <4>2. Head(out[g]).msg \in Nat /\ MsgOf(Head(out[g])) = {Head(out[g]).msg}
        BY <3>1, <4>1 DEF Event, IsMessage, MsgOf
      <4>3. \A i \in DOMAIN seen[g] : seen[g][i] < Head(out[g]).msg
        BY <2>2, <2>3, <4>2 DEF SubOrder, SeqElems
      <4>4. seen'[g] = Append(seen[g], Head(out[g]).msg)
        BY <1>0, <2>1, <3>1
      <4> QED
        BY <1>0, <2>2, <4>2, <4>3, <4>4, AppendIncreasing DEF SubOrder
    <3>2. CASE ~IsMessage(Head(out[g]))
      BY <2>1, <2>2, <3>2 DEF SubOrder, MsgOf
    <3> QED
      BY <3>1, <3>2
  <2>5. out'[g] = Tail(out[g]) /\ taken'[g] = taken[g]
    BY <1>0, <2>1
  <2>6. SubOrder(seen'[g], out'[g], taken'[g])
    BY <2>2, <2>3, <2>4, <2>5 DEF SubOrder
  <2>7. Trail(g)' = SeqElems(seen'[g]) \cup MsgsOf(out'[g]) \cup MsgsOf(taken'[g])
    BY DEF Trail, SeqElems, MsgsOf
  <2>8. Trail(g)' = Trail(g) \ {} /\ lost' = lost \cup {}
    BY <2>1, <2>3, <2>4, <2>5, <2>7 DEF Trail
  <2>9. \A s \in Subscribers \ {g} : seen'[s] = seen[s] /\ out'[s] = out[s] /\ taken'[s] = taken[s]
    BY <1>0, <2>1
  <2>10. TakenWhilePushing'
    BY <2>1 DEF OutputInv, TakenWhilePushing
  <2> QED
    BY <2>1, <2>6, <2>8, <2>9, <2>10, OutputMove
<1>9. \/ /\ UNCHANGED <<outputQueue, taken, out, seen, lost, conversation>>
         /\ \A s \in Subscribers : pc'[s] # pc[s] => taken[s] = <<>> \/ pc'[s] \in {"push", "drop"}
      \/ \E c \in Callers : Send(c) \/ PublishOutput(c)
      \/ \E g \in Subscribers : SubscribeDrain(g) \/ PushEvent(g) \/ PushDropOldest(g) \/ Receive(g)
  <2> DEFINE Idle == /\ UNCHANGED <<outputQueue, taken, out, seen, lost, conversation>>
                     /\ \A s \in Subscribers :
                          pc'[s] # pc[s] => taken[s] = <<>> \/ pc'[s] \in {"push", "drop"}
  <2>1. ASSUME NEW g \in Procs, Enter(g) \/ SyncReturn(g) PROVE Idle
    BY <1>0, <2>1 DEF Enter, SyncReturn, session, subVars, OutputInv, TakenWhilePushing
  <2>2. ASSUME NEW w \in Waiters, WaiterRun(w) \/ WaitForInputCtxDone(w) PROVE Idle
    <3>1. w \in Procs /\ w \notin Subscribers
      BY DEF Procs
    <3> QED
      BY <1>0, <2>2, <3>1 DEF WaiterRun, WaitForInputPop, WaitForInputClosed, WaitForInputPark,
         StartWaiting, Wake, WaitForInputCancel, LeaveCancelled, WaitForInputCtxDone, session, subVars
  <2>3. ASSUME NEW p \in Pollers, PollerRun(p) \/ WaitPark(p) \/ WaitTimeout(p) PROVE Idle
    <3>1. p \in Procs /\ p \notin Subscribers
      BY DEF Procs
    <3> QED
      BY <1>0, <2>3, <3>1 DEF PollerRun, WaitReturn, Wake, WaitPark, WaitTimeout, session, subVars
  <2>4. ASSUME NEW c \in Callers, SendRejected(c) \/ Close(c) \/ persistConversation(c) PROVE Idle
    <3>1. c \in Procs /\ c \notin Subscribers
      BY DEF Procs
    <3> QED
      BY <1>0, <2>4, <3>1 DEF SendRejected, Close, persistConversation, session, subVars
  <2>5. ASSUME NEW g \in Subscribers, PushFull(g) \/ SubscribeWake(g) \/ SubscribeCtxDone(g) PROVE Idle
    BY <1>0, <2>5 DEF PushFull, SubscribeWake, SubscribeCtxDone, session, subVars
  <2>6. CASE UNCHANGED vars
    BY <2>6 DEF vars, session, subVars
  <2> HIDE DEF Idle
  <2>7. CASE \E g \in Procs : Enter(g) \/ SyncReturn(g)
    BY <2>1, <2>7 DEF Idle
  <2>8. CASE \E w \in Waiters : WaiterRun(w) \/ WaitForInputCtxDone(w)
    BY <2>2, <2>8 DEF Idle
  <2>9. CASE \E p \in Pollers : PollerRun(p) \/ WaitPark(p) \/ WaitTimeout(p)
    BY <2>3, <2>9 DEF Idle
  <2>10. CASE \E c \in Callers : CallerRun(c)
    BY <2>4, <2>10 DEF Idle, CallerRun
  <2>11. CASE \E g \in Subscribers : SubscriberRun(g) \/ SubscribeCtxDone(g) \/ Receive(g)
    BY <2>5, <2>11 DEF Idle, SubscriberRun
  <2> QED
    BY <2>6, <2>7, <2>8, <2>9, <2>10, <2>11 DEF Next, Idle
<1> QED
  BY <1>2, <1>3, <1>4, <1>5, <1>6, <1>7, <1>8, <1>9

(* The artifact. *)

\* On top of ArtifactCurrent: what is still to be put is an earlier state too, and
\* while there was no lapse somebody is about to put what is missing.
ArtifactInv ==
    /\ Past(artifact)
    /\ \A c \in Callers : Past(snap[c])
    /\ lapse \/ artifact = conversation
             \/ \E c \in Callers : pc[c] = "persist" /\ snap[c] = conversation

LEMMA PastAppend ==
    ASSUME NEW S, NEW k \in Seq(S), NEW m \in S, NEW s \in Seq(S), Len(s) <= Len(k),
           \A i \in DOMAIN s : s[i] = k[i]
    PROVE  Len(s) <= Len(Append(k, m)) /\ \A i \in DOMAIN s : s[i] = Append(k, m)[i]
  OBVIOUS

\* Equal lengths make an earlier state the present one.
LEMMA PastEqual ==
    ASSUME NEW S, NEW k \in Seq(S), NEW s \in Seq(S), Len(s) >= Len(k), Len(s) <= Len(k),
           \A i \in DOMAIN s : s[i] = k[i]
    PROVE  s = k
<1>1. Len(s) = Len(k)
  OBVIOUS
<1> QED
  BY <1>1

\* A message is added to the conversation, and its caller has a snapshot with it.
LEMMA ArtifactGrows ==
    ASSUME TypeOK, ArtifactInv, NEW c \in Callers, NEW m \in Message,
           conversation' = Append(conversation, m), snap' = [snap EXCEPT ![c] = conversation'],
           pc'[c] = "persist", artifact' = artifact
    PROVE  ArtifactInv'
<1>1. conversation \in Seq(Message) /\ artifact \in Seq(Message) /\ snap \in [Callers -> Seq(Message)]
  BY DEF TypeOK, SessionType, ProcType
<1>2. Past(artifact)'
  BY <1>1, PastAppend DEF ArtifactInv, Past
<1>3. ASSUME NEW d \in Callers PROVE Past(snap[d])'
  <2>1. CASE d = c
    BY <1>1, <2>1 DEF Past
  <2>2. CASE d # c
    <3>1. snap'[d] = snap[d] /\ snap[d] \in Seq(Message)
      BY <1>1, <2>2
    <3> QED
      BY <1>1, <3>1, PastAppend DEF ArtifactInv, Past
  <2> QED
    BY <2>1, <2>2
<1>4. snap'[c] = conversation'
  BY <1>1
<1> QED
  BY <1>2, <1>3, <1>4 DEF ArtifactInv

LEMMA ArtifactPut ==
    ASSUME TypeOK, ArtifactInv, NEW c \in Callers, persistConversation(c)
    PROVE  ArtifactInv'
<1>1. /\ conversation \in Seq(Message) /\ artifact \in Seq(Message)
      /\ snap \in [Callers -> Seq(Message)] /\ pc \in [Procs -> {"idle", "lock", "parked",
           "cancel", "persist", "push", "drop", "done"}] /\ c \in Procs
  BY DEF TypeOK, SessionType, ProcType, Procs
<1>2. /\ conversation' = conversation /\ artifact' \in {snap[c], artifact}
      /\ lapse' = (artifact' # conversation /\ (lapse \/ Lapses(c)))
      /\ snap' = [snap EXCEPT ![c] = <<>>] /\ pc' = [pc EXCEPT ![c] = "idle"]
  BY DEF persistConversation, session
<1>3. Past(artifact)'
  BY <1>2 DEF ArtifactInv, Past
<1>4. ASSUME NEW d \in Callers PROVE Past(snap[d])'
  <2>1. CASE d = c
    <3>1. snap'[d] = <<>>
      BY <1>1, <1>2, <2>1
    <3>2. Len(conversation) >= 0
      BY <1>1
    <3> QED
      BY <1>2, <3>1, <3>2 DEF Past
  <2>2. CASE d # c
    BY <1>1, <1>2, <2>2 DEF ArtifactInv, Past
  <2> QED
    BY <2>1, <2>2
<1>5. ASSUME ~lapse', artifact' # conversation
      PROVE  \E d \in Callers : pc'[d] = "persist" /\ snap'[d] = conversation'
  <2>1. ~lapse /\ artifact' = snap[c] /\ ~(Len(snap[c]) < Len(artifact))
    BY <1>2, <1>5 DEF Lapses
  <2>2. artifact # conversation
    <3> SUFFICES ASSUME artifact = conversation PROVE FALSE
      OBVIOUS
    <3>1. snap[c] \in Seq(Message) /\ Len(snap[c]) \in Nat /\ Len(conversation) \in Nat
      BY <1>1
    <3>2. Len(snap[c]) >= Len(conversation)
      BY <2>1, <3>1
    <3>3. snap[c] = conversation
      BY <1>1, <3>1, <3>2, PastEqual DEF ArtifactInv, Past
    <3> QED
      BY <1>5, <2>1, <3>3
  <2>3. PICK d \in Callers : pc[d] = "persist" /\ snap[d] = conversation
    BY <2>1, <2>2 DEF ArtifactInv
  <2>4. d # c
    BY <1>5, <2>1, <2>3
  <2> QED
    BY <1>1, <1>2, <2>3, <2>4
<1> QED
  BY <1>2, <1>3, <1>4, <1>5 DEF ArtifactInv

LEMMA ArtifactStep == TypeOK /\ ArtifactInv /\ [Next]_vars => ArtifactInv'
<1> SUFFICES ASSUME TypeOK, ArtifactInv, [Next]_vars PROVE ArtifactInv'
  OBVIOUS
<1>1. pc \in [Procs -> {"idle", "lock", "parked", "cancel", "persist", "push", "drop", "done"}]
      /\ Callers \subseteq Procs
  BY DEF TypeOK, ProcType, Procs
\* A step that leaves the conversation, the artifact and the snapshots alone.
<1>2. CASE /\ UNCHANGED <<conversation, artifact, lapse, snap>>
           /\ \A c \in Callers : pc[c] = "persist" => pc'[c] = "persist"
  BY <1>2 DEF ArtifactInv, Past
<1>3. ASSUME NEW c \in Callers, Send(c) \/ PublishOutput(c) PROVE ArtifactInv'
  <2>1. PICK m \in Message : conversation' = Append(conversation, m)
    BY <1>3, EnsureIdFacts DEF Send, AcceptInput, PublishOutput, Message, TypeOK
  <2>2. snap' = [snap EXCEPT ![c] = conversation'] /\ artifact' = artifact /\ pc'[c] = "persist"
    BY <1>1, <1>3 DEF Send, AcceptInput, PublishOutput
  <2> QED
    BY <2>1, <2>2, ArtifactGrows
<1>4. ASSUME NEW c \in Callers, persistConversation(c) PROVE ArtifactInv'
  BY <1>4, ArtifactPut
<1>5. ASSUME NEW g \in Procs, Enter(g) \/ SyncReturn(g) PROVE ArtifactInv'
  BY <1>1, <1>2, <1>5 DEF Enter, SyncReturn, session
<1>6. ASSUME NEW c \in Callers, SendRejected(c) \/ Close(c) PROVE ArtifactInv'
  BY <1>1, <1>2, <1>6 DEF SendRejected, Close, session
<1>7. ASSUME NEW w \in Waiters, WaiterRun(w) \/ WaitForInputCtxDone(w) PROVE ArtifactInv'
  <2>1. w \in Procs /\ w \notin Callers
    BY ProcsDisjoint DEF Procs
  <2>2. UNCHANGED <<conversation, artifact, lapse, snap>> /\ \A c \in Callers : pc'[c] = pc[c]
    BY <1>1, <1>7, <2>1 DEF WaiterRun, WaitForInputPop, WaitForInputClosed, WaitForInputPark,
       StartWaiting, WaitForInputCancel, LeaveCancelled, WaitForInputCtxDone, Wake, session
  <2> QED
    BY <1>2, <2>2
<1>8. ASSUME NEW p \in Pollers, PollerRun(p) \/ WaitPark(p) \/ WaitTimeout(p) PROVE ArtifactInv'
  <2>1. p \in Procs /\ p \notin Callers
    BY ProcsDisjoint DEF Procs
  <2>2. UNCHANGED <<conversation, artifact, lapse, snap>> /\ \A c \in Callers : pc'[c] = pc[c]
    BY <1>1, <1>8, <2>1 DEF PollerRun, WaitReturn, WaitPark, WaitTimeout, Wake, session
  <2> QED
    BY <1>2, <2>2
<1>9. ASSUME NEW s \in Subscribers, SubscriberRun(s) \/ SubscribeCtxDone(s) \/ Receive(s)
      PROVE  ArtifactInv'
  <2>1. s \in Procs /\ s \notin Callers
    BY ProcsDisjoint DEF Procs
  <2>2. UNCHANGED <<conversation, artifact, lapse, snap>> /\ \A c \in Callers : pc'[c] = pc[c]
    BY <1>1, <1>9, <2>1 DEF SubscriberRun, SubscribeDrain, SubscribeRead, PushEvent, PushFull,
       PushDropOldest, SubscribeWake, SubscribeCtxDone, Receive, session
  <2> QED
    BY <1>2, <2>2
<1>10. CASE UNCHANGED vars
  BY <1>2, <1>10 DEF vars, session
<1> QED
  BY <1>3, <1>4, <1>5, <1>6, <1>7, <1>8, <1>9, <1>10 DEF Next, CallerRun

(* The theorems. *)

\* Every reachable state is well typed: in particular only goroutines that hold
\* a channel are ever marked as woken, and a subscription channel never exceeds
\* its capacity.
THEOREM TypeCorrect == Spec => []TypeOK
<1>1. Init => TypeOK
  <2> SUFFICES ASSUME Init PROVE TypeOK
    OBVIOUS
  <2>1. SessionType
    <3>1. \A S : <<>> \in Seq(S)
      OBVIOUS
    <3>2. conversation \in Seq(Message) /\ artifact \in Seq(Message)
      BY <3>1 DEF Init
    <3>3. outputQueue \in Seq([msg : Nat, id : AllIds])
      BY <3>1 DEF Init
    <3> QED
      BY <3>1, <3>2, <3>3 DEF Init, SessionType, AllIds
  <2>2. ProcType
    BY DEF Init, ProcType
  <2>3. SubType
    <3>1. \A s \in Subscribers : s \in Procs
      BY DEF Procs
    <3>2. \A s \in Subscribers : out[s] = <<>> /\ pc[s] = "idle"
      BY <3>1 DEF Init
    <3> QED
      BY <3>2, CapAssumption DEF Init, SubType
  <2> QED
    BY <2>1, <2>2, <2>3 DEF TypeOK
<1> QED
  BY <1>1, TypeStep, PTL DEF Spec

LEMMA NotifyInvariant == Spec => []NotifyInv
<1>1. Init => NotifyInv
  BY ProcsDisjoint DEF Init, NotifyInv, WaiterNotMissed, PollerNotMissed, SubscriberCurrent,
     SubscribedHasId, WaitingIsReal, Procs
<1> QED
  BY <1>1, TypeCorrect, NotifyStep, PTL DEF Spec

\* No goroutine sleeps through a change it waits for, whatever the number of
\* callers: WaitForInput, Wait and Subscribe never lose a wake-up.
THEOREM NoLostWakeup == Spec => []NoWakeupLost
<1>1. NotifyInv => NoWakeupLost
  BY DEF NotifyInv, NoWakeupLost
<1> QED
  BY <1>1, NotifyInvariant, PTL

\* The session shows "waiting" only while a WaitForInput call is in progress.
THEOREM WaitingHonest == Spec => []WaitingIsReal
<1>1. NotifyInv => WaitingIsReal
  BY DEF NotifyInv
<1> QED
  BY <1>1, NotifyInvariant, PTL

\* Every accepted input is handed to exactly one WaitForInput call, in the order
\* of acceptance, for any number of senders and waiters.
THEOREM InputsDelivered == Spec => []InputsExactlyOnceInOrder
<1>1. Init => InputsExactlyOnceInOrder
  BY DEF Init, InputsExactlyOnceInOrder, SeqElems, UserSeqs
<1> QED
  BY <1>1, TypeCorrect, InputsStep, PTL DEF Spec

\* Every published output is in exactly one place (still queued, with one
\* subscriber, or dropped by that subscriber's full channel), and each reader gets
\* its share in the order of publication, for any number of publishers and
\* subscriptions and any channel capacity.
THEOREM OutputsDelivered == Spec => []OutputsOnceInOrder
<1>1. Init => OutputInv
  <2> SUFFICES ASSUME Init PROVE OutputInv
    OBVIOUS
  <2>1. /\ outputQueue = <<>> /\ conversation = <<>> /\ lost = {}
        /\ \A s \in Subscribers : seen[s] = <<>> /\ out[s] = <<>> /\ taken[s] = <<>>
    BY DEF Init
  <2>2. SeqElems(<<>>) = {} /\ Queued = {} /\ AssistantSeqs = {}
    BY <2>1 DEF SeqElems, Queued, AssistantSeqs
  <2>3. \A s \in Subscribers : Trail(s) = {}
    BY <2>1, <2>2, EventsEmpty DEF Trail
  <2>4. OutputsConserved /\ TrailBeforeQueue
    BY <2>1, <2>2, <2>3 DEF OutputsConserved, TrailBeforeQueue
  <2>5. \A s \in Subscribers : SubOrder(seen[s], out[s], taken[s])
    BY <2>1, <2>2, EventsEmpty DEF SubOrder
  <2>6. QueueInOrder /\ TakenWhilePushing
    BY <2>1 DEF QueueInOrder, TakenWhilePushing
  <2> QED
    BY <2>4, <2>5, <2>6, SubOrderIs DEF OutputInv
<1>2. OutputInv => OutputsOnceInOrder
  BY DEF OutputInv, OutputsOnceInOrder
<1> QED
  BY <1>1, <1>2, TypeCorrect, OutputStep, PTL DEF Spec

\* The artifact is always an earlier state of the conversation, and the present one
\* once every Put has returned, unless one failed or came in after a newer one, for
\* any number of callers and messages.
THEOREM ConversationPersisted == Spec => []ArtifactCurrent
<1>1. Init => ArtifactInv
  BY DEF Init, ArtifactInv, Past
<1>2. ArtifactInv => ArtifactCurrent
  BY DEF ArtifactInv, ArtifactCurrent
<1> QED
  BY <1>1, <1>2, TypeCorrect, ArtifactStep, PTL DEF Spec

\* Close is final: no step reopens a session, and no step adds a user message to
\* the conversation of a closed one.
THEOREM CloseFinal == Spec => ClosedIsFinal
<1>1. TypeOK /\ [Next]_vars => [closed => closed' /\ UserSeqs' = UserSeqs]_vars
  <2> SUFFICES ASSUME TypeOK, [Next]_vars, closed PROVE closed' /\ UserSeqs' = UserSeqs
    OBVIOUS
  <2>1. CASE UNCHANGED <<closed, conversation>>
    BY <2>1 DEF UserSeqs
  <2>2. CASE \E c \in Callers : Close(c)
    BY <2>2 DEF Close, UserSeqs
  <2>3. ASSUME NEW c \in Callers, PublishOutput(c) PROVE closed' /\ UserSeqs' = UserSeqs
    <3>1. PICK id \in Ids \cup {NoId} :
             conversation' = Append(conversation, [role |-> "assistant", id |-> EnsureId(id)])
      BY <2>3 DEF PublishOutput, Enqueue
    <3>2. [role |-> "assistant", id |-> EnsureId(id)] \in Message
      BY EnsureIdFacts DEF TypeOK, Message
    <3> QED
      BY <2>3, <3>1, <3>2, UserSeqsAppend DEF TypeOK, PublishOutput, Enqueue
  <2>4. \/ UNCHANGED <<closed, conversation>>
        \/ \E c \in Callers : Close(c) \/ PublishOutput(c)
    BY DEF Next, WaiterRun, PollerRun, SubscriberRun, CallerRun, vars, session, Enter, SyncReturn, WaitForInputPop, WaitForInputClosed, WaitForInputPark, StartWaiting, WaitForInputCancel, LeaveCancelled, WaitForInputCtxDone, Wake, WaitReturn, WaitPark, WaitTimeout, Send, AcceptInput, Enqueue, SendRejected, persistConversation, SubscribeDrain, SubscribeRead, PushEvent, PushFull, PushDropOldest, SubscribeWake, SubscribeCtxDone, Receive
  <2> QED
    BY <2>1, <2>2, <2>3, <2>4
<1> QED
  BY <1>1, TypeCorrect, PTL DEF Spec, ClosedIsFinal

============================================================================
