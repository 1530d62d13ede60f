------------------------------ MODULE LLMCall ------------------------------
(***************************************************************************)
(* Calls to one selected model through the middleware that                 *)
(* workerruntime/llm_setup.go and model.BuildClient wrap around it:        *)
(*                                                                         *)
(*   SelectModel, RespectRateLimitSignals, Retry, dispatch,                *)
(*   RateLimit (RPS), TokenDayLimit (TPD), MultiLimit (RPM, RPD, TPM)      *)
(*                                                                         *)
(* and the permits that ScheduleHeavierStart reserves for the calls of a   *)
(* chunk.  Every limiter is a channel that a ticker refills and that drops *)
(* a token when it is full.  A goroutine takes its tokens one by one and   *)
(* limiter by limiter, so that others act between any two of them.         *)
(***************************************************************************)
EXTENDS Integers, Sequences, FiniteSets

CONSTANTS
    Callers,      \* goroutines that call GenerateJSON
    Chunks,       \* places for chunks in flight, up to nParallel of them
    NoChunk,
    ChunkOf,      \* the chunk in whose context a goroutine runs, or NoChunk
    Limiters,     \* the limiters of the clients and of the broker
    BrokerLimiter,\* the one behind the PermitBroker
    Burst,        \* capacity of each limiter's channel
    Profiles,     \* the rate limit profiles a model may have
    Want,         \* the most permits ReserveWith asks for
    MaxAttempts   \* Retry's maxAttempts

(* A profile says what a request has to pay, in the order of the wrappers: *)
(* for each limiter that is not nil, n tokens, or one credit if credits    *)
(* are accepted there; whether the provider's responses have the headers   *)
(* that a client keeps, and whether the client gives up on a request after *)
(* a time (GroqClient does both, GeminiClient neither).  BuildClient does  *)
(* not wrap a model that has no limits.                                    *)
ASSUME CallAssumption ==
    /\ IsFiniteSet(Callers) /\ IsFiniteSet(Chunks) /\ NoChunk \notin Chunks
    /\ ChunkOf \in [Callers -> Chunks \cup {NoChunk}]
    /\ BrokerLimiter \in Limiters
    /\ Burst \in [Limiters -> Nat \ {0}]
    /\ Want \in Nat \ {0} /\ MaxAttempts \in Nat \ {0}
    /\ \A p \in Profiles :
         /\ p \in [pay : Seq([lim : Limiters \ {BrokerLimiter}, n : Nat \ {0},
                              credit : BOOLEAN]), reports : BOOLEAN, timeout : BOOLEAN]
         /\ \A i, j \in 1..Len(p.pay) : p.pay[i].lim = p.pay[j].lim => i = j

VARIABLES
    profile,   \* the profile of the selected model
    tokens,    \* tokens in each limiter's channel
    lease,     \* per chunk: its reservation and what it has of it, first the
               \* permits taken so far, then the credits left in its context
    call,      \* where each goroutine is
    asks,      \* the headers kept last ask for a wait, however old they are
    level      \* history: the ideal buckets, which a request empties when it is
               \* sent, and the broker's when it is let through on credit

vars == <<profile, tokens, lease, call, asks, level>>

Nothing == [l \in Limiters |-> 0]

(* paid counts the tokens taken for the request that is not sent yet; late *)
(* is a history variable, the requests sent after the context had ended.   *)
Idle == [pc |-> "idle", attempt |-> 0, stage |-> 0, paid |-> Nothing,
         cancelled |-> FALSE, late |-> 0]

NoLease == [pc |-> "idle", want |-> 0, has |-> 0]

Init ==
    /\ profile \in Profiles
    /\ tokens = Burst
    /\ lease = [k \in Chunks |-> NoLease]
    /\ call = [c \in Callers |-> Idle]
    /\ asks = FALSE
    /\ level = Burst

----------------------------------------------------------------------------
(* The limiter *)

Least(a, b) == IF a < b THEN a ELSE b

(* Variant: a refill that does not stop at the capacity of the bucket *)
TickOverflows(l) ==
    /\ tokens' = [tokens EXCEPT ![l] = Least(@ + 1, 2 * Burst[l] + 1)]
    /\ level' = [level EXCEPT ![l] = Least(@ + 1, Burst[l])]
    /\ UNCHANGED <<profile, lease, call, asks>>

(* The ticker's goroutine: one more token, unless the channel is full.     *)
Tick(l) ==
    /\ tokens' = [tokens EXCEPT ![l] = Least(@ + 1, Burst[l])]
    /\ level' = [level EXCEPT ![l] = Least(@ + 1, Burst[l])]
    /\ UNCHANGED <<profile, lease, call, asks>>

(* tryLaunch launches one chunk after the other, as long as there is a     *)
(* place; ReserveWith says how many permits the chunk needs.               *)
ReserveBegin(k) ==
    /\ lease[k].pc = "idle"
    /\ \A j \in Chunks : lease[j].pc # "reserving"
    /\ \E w \in 1..Want : lease' = [lease EXCEPT ![k] = [pc |-> "reserving", want |-> w, has |-> 0]]
    /\ UNCHANGED <<profile, tokens, call, asks, level>>

(* Reserve takes them one by one. *)
ReserveAcquire(k) ==
    /\ lease[k].pc = "reserving" /\ lease[k].has < lease[k].want
    /\ tokens[BrokerLimiter] > 0
    /\ tokens' = [tokens EXCEPT ![BrokerLimiter] = @ - 1]
    /\ lease' = [lease EXCEPT ![k].has = @ + 1]
    /\ UNCHANGED <<profile, call, asks, level>>

(* A lease for all of them, injected into the context of the chunk. *)
WithCredits(k) ==
    /\ lease[k].pc = "reserving" /\ lease[k].has = lease[k].want
    /\ lease' = [lease EXCEPT ![k].pc = "leased"]
    /\ UNCHANGED <<profile, tokens, call, asks, level>>

(* The context ends while Reserve waits: what it took is not given back. *)
ReserveCancelled(k) ==
    /\ lease[k].pc = "reserving"
    /\ lease' = [lease EXCEPT ![k] = NoLease]
    /\ UNCHANGED <<profile, tokens, call, asks, level>>

(* The chunk is done, its context and what is left of the credits are gone. *)
ChunkDone(k) ==
    /\ lease[k].pc = "leased"
    /\ \A c \in Callers : ChunkOf[c] = k => call[c].pc = "idle"
    /\ lease' = [lease EXCEPT ![k] = NoLease]
    /\ UNCHANGED <<profile, tokens, call, asks, level>>

Launch(k) ==
    ReserveBegin(k) \/ ReserveAcquire(k) \/ WithCredits(k) \/ ReserveCancelled(k) \/ ChunkDone(k)

----------------------------------------------------------------------------
(* One call *)

Stage(c) == profile.pay[call[c].stage]
Staged(c) == call[c].pc = "stage" /\ call[c].stage <= Len(profile.pay)
Return(c) == call' = [call EXCEPT ![c] = Idle]

(* The wrappers do not pass LastRateLimitHeaders on, so that only a model  *)
(* without limits is a RateLimitHeaderAwareClient.                         *)
Aware == profile.pay = <<>>

(* SelectModel, then RespectRateLimitSignals.wait up to its select. *)
Start(c) ==
    /\ call[c].pc = "idle"
    /\ ChunkOf[c] \in Chunks => lease[ChunkOf[c]].pc = "leased"
    /\ call' = [call EXCEPT ![c] =
         [Idle EXCEPT !.pc = IF Aware /\ asks THEN "timer" ELSE "stage",
                      !.attempt = 1, !.stage = 1]]
    /\ UNCHANGED <<profile, tokens, lease, asks, level>>

(* The timer runs for as long as the headers asked, from now, however old *)
(* they are.                                                               *)
SignalTimer(c) ==
    /\ call[c].pc = "timer"
    /\ call' = [call EXCEPT ![c].pc = "stage"]
    /\ UNCHANGED <<profile, tokens, lease, asks, level>>

SignalCancelled(c) ==
    /\ call[c].pc = "timer" /\ call[c].cancelled
    /\ Return(c)
    /\ UNCHANGED <<profile, tokens, lease, asks, level>>

(* The context of the call ends, which the goroutine notices where it looks. *)
Cancel(c) ==
    /\ call[c].pc # "idle" /\ ~call[c].cancelled
    /\ call' = [call EXCEPT ![c].cancelled = TRUE]
    /\ UNCHANGED <<profile, tokens, lease, asks, level>>

HasCredit(c) == Stage(c).credit /\ ChunkOf[c] \in Chunks /\ lease[ChunkOf[c]].has > 0

(* A limiter that accepts credits is passed with one instead of a token;   *)
(* each such limiter of one request takes its own.                         *)
TakeCredit(c) ==
    /\ Staged(c) /\ HasCredit(c)
    /\ lease' = [lease EXCEPT ![ChunkOf[c]].has = @ - 1]
    /\ call' = [call EXCEPT ![c].stage = @ + 1]
    /\ level' = [level EXCEPT ![BrokerLimiter] = @ - 1]
    /\ UNCHANGED <<profile, tokens, asks>>

(* Variant: AcquireN that waits for all of its tokens at once *)
AcquireAllAtOnce(c) ==
    /\ Staged(c) /\ ~HasCredit(c)
    /\ tokens[Stage(c).lim] >= Stage(c).n
    /\ tokens' = [tokens EXCEPT ![Stage(c).lim] = @ - Stage(c).n]
    /\ call' = [call EXCEPT ![c].paid[Stage(c).lim] = Stage(c).n, ![c].stage = @ + 1]
    /\ UNCHANGED <<profile, lease, asks, level>>

(* AcquireN takes its tokens one after the other. *)
Acquire(c) ==
    /\ Staged(c) /\ ~HasCredit(c)
    /\ tokens[Stage(c).lim] > 0
    /\ tokens' = [tokens EXCEPT ![Stage(c).lim] = @ - 1]
    /\ call' = [call EXCEPT
         ![c].paid[Stage(c).lim] = @ + 1,
         ![c].stage = IF call[c].paid[Stage(c).lim] + 1 = Stage(c).n THEN @ + 1 ELSE @]
    /\ UNCHANGED <<profile, lease, asks, level>>

(* The select takes the end of the context; Retry sees it too and returns. *)
(* Tokens and credits of this attempt are not given back.                  *)
AcquireCancelled(c) ==
    /\ Staged(c) /\ ~HasCredit(c) /\ call[c].cancelled
    /\ Return(c)
    /\ UNCHANGED <<profile, tokens, lease, asks, level>>

(* The provider's client gets the request. *)
Send(c) ==
    /\ call[c].pc = "stage" /\ call[c].stage = Len(profile.pay) + 1
    /\ call' = [call EXCEPT ![c].pc = "sent", ![c].paid = Nothing,
                            ![c].late = IF call[c].cancelled THEN Least(@ + 1, 2) ELSE @]
    /\ level' = [l \in Limiters |-> level[l] - call[c].paid[l]]
    /\ UNCHANGED <<profile, tokens, lease, asks>>

(* A response that has the headers replaces those kept before. *)
Headers ==
    \/ profile.reports /\ asks' \in BOOLEAN
    \/ UNCHANGED asks

(* An answer, or an error Retry takes for permanent. *)
Answer(c) ==
    /\ call[c].pc = "sent"
    /\ Headers
    /\ Return(c)
    /\ UNCHANGED <<profile, tokens, lease, level>>

(* Variant: Retry without the look at the context *)
FailBlindly(c) ==
    /\ call[c].pc = "sent"
    /\ Headers
    /\ call' = [call EXCEPT ![c].pc = "sleep"]
    /\ UNCHANGED <<profile, tokens, lease, level>>

(* Any other error: Retry looks at the context, then sleeps. *)
Fail(c) ==
    /\ call[c].pc = "sent"
    /\ Headers
    /\ IF call[c].cancelled THEN Return(c)
       ELSE call' = [call EXCEPT ![c].pc = "sleep"]
    /\ UNCHANGED <<profile, tokens, lease, level>>

(* The sleep does not watch the context, and follows the last attempt too. *)
SleepOver(c) ==
    /\ call[c].pc = "sleep"
    /\ IF call[c].attempt < MaxAttempts
       THEN call' = [call EXCEPT ![c] = [call[c] EXCEPT !.pc = "stage", !.attempt = @ + 1,
                                                        !.stage = 1]]
       ELSE Return(c)
    /\ UNCHANGED <<profile, tokens, lease, asks, level>>

Step(c) ==
    \/ Start(c) \/ SignalTimer(c) \/ SignalCancelled(c) \/ Cancel(c)
    \/ TakeCredit(c) \/ Acquire(c) \/ AcquireCancelled(c) \/ Send(c)
    \/ Answer(c) \/ Fail(c) \/ SleepOver(c)

Next ==
    \/ \E l \in Limiters : Tick(l)
    \/ \E k \in Chunks : Launch(k)
    \/ \E c \in Callers : Step(c)

Spec == Init /\ [][Next]_vars

(* A request is given up at the latest when its client's timeout has       *)
(* passed, or when the context ends, which every client hands on with the  *)
(* request.  A client without a timeout may wait for ever.                 *)
GivesUp(c) == profile.timeout \/ call[c].cancelled

(* The goroutines run and the ticker ticks.  Receivers queue at a channel, *)
(* so that whoever waits for a token gets one (Acquire).                   *)
FairSpec ==
    /\ Spec
    /\ \A l \in Limiters : WF_vars(Tick(l))
    /\ \A c \in Callers :
         /\ SF_vars(Acquire(c))
         /\ WF_vars(TakeCredit(c)) /\ WF_vars(Send(c)) /\ WF_vars(SleepOver(c))
         /\ WF_vars(SignalTimer(c)) /\ WF_vars(GivesUp(c) /\ (Answer(c) \/ Fail(c)))

----------------------------------------------------------------------------
(* Properties *)

Fields == [pc : {"idle", "timer", "stage", "sent", "sleep"},
           attempt : 0..MaxAttempts, stage : Nat, paid : [Limiters -> Nat],
           cancelled : BOOLEAN, late : 0..2]

TypeOK ==
    /\ profile \in Profiles
    /\ tokens \in [Limiters -> Nat] /\ \A l \in Limiters : tokens[l] <= Burst[l]
    /\ lease \in [Chunks -> [pc : {"idle", "reserving", "leased"}, want : 0..Want, has : 0..Want]]
    /\ call \in [Callers -> Fields]
    /\ asks \in BOOLEAN
    /\ level \in [Limiters -> Int]

(* What one request pays at limiter l: nothing if the profile lacks it.    *)
Cost(l) == IF \E i \in DOMAIN profile.pay : profile.pay[i].lim = l
           THEN profile.pay[CHOOSE i \in DOMAIN profile.pay : profile.pay[i].lim = l].n
           ELSE 0

(* What may go out beyond burst and ticks: one request per goroutine, and  *)
(* on credit one reservation per chunk in flight.                          *)
Overdraft(l) == IF l = BrokerLimiter THEN Cardinality(Chunks) * Want
                ELSE Cardinality(Callers) * Cost(l)

(* The rate that the limiters promise, at the provider's end: over any     *)
(* stretch of time the requests that go out cost no more than the burst,   *)
(* the ticks of that time and what is in hand, although tokens are taken   *)
(* one by one and long before the request is sent, and although a retry    *)
(* pays again.  Those on credit are held to the limiter of the broker,     *)
(* although its permits are lost when the context of Reserve ends and are  *)
(* spent by other goroutines than the one that took them.                  *)
OverrunBounded == \A l \in Limiters : level[l] >= -Overdraft(l)

(* Retry: "If context is canceled, it stops immediately."  A cancelled     *)
(* call begins no further attempt.  The code does not keep it: the sleep   *)
(* of the back-off does not watch the context, and nobody looks at it      *)
(* between the sleep and the next attempt.                                 *)
StopsWhenCancelled ==
    [][\A c \in Callers : call[c].cancelled => call'[c].attempt <= call[c].attempt]_vars

(* What does hold: a cancelled call hands at most one more request to the  *)
(* provider's client, whether it notices in the limiters, in the request   *)
(* or in Retry, and however many attempts it has left.                     *)
OneRequestAfterCancel == \A c \in Callers : call[c].late <= 1

(* Every call whose client has a timeout returns, also one that needs more *)
(* tokens at a limiter than its channel can ever hold, and whatever the    *)
(* others take; and so does every call that is cancelled.                  *)
CallsReturn ==
    \A c \in Callers : call[c].pc # "idle" /\ GivesUp(c) ~> call[c].pc = "idle"
=============================================================================
