--------------------------- MODULE LLMCallProofs ---------------------------
(***************************************************************************)
(* Theorems about LLMCall, for any number of goroutines and limiters and   *)
(* for any profiles.                                                       *)
(***************************************************************************)
EXTENDS LLMCall, FiniteSetTheorems, TLAPS

----------------------------------------------------------------------------
(* Tokens in hand: one pair for every token that f says a member of S,     *)
(* a goroutine or a chunk, has.                                            *)
Hand(S, f, n) == {x \in S \X (1..n) : x[2] <= f[x[1]]}

\* There are at most n for each.
LEMMA HandBounded ==
  ASSUME NEW n \in Nat, NEW S, IsFiniteSet(S), NEW f \in [S -> 0..n]
  PROVE  /\ IsFiniteSet(Hand(S, f, n))
         /\ Cardinality(Hand(S, f, n)) \in Nat
         /\ Cardinality(Hand(S, f, n)) <= Cardinality(S) * n
<1>2. IsFiniteSet(1..n) /\ Cardinality(1..n) = n BY FS_Interval
<1>3. /\ IsFiniteSet(S \X (1..n))
      /\ Cardinality(S \X (1..n)) = Cardinality(S) * n
  BY <1>2, FS_Product
<1>4. Hand(S, f, n) \in SUBSET (S \X (1..n)) BY DEF Hand
<1>5. IsFiniteSet(Hand(S, f, n)) /\ Cardinality(Hand(S, f, n)) <= Cardinality(S) * n
  BY <1>3, <1>4, FS_Subset
<1> QED BY <1>5, FS_CardinalityType

\* Taking a token adds one.
LEMMA HandTakes ==
  ASSUME NEW n \in Nat, NEW S, IsFiniteSet(S), NEW f \in [S -> 0..n], NEW c \in S, f[c] + 1 <= n
  PROVE  Cardinality(Hand(S, [f EXCEPT ![c] = @ + 1], n)) = Cardinality(Hand(S, f, n)) + 1
<1> DEFINE g == [f EXCEPT ![c] = @ + 1]
           x == <<c, f[c] + 1>>
<1>1. x \in S \X (1..n) /\ x \notin Hand(S, f, n) BY DEF Hand
<1>2. Hand(S, g, n) = Hand(S, f, n) \cup {x}
  <2>1. ASSUME NEW y \in Hand(S, g, n) PROVE y \in Hand(S, f, n) \cup {x}
    <3>1. PICK d \in S, i \in 1..n : y = <<d, i>> /\ i <= g[d] BY <2>1 DEF Hand
    <3>2. CASE i <= f[d] BY <3>1, <3>2 DEF Hand
    <3>3. CASE ~(i <= f[d])
      <4>1. d = c /\ i = f[c] + 1 BY <3>1, <3>3
      <4> QED BY <4>1, <3>1
    <3> QED BY <3>2, <3>3
  <2>2. ASSUME NEW y \in Hand(S, f, n) PROVE y \in Hand(S, g, n)
    <3>1. PICK d \in S, i \in 1..n : y = <<d, i>> /\ i <= f[d] BY <2>2 DEF Hand
    <3>2. i <= g[d] BY <3>1
    <3> QED BY <3>1, <3>2 DEF Hand
  <2>3. x \in Hand(S, g, n) BY <1>1 DEF Hand
  <2> QED BY <2>1, <2>2, <2>3
<1>3. IsFiniteSet(Hand(S, f, n)) BY HandBounded
<1> QED BY <1>1, <1>2, <1>3, FS_AddElement

\* g is f after c has spent or lost the x tokens it had.
Drops(S, n, f, c, g, x) ==
    /\ n \in Nat /\ IsFiniteSet(S) /\ f \in [S -> 0..n] /\ c \in S
    /\ g = [f EXCEPT ![c] = 0] /\ x = f[c]

LEMMA HandDrops ==
  ASSUME NEW S, NEW n, NEW f, NEW c, NEW g, NEW x, Drops(S, n, f, c, g, x)
  PROVE  Cardinality(Hand(S, g, n)) = Cardinality(Hand(S, f, n)) - x
<1> USE DEF Drops
<1> DEFINE D == {c} \X (1..f[c])
<1>0. g \in [S -> 0..n] /\ f[c] \in 0..n OBVIOUS
<1>1. IsFiniteSet(D) /\ Cardinality(D) = f[c]
  <2>1. IsFiniteSet(1..f[c]) /\ Cardinality(1..f[c]) = f[c] BY <1>0, FS_Interval
  <2>2. IsFiniteSet({c}) /\ Cardinality({c}) = 1 BY FS_Singleton
  <2>m. PICK m : m = 1..f[c] OBVIOUS
  <2>3. IsFiniteSet({c} \X m) /\ Cardinality({c} \X m) = 1 * f[c] BY <2>1, <2>2, <2>m, FS_Product
  <2> QED BY <2>3, <2>m, <1>0
<1>2. IsFiniteSet(Hand(S, g, n)) /\ Cardinality(Hand(S, g, n)) \in Nat
  BY <1>0, HandBounded
<1>3. Hand(S, g, n) \cap D = {}
  <2>1. ASSUME NEW y \in Hand(S, g, n), y \in D PROVE FALSE
    <3>1. y[1] = c /\ y[2] \in 1..n /\ y[2] <= g[y[1]] BY <2>1 DEF Hand
    <3> QED BY <3>1
  <2> QED BY <2>1
<1>4. Hand(S, f, n) = Hand(S, g, n) \cup D
  <2>1. ASSUME NEW y \in Hand(S, f, n) PROVE y \in Hand(S, g, n) \cup D
    <3>1. PICK d \in S, i \in 1..n : y = <<d, i>> /\ i <= f[d] BY <2>1 DEF Hand
    <3>2. CASE d = c BY <3>1, <3>2
    <3>3. CASE d # c BY <3>1, <3>3 DEF Hand
    <3> QED BY <3>2, <3>3
  <2>2. ASSUME NEW y \in Hand(S, g, n) PROVE y \in Hand(S, f, n)
    <3>1. PICK d \in S, i \in 1..n : y = <<d, i>> /\ i <= g[d] BY <2>2 DEF Hand
    <3>2. d # c BY <3>1
    <3> QED BY <3>1, <3>2 DEF Hand
  <2>3. ASSUME NEW y \in D PROVE y \in Hand(S, f, n)
    <3>1. PICK i \in 1..f[c] : y = <<c, i>> BY <2>3
    <3>2. i \in 1..n /\ i <= f[c] BY <3>1, <1>0
    <3> QED BY <3>1, <3>2 DEF Hand
  <2> QED BY <2>1, <2>2, <2>3
<1>5. Cardinality(Hand(S, f, n)) = Cardinality(Hand(S, g, n)) + f[c]
  <2> HIDE DEF D
  <2>1. Cardinality(Hand(S, g, n) \cup D)
          = Cardinality(Hand(S, g, n)) + Cardinality(D) - Cardinality(Hand(S, g, n) \cap D)
    BY <1>1, <1>2, FS_Union
  <2>2. Cardinality(Hand(S, g, n) \cap D) = 0 BY <1>3, FS_EmptySet
  <2> QED BY <1>0, <1>1, <1>2, <1>4, <2>1, <2>2
<1> QED BY <1>5, <1>2, <1>0

\* Using one up takes one away.
LEMMA HandSpends ==
  ASSUME NEW n \in Nat, NEW S, IsFiniteSet(S), NEW f \in [S -> 0..n], NEW c \in S, f[c] > 0
  PROVE  Cardinality(Hand(S, [f EXCEPT ![c] = @ - 1], n)) = Cardinality(Hand(S, f, n)) - 1
<1> DEFINE g == [f EXCEPT ![c] = @ - 1]
<1>1. g \in [S -> 0..n] /\ g[c] + 1 <= n OBVIOUS
<1>2. [g EXCEPT ![c] = @ + 1] = f
  <2>1. f[c] \in Int /\ g[c] = f[c] - 1 OBVIOUS
  <2>2. g[c] + 1 = f[c] BY <2>1
  <2>3. \A x \in S \ {c} : g[x] = f[x] OBVIOUS
  <2>4. [g EXCEPT ![c] = @ + 1] \in [S -> Int] /\ f \in [S -> Int] BY <1>1
  <2> HIDE DEF g
  <2>5. \A x \in S : [g EXCEPT ![c] = @ + 1][x] = f[x] BY <1>1, <2>2, <2>3
  <2> QED BY <2>4, <2>5
<1>3. Cardinality(Hand(S, g, n)) \in Nat BY <1>1, HandBounded
<1> HIDE DEF g
<1>4. Cardinality(Hand(S, f, n)) = Cardinality(Hand(S, g, n)) + 1 BY <1>1, <1>2, HandTakes
<1> QED BY <1>3, <1>4 DEF g

----------------------------------------------------------------------------
\* What a profile asks for.
LEMMA ProfileFacts ==
  ASSUME NEW p \in Profiles
  PROVE  /\ p.pay \in Seq([lim : Limiters \ {BrokerLimiter}, n : Nat \ {0}, credit : BOOLEAN])
         /\ \A i \in 1..Len(p.pay) :
              p.pay[i].lim \in Limiters \ {BrokerLimiter} /\ p.pay[i].n \in Nat \ {0}
         /\ \A i, j \in 1..Len(p.pay) : p.pay[i].lim = p.pay[j].lim => i = j
<1> DEFINE Fee == [lim : Limiters \ {BrokerLimiter}, n : Nat \ {0}, credit : BOOLEAN]
<1>1. /\ p \in [pay : Seq(Fee), reports : BOOLEAN, timeout : BOOLEAN]
      /\ \A i, j \in 1..Len(p.pay) : p.pay[i].lim = p.pay[j].lim => i = j
  BY CallAssumption
<1>2. p.pay \in Seq(Fee)
  <2> HIDE DEF Fee
  <2> QED BY <1>1
<1>3. \A i \in 1..Len(p.pay) : p.pay[i] \in Fee
  <2> HIDE DEF Fee
  <2> QED BY <1>2
<1> QED BY <1>1, <1>2, <1>3

LEMMA CostFacts ==
  ASSUME TypeOK
  PROVE  /\ \A l \in Limiters : Cost(l) \in Nat
         /\ \A i \in 1..Len(profile.pay) : Cost(profile.pay[i].lim) = profile.pay[i].n
<1>1. profile \in Profiles BY DEF TypeOK
<1>2. DOMAIN profile.pay = 1..Len(profile.pay) BY <1>1, ProfileFacts
<1>3. ASSUME NEW i \in 1..Len(profile.pay) PROVE Cost(profile.pay[i].lim) = profile.pay[i].n
  <2>1. (CHOOSE j \in DOMAIN profile.pay : profile.pay[j].lim = profile.pay[i].lim) = i
    BY <1>1, <1>2, ProfileFacts
  <2> QED BY <1>2, <2>1 DEF Cost
<1>4. ASSUME NEW l \in Limiters PROVE Cost(l) \in Nat
  <2>1. CASE \E i \in DOMAIN profile.pay : profile.pay[i].lim = l
    <3>1. PICK i \in 1..Len(profile.pay) : profile.pay[i].lim = l BY <2>1, <1>2
    <3> QED BY <3>1, <1>3, <1>1, ProfileFacts
  <2>2. CASE ~ \E i \in DOMAIN profile.pay : profile.pay[i].lim = l BY <2>2 DEF Cost
  <2> QED BY <2>1, <2>2
<1> QED BY <1>3, <1>4

----------------------------------------------------------------------------
(* Types *)

LEMMA SizeFacts ==
  /\ IsFiniteSet(Callers) /\ IsFiniteSet(Chunks) /\ BrokerLimiter \in Limiters
  /\ Burst \in [Limiters -> Nat \ {0}]
  /\ Want \in Nat \ {0} /\ MaxAttempts \in Nat \ {0}
  BY CallAssumption

LEMMA IdleType == Idle \in Fields /\ Nothing \in [Limiters -> Nat]
  BY SizeFacts DEF Idle, Fields, Nothing

Leases == [pc : {"idle", "reserving", "leased"}, want : 0..Want, has : 0..Want]

LEMMA InitType == Init => TypeOK
<1> SUFFICES ASSUME Init PROVE TypeOK OBVIOUS
<1>1. call \in [Callers -> Fields] BY IdleType DEF Init
<1>2. /\ tokens \in [Limiters -> Nat] /\ \A l \in Limiters : tokens[l] <= Burst[l]
      /\ level \in [Limiters -> Int]
  BY SizeFacts DEF Init
<1>3. lease \in [Chunks -> Leases]
  BY SizeFacts DEF Init, NoLease, Leases
<1>4. profile \in Profiles /\ asks \in BOOLEAN BY DEF Init
<1> QED BY <1>1, <1>2, <1>3, <1>4 DEF TypeOK, Leases

LEMMA CallTypes ==
  ASSUME TypeOK, NEW c \in Callers, NEW r \in Fields, call' = [call EXCEPT ![c] = r]
  PROVE  call' \in [Callers -> Fields]
  BY DEF TypeOK

\* The tokens of limiter l that each goroutine has taken and not used.
Paid(l) == [c \in Callers |-> call[c].paid[l]]

\* What a goroutine has paid and what it has still to pay.
PaidRight(c) ==
    /\ call[c].pc # "stage" => call[c].paid = Nothing
    /\ call[c].pc = "timer" => call[c].stage = 1
    /\ \A l \in Limiters : call[c].paid[l] <= Cost(l)
    /\ call[c].pc = "stage" =>
         /\ call[c].stage \in 1..(Len(profile.pay) + 1)
         /\ \A j \in call[c].stage..Len(profile.pay) :
              /\ call[c].paid[profile.pay[j].lim] < profile.pay[j].n
              /\ j > call[c].stage => call[c].paid[profile.pay[j].lim] = 0

\* A request after the end of the context is the last one.
LateIsLast(c) ==
    call[c].late > 0 => call[c].late = 1 /\ call[c].cancelled /\ call[c].pc = "sent"

\* No more tokens are about, in the channel or in hand, than the ideal bucket
\* accounts for, give or take one request per goroutine.
Accounted(l) ==
    level[l] + Cardinality(Callers) * Cost(l) >= tokens[l] + Cardinality(Hand(Callers, Paid(l), Cost(l)))

Inv ==
    /\ TypeOK
    /\ \A c \in Callers : PaidRight(c) /\ LateIsLast(c)
    /\ \A l \in Limiters \ {BrokerLimiter} : Accounted(l)

LEMMA PaidType ==
  ASSUME TypeOK, \A c \in Callers : PaidRight(c), NEW l \in Limiters
  PROVE  Paid(l) \in [Callers -> 0..Cost(l)]
<1>1. \A c \in Callers : call[c].paid[l] \in Nat BY DEF TypeOK, Fields
<1>2. Cost(l) \in Nat BY CostFacts
<1> QED BY <1>1, <1>2 DEF Paid, PaidRight

\* What is no longer in hand when c uses or loses what it has paid.
LEMMA PaidDrops ==
  ASSUME TypeOK, \A c \in Callers : PaidRight(c), NEW l \in Limiters, NEW c \in Callers
  PROVE  Cardinality(Hand(Callers, [Paid(l) EXCEPT ![c] = 0], Cost(l)))
           = Cardinality(Hand(Callers, Paid(l), Cost(l))) - Paid(l)[c]
<1>1. PICK f, g, n, x :
        f = Paid(l) /\ n = Cost(l) /\ g = [f EXCEPT ![c] = 0] /\ x = f[c]
  OBVIOUS
<1>2. n \in Nat /\ f \in [Callers -> 0..n] BY <1>1, CostFacts, PaidType
<1>3. Drops(Callers, n, f, c, g, x) BY <1>1, <1>2, SizeFacts DEF Drops
<1>4. Cardinality(Hand(Callers, g, n)) = Cardinality(Hand(Callers, f, n)) - x
  BY <1>3, HandDrops
<1> QED BY <1>1, <1>4

LEMMA InitInv == Init => Inv
<1> SUFFICES ASSUME Init PROVE Inv OBVIOUS
<1>1. TypeOK BY InitType
<1>2. \A c \in Callers : PaidRight(c) /\ LateIsLast(c)
  BY <1>1, CostFacts DEF Init, Idle, Nothing, PaidRight, LateIsLast
<1>3. ASSUME NEW l \in Limiters, l # BrokerLimiter PROVE Accounted(l)
  <2>1. Cost(l) \in Nat BY <1>1, CostFacts
  <2>2. Paid(l) \in [Callers -> 0..Cost(l)] BY <1>1, <1>2, PaidType
  <2>3. /\ Cardinality(Hand(Callers, Paid(l), Cost(l))) \in Nat
        /\ Cardinality(Hand(Callers, Paid(l), Cost(l))) <= Cardinality(Callers) * Cost(l)
    BY <2>1, <2>2, SizeFacts, HandBounded
  <2>4. Cardinality(Callers) * Cost(l) \in Int
    BY <2>1, SizeFacts, FS_CardinalityType
  <2>5. level[l] = tokens[l] /\ tokens[l] \in Nat BY <1>1 DEF Init, TypeOK
  <2> QED BY <2>3, <2>4, <2>5 DEF Accounted
<1> QED BY <1>1, <1>2, <1>3 DEF Inv

----------------------------------------------------------------------------
(* Steps that leave the goroutines alone *)

\* The cost is fixed with the profile.
LEMMA CostFixed ==
  ASSUME profile' = profile
  PROVE  \A l \in Limiters : Cost(l)' = Cost(l)
  BY DEF Cost

LEMMA CallsAlone ==
  ASSUME Inv, UNCHANGED <<profile, call>>
  PROVE  \A c \in Callers : PaidRight(c)' /\ LateIsLast(c)'
  BY CostFixed DEF Inv, PaidRight, LateIsLast

LEMMA TickStep ==
  ASSUME Inv, NEW m \in Limiters, Tick(m)
  PROVE  Inv'
<1> USE DEF Inv
<1>1. TypeOK'
  <2>1. Burst[m] \in Nat /\ tokens[m] \in Nat /\ level[m] \in Int BY SizeFacts DEF TypeOK
  <2> QED BY <2>1, SizeFacts DEF Tick, TypeOK, Least
<1>2. \A c \in Callers : PaidRight(c)' /\ LateIsLast(c)' BY CallsAlone DEF Tick
<1>3. ASSUME NEW l \in Limiters, l # BrokerLimiter PROVE Accounted(l)'
  <2> DEFINE h == Cardinality(Hand(Callers, Paid(l), Cost(l)))
             k == Cardinality(Callers) * Cost(l)
  <2>1. Cost(l) \in Nat /\ Paid(l) \in [Callers -> 0..Cost(l)] BY CostFacts, PaidType
  <2>2. h \in Nat /\ h <= k BY <2>1, SizeFacts, HandBounded
  <2>3. k \in Nat BY <2>1, SizeFacts, FS_CardinalityType
  <2>4. Cost(l)' = Cost(l) /\ Paid(l)' = Paid(l) BY CostFixed DEF Tick, Paid
  <2>5. h' = h /\ k' = k BY <2>4 DEF Hand
  <2>6. /\ level[l] \in Int /\ tokens[l] \in Nat /\ Burst[l] \in Nat
        /\ tokens[l] <= Burst[l] BY SizeFacts DEF TypeOK
  <2>7. level[l] + k >= tokens[l] + h BY <1>3 DEF Accounted
  <2>8. level'[l] + k >= tokens'[l] + h
    <3> HIDE DEF h, k
    <3>1. CASE l # m
      <4>1. level'[l] = level[l] /\ tokens'[l] = tokens[l] BY <3>1 DEF Tick, TypeOK
      <4> QED BY <4>1, <2>7
    <3>2. CASE l = m
      <4>1. /\ level'[l] = Least(level[l] + 1, Burst[l])
            /\ tokens'[l] = Least(tokens[l] + 1, Burst[l])
        BY <3>2 DEF Tick, TypeOK
      <4> QED BY <4>1, <2>2, <2>3, <2>6, <2>7 DEF Least
    <3> QED BY <3>1, <3>2
  <2> HIDE DEF h, k
  <2>9. (level[l] + k >= tokens[l] + h)' BY <2>8, <2>5
  <2> QED BY <2>9 DEF Accounted, h, k
<1> QED BY <1>1, <1>2, <1>3

LEMMA LaunchStep ==
  ASSUME Inv, NEW j \in Chunks, Launch(j)
  PROVE  Inv'
<1> USE DEF Inv
<1>1. UNCHANGED <<profile, call, asks, level>>
  BY DEF Launch, ReserveBegin, ReserveAcquire, WithCredits, ReserveCancelled, ChunkDone
<1>2. /\ tokens' \in [Limiters -> Nat]
      /\ \A l \in Limiters : tokens'[l] <= tokens[l]
  BY SizeFacts DEF Launch, ReserveBegin, ReserveAcquire, WithCredits, ReserveCancelled, ChunkDone, TypeOK
<1>3. \A l \in Limiters : tokens'[l] <= Burst[l]
  <2>1. \A l \in Limiters : /\ tokens[l] \in Nat /\ tokens'[l] \in Nat
                           /\ Burst[l] \in Nat /\ tokens[l] <= Burst[l]
    BY <1>2, SizeFacts DEF TypeOK
  <2> QED BY <1>2, <2>1
<1>4. \E v \in Leases : lease' = [lease EXCEPT ![j] = v]
  <2>0. lease \in [Chunks -> Leases] /\ lease[j] \in Leases BY DEF TypeOK, Leases
  <2>1. NoLease \in Leases BY SizeFacts DEF NoLease, Leases
  <2>2. CASE ReserveCancelled(j) \/ ChunkDone(j) BY <2>1, <2>2 DEF ReserveCancelled, ChunkDone
  <2>3. CASE ReserveBegin(j)
    <3>1. \A w \in 1..Want : [pc |-> "reserving", want |-> w, has |-> 0] \in Leases
      BY SizeFacts DEF Leases
    <3> QED BY <2>3, <3>1 DEF ReserveBegin
  <2>4. CASE ReserveAcquire(j)
    <3>1. [lease[j] EXCEPT !.has = @ + 1] \in Leases BY <2>0, <2>4, SizeFacts DEF ReserveAcquire, Leases
    <3>2. lease' = [lease EXCEPT ![j] = [lease[j] EXCEPT !.has = @ + 1]]
      BY <2>0, <2>4 DEF ReserveAcquire
    <3> QED BY <3>1, <3>2
  <2>5. CASE WithCredits(j)
    <3>1. [lease[j] EXCEPT !.pc = "leased"] \in Leases BY <2>0 DEF Leases
    <3>2. lease' = [lease EXCEPT ![j] = [lease[j] EXCEPT !.pc = "leased"]]
      BY <2>0, <2>5 DEF WithCredits
    <3> QED BY <3>1, <3>2
  <2> QED BY <2>2, <2>3, <2>4, <2>5 DEF Launch
<1>5. lease' \in [Chunks -> Leases] BY <1>4 DEF TypeOK, Leases
<1>6. TypeOK' BY <1>1, <1>2, <1>3, <1>5 DEF TypeOK, Leases
<1>7. \A c \in Callers : PaidRight(c)' /\ LateIsLast(c)' BY <1>1, CallsAlone
<1>8. ASSUME NEW l \in Limiters, l # BrokerLimiter PROVE Accounted(l)'
  <2> DEFINE h == Cardinality(Hand(Callers, Paid(l), Cost(l)))
             k == Cardinality(Callers) * Cost(l)
  <2>1. Cost(l) \in Nat /\ Paid(l) \in [Callers -> 0..Cost(l)] BY CostFacts, PaidType
  <2>2. h \in Nat BY <2>1, SizeFacts, HandBounded
  <2>3. k \in Nat BY <2>1, SizeFacts, FS_CardinalityType
  <2>4. Cost(l)' = Cost(l) /\ Paid(l)' = Paid(l) BY <1>1, CostFixed DEF Paid
  <2>5. h' = h /\ k' = k BY <2>4 DEF Hand
  <2>6. level'[l] = level[l] /\ level[l] \in Int /\ tokens[l] \in Nat /\ tokens'[l] \in Nat
    BY <1>1, <1>2 DEF TypeOK
  <2>7. level[l] + k >= tokens[l] + h BY <1>8 DEF Accounted
  <2> HIDE DEF h, k
  <2>8. (level[l] + k >= tokens[l] + h)' BY <1>2, <2>2, <2>3, <2>5, <2>6, <2>7
  <2> QED BY <2>8 DEF Accounted, h, k
<1> QED BY <1>6, <1>7, <1>8

----------------------------------------------------------------------------
(* Steps of a goroutine *)

\* What a step of c does to the others.
LEMMA OthersAlone ==
  ASSUME Inv, NEW c \in Callers, NEW r, call' = [call EXCEPT ![c] = r], profile' = profile,
         NEW d \in Callers, d # c
  PROVE  PaidRight(d)' /\ LateIsLast(d)'
<1>1. call'[d] = call[d] BY DEF Inv, TypeOK
<1> QED BY <1>1, CostFixed DEF Inv, PaidRight, LateIsLast

\* A step that takes no token and leaves the payment of c as it is, or ends it.
LEMMA KeepsAccount ==
  ASSUME Inv, TypeOK', NEW c \in Callers, NEW r \in Fields, call' = [call EXCEPT ![c] = r],
         r.paid \in {call[c].paid, Nothing}, UNCHANGED <<profile, tokens>>,
         NEW l \in Limiters, l # BrokerLimiter, level'[l] = level[l]
  PROVE  Accounted(l)'
<1> USE DEF Inv
<1> DEFINE h == Cardinality(Hand(Callers, Paid(l), Cost(l)))
           k == Cardinality(Callers) * Cost(l)
<1>1. Cost(l) \in Nat /\ Paid(l) \in [Callers -> 0..Cost(l)] BY CostFacts, PaidType
<1>2. h \in Nat BY <1>1, SizeFacts, HandBounded
<1>3. k \in Nat BY <1>1, SizeFacts, FS_CardinalityType
<1>4. Cost(l)' = Cost(l) BY CostFixed
<1>5. h' \in Nat /\ h' <= h
  <2>1. CASE r.paid = call[c].paid
    <3>1. Paid(l)' = Paid(l) BY <2>1 DEF Paid, TypeOK
    <3>2. h' = h BY <3>1, <1>4 DEF Hand
    <3> QED BY <3>2, <1>2
  <2>2. CASE r.paid = Nothing
    <3>1. Paid(l)' = [Paid(l) EXCEPT ![c] = 0] BY <2>2 DEF Paid, TypeOK, Nothing
    <3>2. h' = Cardinality(Hand(Callers, [Paid(l) EXCEPT ![c] = 0], Cost(l))) BY <3>1, <1>4 DEF Hand
    <3>3. h' = h - Paid(l)[c] BY <3>2, PaidDrops
    <3>4. [Paid(l) EXCEPT ![c] = 0] \in [Callers -> 0..Cost(l)] BY <1>1
    <3>5. h' \in Nat BY <3>2, <3>4, <1>1, SizeFacts, HandBounded
    <3>6. Paid(l)[c] \in Nat BY <1>1
    <3> HIDE DEF h
    <3> QED BY <3>3, <3>5, <3>6, <1>2
  <2> QED BY <2>1, <2>2
<1>6. k' = k BY <1>4
<1>7. level[l] \in Int /\ tokens[l] \in Nat BY DEF TypeOK
<1>8. level[l] + k >= tokens[l] + h BY DEF Accounted
<1> HIDE DEF h, k
<1>9. (level[l] + k >= tokens[l] + h)' BY <1>2, <1>3, <1>5, <1>6, <1>7, <1>8
<1> QED BY <1>9 DEF Accounted, h, k

\* So what remains to be shown of such a step is what it does to c.
LEMMA OwnStep ==
  ASSUME Inv, NEW c \in Callers, NEW r \in Fields, call' = [call EXCEPT ![c] = r],
         r.paid \in {call[c].paid, Nothing}, UNCHANGED <<profile, tokens>>,
         level' \in [Limiters -> Int],
         \A l \in Limiters \ {BrokerLimiter} : level'[l] = level[l],
         lease' \in [Chunks -> Leases], asks' \in BOOLEAN, PaidRight(c)', LateIsLast(c)'
  PROVE  Inv'
<1>1. TypeOK' BY CallTypes DEF Inv, TypeOK, Leases
<1>2. \A d \in Callers : PaidRight(d)' /\ LateIsLast(d)' BY OthersAlone
<1>3. \A l \in Limiters \ {BrokerLimiter} : Accounted(l)' BY <1>1, KeepsAccount
<1> QED BY <1>1, <1>2, <1>3 DEF Inv

\* A goroutine that has paid nothing and has everything ahead of it.
LEMMA NothingPaid ==
  ASSUME Inv, NEW c \in Callers, profile' = profile, call'[c].paid = Nothing,
         call'[c].pc \in {"stage", "timer"} => call'[c].stage = 1
  PROVE  PaidRight(c)'
<1>1. profile \in Profiles BY DEF Inv, TypeOK
<1>2. \A l \in Limiters : Cost(l)' \in Nat BY CostFixed, CostFacts DEF Inv
<1>3. /\ Len(profile.pay) \in Nat
      /\ \A j \in 1..Len(profile.pay) :
           profile.pay[j].lim \in Limiters /\ profile.pay[j].n \in Nat \ {0}
  BY <1>1, ProfileFacts
<1> QED BY <1>2, <1>3 DEF PaidRight, Nothing

LEMMA ReturnStep ==
  ASSUME Inv, NEW c \in Callers, Return(c), UNCHANGED <<profile, tokens, lease, level>>,
         asks' \in BOOLEAN
  PROVE  Inv'
<1>1. call'[c] = Idle BY DEF Return, Inv, TypeOK
<1>2. PaidRight(c)' BY <1>1, NothingPaid DEF Idle
<1>3. LateIsLast(c)' BY <1>1 DEF LateIsLast, Idle
<1>4. Idle.paid = Nothing BY DEF Idle
<1>5. level' \in [Limiters -> Int] /\ lease' \in [Chunks -> Leases] BY DEF Inv, TypeOK, Leases
<1> QED BY <1>2, <1>3, <1>4, <1>5, IdleType, OwnStep DEF Return

\* A goroutine that goes on to another place with what it has paid.
LEMMA MoveStep ==
  ASSUME Inv, NEW c \in Callers, NEW r \in Fields, call' = [call EXCEPT ![c] = r],
         call[c].paid = Nothing, r.paid = Nothing, r.pc \in {"stage", "timer"} => r.stage = 1,
         r.late > 0 => r.late = 1 /\ r.cancelled /\ r.pc = "sent",
         UNCHANGED <<profile, tokens, lease, level>>, asks' \in BOOLEAN
  PROVE  Inv'
<1>1. call'[c] = r BY DEF Inv, TypeOK
<1>2. PaidRight(c)' BY <1>1, NothingPaid
<1>3. LateIsLast(c)' BY <1>1 DEF LateIsLast
<1>4. lease' \in [Chunks -> Leases] /\ level' \in [Limiters -> Int] BY DEF Inv, TypeOK, Leases
<1> QED BY <1>2, <1>3, <1>4, OwnStep

LEMMA StartStep ==
  ASSUME Inv, NEW c \in Callers, Start(c)
  PROVE  Inv'
<1> DEFINE r == [Idle EXCEPT !.pc = IF Aware /\ asks THEN "timer" ELSE "stage",
                             !.attempt = 1, !.stage = 1]
<1>1. call' = [call EXCEPT ![c] = r] BY DEF Start
<1>2. r \in Fields
  <2>1. 1 \in 0..MaxAttempts BY SizeFacts
  <2> QED BY <2>1, IdleType DEF Fields
<1>3. r.paid = Nothing /\ r.stage = 1 /\ r.late = 0 BY DEF Idle
<1>4. call[c].paid = Nothing BY DEF Start, Inv, PaidRight
<1>5. UNCHANGED <<profile, tokens, lease, level>> /\ asks' \in BOOLEAN
  BY DEF Start, Inv, TypeOK
<1> HIDE DEF r
<1>6. r.late > 0 => r.late = 1 /\ r.cancelled /\ r.pc = "sent" BY <1>3
<1>7. r.pc \in {"stage", "timer"} => r.stage = 1 BY <1>3
<1> QED BY <1>1, <1>2, <1>3, <1>4, <1>5, <1>6, <1>7, MoveStep

LEMMA SignalTimerStep ==
  ASSUME Inv, NEW c \in Callers, SignalTimer(c)
  PROVE  Inv'
<1> DEFINE r == [call[c] EXCEPT !.pc = "stage"]
<1>0. call[c] \in Fields BY DEF Inv, TypeOK
<1>1. call' = [call EXCEPT ![c] = r] BY DEF SignalTimer, Inv, TypeOK
<1>2. r \in Fields BY <1>0 DEF Fields
<1>3. call[c].paid = Nothing /\ call[c].stage = 1 BY DEF SignalTimer, Inv, PaidRight
<1>4. r.paid = Nothing /\ r.stage = 1 BY <1>0, <1>3 DEF Fields
<1>5. r.late = 0
  <2>1. ~(call[c].late > 0) BY DEF SignalTimer, Inv, LateIsLast
  <2>2. call[c].late \in 0..2 BY <1>0 DEF Fields
  <2> QED BY <2>1, <2>2, <1>0 DEF Fields
<1>6. UNCHANGED <<profile, tokens, lease, level>> /\ asks' \in BOOLEAN
  BY DEF SignalTimer, Inv, TypeOK
<1> HIDE DEF r
<1>7. r.late > 0 => r.late = 1 /\ r.cancelled /\ r.pc = "sent" BY <1>5
<1>8. r.pc \in {"stage", "timer"} => r.stage = 1 BY <1>4
<1> QED BY <1>1, <1>2, <1>3, <1>4, <1>6, <1>7, <1>8, MoveStep

LEMMA CancelStep ==
  ASSUME Inv, NEW c \in Callers, Cancel(c)
  PROVE  Inv'
<1> DEFINE r == [call[c] EXCEPT !.cancelled = TRUE]
<1>0. call[c] \in Fields BY DEF Inv, TypeOK
<1>1. call' = [call EXCEPT ![c] = r] BY DEF Cancel, Inv, TypeOK
<1>2. /\ r \in Fields /\ r.paid = call[c].paid /\ r.pc = call[c].pc /\ r.stage = call[c].stage
      /\ r.late = call[c].late /\ r.cancelled
  BY <1>0 DEF Fields
<1>3. call'[c] = r BY <1>1 DEF Inv, TypeOK
<1>4. UNCHANGED <<profile, tokens, lease, level>> /\ asks' \in BOOLEAN
      /\ lease' \in [Chunks -> Leases] /\ level' \in [Limiters -> Int]
  BY DEF Cancel, Inv, TypeOK, Leases
<1> HIDE DEF r
<1>5. PaidRight(c)' BY <1>2, <1>3, <1>4, CostFixed DEF Inv, PaidRight
<1>6. LateIsLast(c)' BY <1>2, <1>3 DEF Inv, LateIsLast
<1> QED BY <1>1, <1>2, <1>4, <1>5, <1>6, OwnStep

LEMMA TakeCreditStep ==
  ASSUME Inv, NEW c \in Callers, TakeCredit(c)
  PROVE  Inv'
<1> DEFINE r == [call[c] EXCEPT !.stage = @ + 1]
           s == call[c].stage
           n == Len(profile.pay)
<1>0. call[c] \in Fields /\ s \in Nat BY DEF Inv, TypeOK, Fields
<1>1. call' = [call EXCEPT ![c] = r] BY DEF TakeCredit, Inv, TypeOK
<1>2. /\ r \in Fields /\ r.paid = call[c].paid /\ r.pc = call[c].pc /\ r.stage = s + 1
      /\ r.late = call[c].late /\ r.cancelled = call[c].cancelled
  BY <1>0 DEF Fields
<1>3. call'[c] = r BY <1>1 DEF Inv, TypeOK
<1>4. UNCHANGED <<profile, tokens>> /\ asks' \in BOOLEAN
  BY DEF TakeCredit, Inv, TypeOK
<1>l. lease' \in [Chunks -> Leases]
  <2> DEFINE k == ChunkOf[c]
             v == [lease[k] EXCEPT !.has = @ - 1]
  <2>1. k \in Chunks /\ lease[k].has > 0 /\ lease' = [lease EXCEPT ![k].has = @ - 1]
    BY DEF TakeCredit, HasCredit
  <2>2. lease \in [Chunks -> Leases] BY DEF Inv, TypeOK, Leases
  <2>3. v \in Leases BY <2>1, <2>2, SizeFacts DEF Leases
  <2>4. lease' = [lease EXCEPT ![k] = v] BY <2>1, <2>2
  <2> QED BY <2>2, <2>3, <2>4
<1>5. call[c].pc = "stage" /\ s \in 1..n /\ n \in Nat
  <2>1. n \in Nat BY ProfileFacts DEF Inv, TypeOK
  <2> QED BY <1>0, <2>1 DEF TakeCredit, Staged, Inv, PaidRight
<1>6. PaidRight(c) BY DEF Inv
<1>7. \A j \in 1..n : profile.pay[j].n \in Nat \ {0} BY ProfileFacts DEF Inv, TypeOK
<1> HIDE DEF r
<1>8. PaidRight(c)'
  <2>1. \A l \in Limiters : call[c].paid[l] <= Cost(l)' BY <1>4, <1>6, CostFixed DEF PaidRight
  <2>2. s + 1 \in 1..(n + 1) BY <1>5
  <2>3. ASSUME NEW j \in (s + 1)..n
        PROVE  call[c].paid[profile.pay[j].lim] = 0 /\ 0 < profile.pay[j].n
    <3>1. j \in s..n /\ j > s /\ j \in 1..n BY <1>5
    <3> QED BY <3>1, <1>5, <1>6, <1>7 DEF PaidRight
  <2> QED BY <1>2, <1>3, <1>4, <1>5, <2>1, <2>2, <2>3 DEF PaidRight
<1>9. LateIsLast(c)' BY <1>2, <1>3 DEF Inv, LateIsLast
<1>10. /\ level' \in [Limiters -> Int]
       /\ \A l \in Limiters \ {BrokerLimiter} : level'[l] = level[l]
  BY SizeFacts DEF TakeCredit, Inv, TypeOK
<1> QED BY <1>1, <1>2, <1>4, <1>8, <1>9, <1>10, <1>l, OwnStep

\* Two updates of one call, written as one new record.
LEMMA PaidAndStage ==
  ASSUME NEW k \in [Callers -> Fields], NEW c \in Callers, NEW m, NEW t
  PROVE  [k EXCEPT ![c].paid[m] = @ + 1, ![c].stage = t]
           = [k EXCEPT ![c] = [k[c] EXCEPT !.paid = [k[c].paid EXCEPT ![m] = k[c].paid[m] + 1],
                                           !.stage = t]]
  BY DEF Fields

LEMMA AcquireStep ==
  ASSUME Inv, NEW c \in Callers, Acquire(c)
  PROVE  Inv'
<1> USE DEF Inv
<1> DEFINE s == call[c].stage
           n == Len(profile.pay)
           m == profile.pay[s].lim
           x == call[c].paid[m]
           t == IF x + 1 = profile.pay[s].n THEN s + 1 ELSE s
           r == [call[c] EXCEPT !.paid = [call[c].paid EXCEPT ![m] = x + 1], !.stage = t]
<1>0. call[c] \in Fields /\ s \in Nat /\ call[c].paid \in [Limiters -> Nat]
  BY DEF TypeOK, Fields
<1>1. call[c].pc = "stage" /\ s \in 1..n /\ n \in Nat
  <2>1. n \in Nat BY ProfileFacts DEF TypeOK
  <2> QED BY <1>0, <2>1 DEF Acquire, Staged, PaidRight
<1>2. /\ m \in Limiters /\ profile.pay[s].n \in Nat \ {0} /\ x \in Nat
      /\ x + 1 <= profile.pay[s].n
      /\ tokens[m] > 0 /\ tokens' = [tokens EXCEPT ![m] = @ - 1]
      /\ UNCHANGED <<profile, lease, asks, level>>
  <2>1. m \in Limiters /\ profile.pay[s].n \in Nat \ {0} BY <1>1, ProfileFacts DEF TypeOK
  <2>2. x \in Nat BY <1>0, <2>1
  <2>3. x < profile.pay[s].n BY <1>1 DEF PaidRight
  <2>4. /\ tokens[m] > 0 /\ tokens' = [tokens EXCEPT ![m] = @ - 1]
        /\ UNCHANGED <<profile, lease, asks, level>>
    BY DEF Acquire, Stage
  <2>5. x + 1 <= profile.pay[s].n BY <2>1, <2>2, <2>3
  <2> QED BY <2>1, <2>2, <2>4, <2>5
<1>3. call' = [call EXCEPT ![c] = r]
  <2>1. call' = [call EXCEPT ![c].paid[m] = @ + 1, ![c].stage = t] BY DEF Acquire, Stage
  <2>2. call \in [Callers -> Fields] BY DEF TypeOK
  <2> HIDE DEF t, m
  <2> QED BY <2>1, <2>2, PaidAndStage
<1>4. /\ r \in Fields /\ r.paid = [call[c].paid EXCEPT ![m] = x + 1] /\ r.pc = "stage"
      /\ r.stage = t /\ r.late = call[c].late /\ r.cancelled = call[c].cancelled
  <2>1. t \in Nat BY <1>0
  <2> HIDE DEF t, m, x
  <2>2. [call[c].paid EXCEPT ![m] = x + 1] \in [Limiters -> Nat] BY <1>0, <1>2
  <2> QED BY <1>0, <1>1, <2>1, <2>2 DEF Fields
<1>5. call'[c] = r BY <1>3 DEF TypeOK
<1> HIDE DEF r
<1>6. TypeOK'
  <2>1. call' \in [Callers -> Fields] BY <1>3, <1>4, CallTypes
  <2>2. tokens' \in [Limiters -> Nat] /\ \A l \in Limiters : tokens'[l] <= Burst[l]
    <3>1. \A l \in Limiters : tokens[l] \in Nat /\ Burst[l] \in Nat /\ tokens[l] <= Burst[l]
      BY SizeFacts DEF TypeOK
    <3>2. tokens \in [Limiters -> Nat] BY DEF TypeOK
    <3> HIDE DEF m
    <3> QED BY <1>2, <3>1, <3>2
  <2> QED BY <1>2, <2>1, <2>2 DEF TypeOK
<1>7. PaidRight(c)'
  <2>1. ASSUME NEW l \in Limiters PROVE r.paid[l] <= Cost(l)'
    <3>1. Cost(l)' = Cost(l) BY <1>2, CostFixed
    <3>2. CASE l # m BY <3>1, <3>2, <1>0, <1>4 DEF PaidRight
    <3>3. CASE l = m
      <4>1. Cost(m) = profile.pay[s].n BY <1>1, CostFacts
      <4>2. r.paid[l] = x + 1 BY <3>3, <1>0, <1>2, <1>4
      <4> QED BY <3>1, <3>3, <4>1, <4>2, <1>2
    <3> QED BY <3>2, <3>3
  <2>2. t \in 1..(n + 1) BY <1>1
  <2>3. ASSUME NEW j \in t..n
        PROVE  /\ r.paid[profile.pay[j].lim] < profile.pay[j].n
               /\ j > t => r.paid[profile.pay[j].lim] = 0
    <3>1. j \in s..n /\ j \in 1..n /\ profile.pay[j].n \in Nat \ {0}
          /\ profile.pay[j].lim \in Limiters
      <4>1. j \in s..n /\ j \in 1..n BY <1>1
      <4> QED BY <4>1, ProfileFacts DEF TypeOK
    <3>2. CASE j = s
      <4>1. t = s /\ x + 1 # profile.pay[s].n BY <3>2, <1>1
      <4>2. r.paid[profile.pay[j].lim] = x + 1 BY <3>2, <1>0, <1>2, <1>4
      <4>3. ~(j > t) BY <3>2, <4>1, <1>1
      <4> HIDE DEF x, t, m
      <4>4. x + 1 < profile.pay[s].n
        <5>1. x \in Nat /\ profile.pay[s].n \in Nat /\ x + 1 <= profile.pay[s].n BY <1>2
        <5> QED BY <4>1, <5>1
      <4> QED BY <3>2, <4>2, <4>3, <4>4
    <3>3. CASE j # s
      <4>1. j > s BY <3>1, <3>3, <1>1
      <4>2. call[c].paid[profile.pay[j].lim] = 0 BY <3>1, <4>1, <1>1 DEF PaidRight
      <4>3. profile.pay[j].lim # m BY <3>1, <3>3, <1>1, ProfileFacts DEF TypeOK
      <4>4. r.paid[profile.pay[j].lim] = 0 BY <4>2, <4>3, <3>1, <1>0, <1>4
      <4> QED BY <4>4, <3>1
    <3> QED BY <3>2, <3>3
  <2> HIDE DEF t
  <2> QED BY <1>2, <1>4, <1>5, <2>1, <2>2, <2>3 DEF PaidRight
<1>8. LateIsLast(c)' BY <1>1, <1>4, <1>5 DEF LateIsLast
<1>9. \A d \in Callers : PaidRight(d)' /\ LateIsLast(d)' BY <1>2, <1>3, <1>7, <1>8, OthersAlone
<1>10. ASSUME NEW l \in Limiters, l # BrokerLimiter PROVE Accounted(l)'
  <2> DEFINE h == Cardinality(Hand(Callers, Paid(l), Cost(l)))
             k == Cardinality(Callers) * Cost(l)
  <2>1. Cost(l) \in Nat /\ Paid(l) \in [Callers -> 0..Cost(l)] BY CostFacts, PaidType
  <2>2. h \in Nat BY <2>1, SizeFacts, HandBounded
  <2>3. k \in Nat BY <2>1, SizeFacts, FS_CardinalityType
  <2>4. Cost(l)' = Cost(l) BY <1>2, CostFixed
  <2>5. k' = k BY <2>4
  <2>6. level'[l] = level[l] /\ level[l] \in Int /\ tokens[l] \in Nat BY <1>2 DEF TypeOK
  <2>7. level[l] + k >= tokens[l] + h BY <1>10 DEF Accounted
  <2>8. tokens'[l] + h' = tokens[l] + h
    <3>1. CASE l # m
      <4>1. Paid(l)' = Paid(l) BY <3>1, <1>0, <1>3, <1>4 DEF Paid, TypeOK
      <4>2. h' = h BY <4>1, <2>4 DEF Hand
      <4>3. tokens'[l] = tokens[l] BY <3>1, <1>2 DEF TypeOK
      <4> QED BY <4>2, <4>3
    <3>2. CASE l = m
      <4>1. Paid(l)' = [Paid(l) EXCEPT ![c] = @ + 1] BY <3>2, <1>0, <1>3, <1>4 DEF Paid, TypeOK
      <4>2. Paid(l)[c] + 1 <= Cost(l) BY <3>2, <1>1, <1>2, CostFacts DEF Paid
      <4>3. h' = Cardinality(Hand(Callers, [Paid(l) EXCEPT ![c] = @ + 1], Cost(l)))
        BY <4>1, <2>4 DEF Hand
      <4>4. h' = h + 1 BY <4>2, <4>3, <2>1, SizeFacts, HandTakes
      <4>5. tokens'[l] = tokens[l] - 1 BY <3>2, <1>2 DEF TypeOK
      <4> HIDE DEF h
      <4> QED BY <4>4, <4>5, <2>2, <2>6
    <3> QED BY <3>1, <3>2
  <2> HIDE DEF h, k
  <2>9. (level[l] + k >= tokens[l] + h)' BY <2>5, <2>6, <2>7, <2>8
  <2> QED BY <2>9 DEF Accounted, h, k
<1> QED BY <1>6, <1>9, <1>10

LEMMA SendStep ==
  ASSUME Inv, NEW c \in Callers, Send(c)
  PROVE  Inv'
<1> USE DEF Inv
<1> DEFINE z == IF call[c].cancelled THEN Least(call[c].late + 1, 2) ELSE call[c].late
           r == [call[c] EXCEPT !.pc = "sent", !.paid = Nothing, !.late = z]
<1>0. call[c] \in Fields /\ call[c].paid \in [Limiters -> Nat] BY DEF TypeOK, Fields
<1>1. call' = [call EXCEPT ![c] = r] BY DEF Send, TypeOK, Fields
<1>2. call[c].late = 0
  <2>1. ~(call[c].late > 0) BY DEF Send, LateIsLast
  <2>2. call[c].late \in 0..2 BY <1>0 DEF Fields
  <2> QED BY <2>1, <2>2
<1>3. z \in 0..2 /\ (z > 0 => z = 1 /\ call[c].cancelled) BY <1>2 DEF Least
<1> HIDE DEF z
<1>4. /\ r \in Fields /\ r.paid = Nothing /\ r.pc = "sent" /\ r.late = z
      /\ r.cancelled = call[c].cancelled
  BY <1>0, <1>3, IdleType DEF Fields
<1>5. call'[c] = r BY <1>1 DEF TypeOK
<1> HIDE DEF r
<1>6. UNCHANGED <<profile, tokens, lease, asks>>
      /\ level' = [l \in Limiters |-> level[l] - call[c].paid[l]]
  BY DEF Send
<1>7. TypeOK'
  <2>1. call' \in [Callers -> Fields] BY <1>1, <1>4, CallTypes
  <2>2. level' \in [Limiters -> Int] BY <1>0, <1>6 DEF TypeOK
  <2> QED BY <1>6, <2>1, <2>2 DEF TypeOK
<1>8. PaidRight(c)' BY <1>4, <1>5, <1>6, NothingPaid
<1>9. LateIsLast(c)' BY <1>3, <1>4, <1>5 DEF LateIsLast
<1>10. \A d \in Callers : PaidRight(d)' /\ LateIsLast(d)' BY <1>1, <1>6, <1>8, <1>9, OthersAlone
<1>11. ASSUME NEW l \in Limiters, l # BrokerLimiter PROVE Accounted(l)'
  <2> DEFINE h == Cardinality(Hand(Callers, Paid(l), Cost(l)))
             k == Cardinality(Callers) * Cost(l)
             q == call[c].paid[l]
  <2>1. Cost(l) \in Nat /\ Paid(l) \in [Callers -> 0..Cost(l)] BY CostFacts, PaidType
  <2>2. h \in Nat BY <2>1, SizeFacts, HandBounded
  <2>3. k \in Nat BY <2>1, SizeFacts, FS_CardinalityType
  <2>4. Cost(l)' = Cost(l) BY <1>6, CostFixed
  <2>5. k' = k BY <2>4
  <2>6. /\ level'[l] = level[l] - q /\ tokens'[l] = tokens[l]
        /\ level[l] \in Int /\ tokens[l] \in Nat /\ q \in Nat
    BY <1>0, <1>6 DEF TypeOK
  <2>7. level[l] + k >= tokens[l] + h BY <1>11 DEF Accounted
  <2>8. h' = h - q
    <3>1. Paid(l)' = [Paid(l) EXCEPT ![c] = 0] BY <1>1, <1>4 DEF Paid, TypeOK, Nothing
    <3>2. h' = Cardinality(Hand(Callers, [Paid(l) EXCEPT ![c] = 0], Cost(l))) BY <3>1, <2>4 DEF Hand
    <3>3. Paid(l)[c] = q BY DEF Paid
    <3>4. h' = h - Paid(l)[c] BY <3>2, PaidDrops
    <3> QED BY <3>3, <3>4
  <2> HIDE DEF h, k, q
  <2>9. (level[l] + k >= tokens[l] + h)' BY <2>2, <2>3, <2>5, <2>6, <2>7, <2>8
  <2> QED BY <2>9 DEF Accounted, h, k
<1> QED BY <1>7, <1>10, <1>11

LEMMA HeadersType ==
  ASSUME TypeOK, Headers
  PROVE  asks' \in BOOLEAN
  BY DEF TypeOK, Headers

LEMMA FailStep ==
  ASSUME Inv, NEW c \in Callers, Fail(c)
  PROVE  Inv'
<1>1. /\ UNCHANGED <<profile, tokens, lease, level>>
      /\ asks' \in BOOLEAN
  BY HeadersType DEF Fail, Inv, TypeOK
<1>2. CASE call[c].cancelled BY <1>1, <1>2, ReturnStep DEF Fail
<1>3. CASE ~call[c].cancelled
  <2> DEFINE r == [call[c] EXCEPT !.pc = "sleep"]
  <2>0. call[c] \in Fields BY DEF Inv, TypeOK
  <2>1. call' = [call EXCEPT ![c] = r] BY <1>3 DEF Fail, Inv, TypeOK
  <2>2. call[c].paid = Nothing BY DEF Fail, Inv, PaidRight
  <2>3. r \in Fields /\ r.paid = Nothing /\ r.pc = "sleep" /\ r.late = call[c].late
    BY <2>0, <2>2 DEF Fields
  <2>4. ~(call[c].late > 0) BY <1>3 DEF Inv, LateIsLast
  <2> HIDE DEF r
  <2>5. r.late > 0 => r.late = 1 /\ r.cancelled /\ r.pc = "sent" BY <2>3, <2>4
  <2>6. r.pc \in {"stage", "timer"} => r.stage = 1 BY <2>3
  <2> QED BY <1>1, <2>1, <2>2, <2>3, <2>5, <2>6, MoveStep
<1> QED BY <1>2, <1>3

LEMMA SleepStep ==
  ASSUME Inv, NEW c \in Callers, SleepOver(c)
  PROVE  Inv'
<1>1. /\ UNCHANGED <<profile, tokens, lease, level>>
      /\ asks' \in BOOLEAN
  BY DEF SleepOver, Inv, TypeOK
<1>2. CASE ~(call[c].attempt < MaxAttempts) BY <1>1, <1>2, ReturnStep DEF SleepOver
<1>3. CASE call[c].attempt < MaxAttempts
  <2> DEFINE r == [call[c] EXCEPT !.pc = "stage", !.attempt = @ + 1, !.stage = 1]
  <2>0. call[c] \in Fields BY DEF Inv, TypeOK
  <2>1. call' = [call EXCEPT ![c] = r] BY <1>3 DEF SleepOver
  <2>2. call[c].paid = Nothing BY DEF SleepOver, Inv, PaidRight
  <2>3. call[c].attempt + 1 \in 0..MaxAttempts BY <1>3, <2>0, SizeFacts DEF Fields
  <2>4. r \in Fields /\ r.paid = Nothing /\ r.stage = 1 /\ r.late = call[c].late
    BY <2>0, <2>2, <2>3 DEF Fields
  <2>5. ~(call[c].late > 0) BY DEF SleepOver, Inv, LateIsLast
  <2> HIDE DEF r
  <2>6. r.late > 0 => r.late = 1 /\ r.cancelled /\ r.pc = "sent" BY <2>4, <2>5
  <2>7. r.pc \in {"stage", "timer"} => r.stage = 1 BY <2>4
  <2> QED BY <1>1, <2>1, <2>2, <2>4, <2>6, <2>7, MoveStep
<1> QED BY <1>2, <1>3

LEMMA NextInv == Inv /\ [Next]_vars => Inv'
<1> SUFFICES ASSUME Inv, [Next]_vars PROVE Inv' OBVIOUS
<1>1. ASSUME NEW l \in Limiters, Tick(l) PROVE Inv' BY <1>1, TickStep
<1>2. ASSUME NEW k \in Chunks, Launch(k) PROVE Inv' BY <1>2, LaunchStep
<1>3. ASSUME NEW c \in Callers, Step(c) PROVE Inv'
  <2>1. CASE Start(c) BY <2>1, StartStep
  <2>2. CASE SignalTimer(c) BY <2>2, SignalTimerStep
  <2>3. CASE SignalCancelled(c) \/ AcquireCancelled(c)
    <3>1. Return(c) /\ UNCHANGED <<profile, tokens, lease, level>>
          /\ asks' \in BOOLEAN
      BY <2>3 DEF SignalCancelled, AcquireCancelled, Inv, TypeOK
    <3> QED BY <3>1, ReturnStep
  <2>4. CASE Cancel(c) BY <2>4, CancelStep
  <2>5. CASE TakeCredit(c) BY <2>5, TakeCreditStep
  <2>6. CASE Acquire(c) BY <2>6, AcquireStep
  <2>7. CASE Send(c) BY <2>7, SendStep
  <2>8. CASE Answer(c)
    <3>1. Return(c) /\ UNCHANGED <<profile, tokens, lease, level>>
          /\ asks' \in BOOLEAN
      BY <2>8, HeadersType DEF Answer, Inv, TypeOK
    <3> QED BY <3>1, ReturnStep
  <2>9. CASE Fail(c) BY <2>9, FailStep
  <2>10. CASE SleepOver(c) BY <2>10, SleepStep
  <2> QED BY <1>3, <2>1, <2>2, <2>3, <2>4, <2>5, <2>6, <2>7, <2>8, <2>9, <2>10 DEF Step
<1>4. CASE UNCHANGED vars
  <2>1. TypeOK' BY <1>4 DEF vars, Inv, TypeOK
  <2>2. \A c \in Callers : PaidRight(c)' /\ LateIsLast(c)' BY <1>4, CallsAlone DEF vars
  <2>3. \A l \in Limiters \ {BrokerLimiter} : Accounted(l)'
    <3>1. \A l \in Limiters : Cost(l)' = Cost(l) /\ Paid(l)' = Paid(l)
      BY <1>4, CostFixed DEF vars, Paid
    <3> QED BY <1>4, <3>1 DEF vars, Inv, Accounted, Hand
  <2> QED BY <2>1, <2>2, <2>3 DEF Inv
<1> QED BY <1>1, <1>2, <1>3, <1>4 DEF Next

LEMMA InvHolds == Spec => []Inv
  BY InitInv, NextInv, PTL DEF Spec

----------------------------------------------------------------------------
(* The limiters' channels, the reservation and the goroutines keep their   *)
(* types: no channel ever holds more than its capacity.                    *)
THEOREM TypeCorrect == Spec => []TypeOK
<1>1. Inv => TypeOK BY DEF Inv
<1> QED BY <1>1, InvHolds, PTL

(* A call whose context has ended hands at most one more request to the    *)
(* client, for every number of attempts and goroutines.                    *)
THEOREM CancelStops == Spec => []OneRequestAfterCancel
<1>1. Inv => OneRequestAfterCancel
  <2> SUFFICES ASSUME Inv, NEW c \in Callers PROVE call[c].late <= 1
    BY DEF OneRequestAfterCancel
  <2>1. call[c].late \in 0..2 BY DEF Inv, TypeOK, Fields
  <2> QED BY <2>1 DEF Inv, LateIsLast
<1> QED BY <1>1, InvHolds, PTL

----------------------------------------------------------------------------
(* Permits and credits *)

\* What each chunk has of its reservation.
Has == [k \in Chunks |-> lease[k].has]

\* The permits of the broker that are about, in its channel, in the hands of
\* Reserve or as credits of a lease, are no more than its ideal bucket accounts
\* for, give or take one reservation per chunk.
CreditAccount ==
    level[BrokerLimiter] + Cardinality(Chunks) * Want
      >= tokens[BrokerLimiter] + Cardinality(Hand(Chunks, Has, Want))

LEMMA HasType ==
  ASSUME TypeOK
  PROVE  Has \in [Chunks -> 0..Want] /\ Want \in Nat
  BY SizeFacts DEF Has, TypeOK

LEMMA BrokerTypes ==
  ASSUME TypeOK
  PROVE  /\ level[BrokerLimiter] \in Int /\ tokens[BrokerLimiter] \in Nat
         /\ Burst[BrokerLimiter] \in Nat /\ tokens[BrokerLimiter] <= Burst[BrokerLimiter]
         /\ Cardinality(Hand(Chunks, Has, Want)) \in Nat
         /\ Cardinality(Chunks) * Want \in Nat
         /\ Cardinality(Hand(Chunks, Has, Want)) <= Cardinality(Chunks) * Want
<1>1. /\ level[BrokerLimiter] \in Int /\ tokens[BrokerLimiter] \in Nat
      /\ Burst[BrokerLimiter] \in Nat /\ tokens[BrokerLimiter] <= Burst[BrokerLimiter]
  BY SizeFacts DEF TypeOK
<1>2. Has \in [Chunks -> 0..Want] /\ Want \in Nat BY HasType
<1>3. IsFiniteSet(Chunks) BY SizeFacts
<1>4. /\ Cardinality(Hand(Chunks, Has, Want)) \in Nat
      /\ Cardinality(Hand(Chunks, Has, Want)) <= Cardinality(Chunks) * Want
  BY <1>2, <1>3, HandBounded
<1>5. Cardinality(Chunks) * Want \in Nat BY <1>2, <1>3, FS_CardinalityType
<1> QED BY <1>1, <1>4, <1>5

LEMMA CreditInit == Init => CreditAccount
<1> SUFFICES ASSUME Init PROVE CreditAccount OBVIOUS
<1>1. level[BrokerLimiter] = tokens[BrokerLimiter] BY DEF Init
<1> QED BY <1>1, InitType, BrokerTypes DEF CreditAccount

\* A step that leaves the broker's channel and bucket alone and lets a chunk keep
\* what it has, or lose it.
LEMMA CreditKept ==
  ASSUME TypeOK, TypeOK', CreditAccount, NEW k \in Chunks,
         tokens'[BrokerLimiter] = tokens[BrokerLimiter],
         level'[BrokerLimiter] = level[BrokerLimiter],
         Has' = Has \/ Has' = [Has EXCEPT ![k] = 0]
  PROVE  CreditAccount'
<1>1. PICK h : h = Cardinality(Hand(Chunks, Has, Want)) OBVIOUS
<1>2. PICK g : g = Cardinality(Hand(Chunks, Has', Want)) OBVIOUS
<1>3. h \in Nat /\ g \in Nat
  <2>1. Has \in [Chunks -> 0..Want] /\ Want \in Nat BY HasType
  <2>2. Has' \in [Chunks -> 0..Want] BY <2>1
  <2>3. IsFiniteSet(Chunks) BY SizeFacts
  <2> QED BY <1>1, <1>2, <2>1, <2>2, <2>3, HandBounded
<1>4. g <= h
  <2>1. CASE Has' = Has BY <1>1, <1>2, <1>3, <2>1
  <2>2. CASE Has' = [Has EXCEPT ![k] = 0]
    <3>1. PICK f, e, x : f = Has /\ e = [f EXCEPT ![k] = 0] /\ x = f[k] OBVIOUS
    <3>2. Drops(Chunks, Want, f, k, e, x) BY <3>1, HasType, SizeFacts DEF Drops
    <3>3. Cardinality(Hand(Chunks, e, Want)) = Cardinality(Hand(Chunks, f, Want)) - x
      BY <3>2, HandDrops
    <3>4. g = h - x BY <1>1, <1>2, <2>2, <3>1, <3>3
    <3>5. x \in Nat BY <3>1, HasType
    <3> QED BY <1>3, <3>4, <3>5
  <2> QED BY <2>1, <2>2
<1>5. level[BrokerLimiter] + Cardinality(Chunks) * Want >= tokens[BrokerLimiter] + h
  BY <1>1 DEF CreditAccount
<1>6. PICK z : z = Cardinality(Chunks) * Want OBVIOUS
<1>7. level[BrokerLimiter] + z >= tokens[BrokerLimiter] + g
  BY <1>3, <1>4, <1>5, <1>6, BrokerTypes
<1> QED BY <1>2, <1>6, <1>7 DEF CreditAccount

\* Nobody but Reserve and the ticker touches the channel of the broker.
LEMMA BrokerAlone ==
  ASSUME Inv, NEW c \in Callers, Step(c), ~TakeCredit(c)
  PROVE  /\ tokens'[BrokerLimiter] = tokens[BrokerLimiter]
         /\ level'[BrokerLimiter] = level[BrokerLimiter]
         /\ UNCHANGED lease
<1>1. UNCHANGED lease
  BY DEF Step, Start, SignalTimer, SignalCancelled, Cancel, Acquire, AcquireCancelled, Send,
         Answer, Fail, SleepOver
<1>2. CASE Acquire(c)
  <2>1. Stage(c).lim # BrokerLimiter
    <3>1. call[c].stage \in 1..Len(profile.pay)
      BY <1>2 DEF Acquire, Staged, Inv, TypeOK, Fields, PaidRight
    <3>2. profile \in Profiles BY DEF Inv, TypeOK
    <3> QED BY <3>1, <3>2, ProfileFacts DEF Stage
  <2>2. tokens' = [tokens EXCEPT ![Stage(c).lim] = @ - 1] /\ level' = level
    BY <1>2 DEF Acquire
  <2>3. tokens \in [Limiters -> Nat] BY DEF Inv, TypeOK
  <2> QED BY <1>1, <2>1, <2>2, <2>3, SizeFacts
<1>3. CASE Send(c)
  <2>1. Cost(BrokerLimiter) = 0
    <3>1. profile \in Profiles BY DEF Inv, TypeOK
    <3>2. DOMAIN profile.pay = 1..Len(profile.pay) BY <3>1, ProfileFacts
    <3>3. \A i \in DOMAIN profile.pay : profile.pay[i].lim # BrokerLimiter
      BY <3>1, <3>2, ProfileFacts
    <3> QED BY <3>3 DEF Cost
  <2>2. call[c].paid[BrokerLimiter] \in Nat BY SizeFacts DEF Inv, TypeOK, Fields
  <2>3. call[c].paid[BrokerLimiter] <= Cost(BrokerLimiter) BY SizeFacts DEF Inv, PaidRight
  <2>4. call[c].paid[BrokerLimiter] = 0 BY <2>1, <2>2, <2>3
  <2>5. /\ tokens' = tokens
        /\ level'[BrokerLimiter] = level[BrokerLimiter] - call[c].paid[BrokerLimiter]
    BY <1>3, SizeFacts DEF Send
  <2>6. level[BrokerLimiter] \in Int BY SizeFacts DEF Inv, TypeOK
  <2> QED BY <1>1, <2>4, <2>5, <2>6
<1>4. CASE ~Acquire(c) /\ ~Send(c)
  BY <1>1, <1>4 DEF Step, Start, SignalTimer, SignalCancelled, Cancel, AcquireCancelled,
                    Answer, Fail, SleepOver
<1> QED BY <1>2, <1>3, <1>4

LEMMA CreditStep == Inv /\ Inv' /\ CreditAccount /\ [Next]_vars => CreditAccount'
<1> SUFFICES ASSUME Inv, Inv', CreditAccount, [Next]_vars PROVE CreditAccount' OBVIOUS
<1> DEFINE B == BrokerLimiter
           h == Cardinality(Hand(Chunks, Has, Want))
           z == Cardinality(Chunks) * Want
<1>0. TypeOK /\ TypeOK' BY DEF Inv
<1>1. /\ level[B] \in Int /\ tokens[B] \in Nat /\ Burst[B] \in Nat /\ tokens[B] <= Burst[B]
      /\ h \in Nat /\ z \in Nat /\ h <= z
  BY <1>0, BrokerTypes
<1>2. level[B] + z >= tokens[B] + h BY DEF CreditAccount
<1>3. /\ tokens \in [Limiters -> Nat] /\ level \in [Limiters -> Int] /\ B \in Limiters
      /\ lease \in [Chunks -> Leases]
  BY <1>0, SizeFacts DEF TypeOK, Leases
<1>4. ASSUME level'[B] + z >= tokens'[B] + h' PROVE CreditAccount'
  BY <1>4 DEF CreditAccount
<1>5. ASSUME NEW l \in Limiters, Tick(l) PROVE CreditAccount'
  <2>1. h' = h BY <1>5 DEF Tick, Has
  <2> HIDE DEF h, z
  <2>2. CASE l # B
    <3>1. level'[B] = level[B] /\ tokens'[B] = tokens[B] BY <1>3, <1>5, <2>2 DEF Tick
    <3> QED BY <1>2, <1>4, <2>1, <3>1
  <2>3. CASE l = B
    <3>1. /\ level'[B] = Least(level[B] + 1, Burst[B])
          /\ tokens'[B] = Least(tokens[B] + 1, Burst[B])
      BY <1>3, <1>5, <2>3 DEF Tick
    <3>2. level'[B] + z >= tokens'[B] + h BY <1>1, <1>2, <3>1 DEF Least
    <3> QED BY <1>4, <2>1, <3>2
  <2> QED BY <2>2, <2>3
<1>6. ASSUME NEW k \in Chunks, Launch(k) PROVE CreditAccount'
  <2>1. CASE ReserveBegin(k) \/ ReserveCancelled(k) \/ ChunkDone(k)
    <3>1. UNCHANGED <<tokens, level>>
      BY <2>1 DEF ReserveBegin, ReserveCancelled, ChunkDone
    <3>2. PICK v : v.has = 0 /\ lease' = [lease EXCEPT ![k] = v]
      BY <2>1 DEF ReserveBegin, ReserveCancelled, ChunkDone, NoLease
    <3>3. Has' = [Has EXCEPT ![k] = 0] BY <1>3, <3>2 DEF Has
    <3> QED BY <1>0, <3>1, <3>3, CreditKept
  <2>2. CASE WithCredits(k)
    <3>1. UNCHANGED <<tokens, level>> /\ lease' = [lease EXCEPT ![k].pc = "leased"]
      BY <2>2 DEF WithCredits
    <3>2. \A j \in Chunks : lease'[j].has = lease[j].has BY <1>3, <3>1 DEF Leases
    <3>3. Has' = Has BY <3>2 DEF Has
    <3> QED BY <1>0, <3>1, <3>3, CreditKept
  <2>3. CASE ReserveAcquire(k)
    <3>1. /\ UNCHANGED level /\ tokens'[B] = tokens[B] - 1
          /\ lease[k].has < lease[k].want /\ lease' = [lease EXCEPT ![k].has = @ + 1]
      BY <1>3, <2>3 DEF ReserveAcquire
    <3>2. /\ lease[k].has \in 0..Want /\ lease[k].want \in 0..Want
      BY <1>3 DEF Leases
    <3>3. Has[k] = lease[k].has BY DEF Has
    <3>4. Has[k] + 1 <= Want BY <3>1, <3>2, <3>3, SizeFacts
    <3>5. Has' = [Has EXCEPT ![k] = @ + 1] BY <1>3, <3>1 DEF Has, Leases
    <3>6. h' = h + 1 BY <1>0, <3>4, <3>5, HasType, SizeFacts, HandTakes
    <3> HIDE DEF h, z
    <3>7. level'[B] + z >= tokens'[B] + h' BY <1>1, <1>2, <3>1, <3>6
    <3> QED BY <1>4, <3>7
  <2> QED BY <1>6, <2>1, <2>2, <2>3 DEF Launch
<1>7. ASSUME NEW c \in Callers, Step(c) PROVE CreditAccount'
  <2>1. CASE TakeCredit(c)
    <3>1. PICK k \in Chunks : k = ChunkOf[c] /\ lease[k].has > 0
      BY <2>1 DEF TakeCredit, HasCredit
    <3>2. /\ UNCHANGED tokens /\ level'[B] = level[B] - 1
          /\ lease' = [lease EXCEPT ![k].has = @ - 1]
      BY <1>3, <2>1, <3>1 DEF TakeCredit
    <3>3. Has[k] > 0 BY <3>1 DEF Has
    <3>4. Has' = [Has EXCEPT ![k] = @ - 1] BY <1>3, <3>2 DEF Has, Leases
    <3>5. h' = h - 1 BY <1>0, <3>3, <3>4, HasType, SizeFacts, HandSpends
    <3> HIDE DEF h, z
    <3>6. level'[B] + z >= tokens'[B] + h' BY <1>1, <1>2, <3>2, <3>5
    <3> QED BY <1>4, <3>6
  <2>2. CASE ~TakeCredit(c)
    <3>1. h' = h BY <1>7, <2>2, BrokerAlone DEF Has
    <3>2. tokens'[B] = tokens[B] /\ level'[B] = level[B] BY <1>7, <2>2, BrokerAlone
    <3> HIDE DEF h, z
    <3> QED BY <1>2, <1>4, <3>1, <3>2
  <2> QED BY <2>1, <2>2
<1>8. CASE UNCHANGED vars BY <1>2, <1>8 DEF vars, CreditAccount, Has
<1> QED BY <1>5, <1>6, <1>7, <1>8 DEF Next

(* For every number of goroutines, limiters and chunks in flight, every    *)
(* profile and every size of a reservation, what the clients are given     *)
(* stays within the burst, the ticks and one request per goroutine,        *)
(* although AcquireN takes its tokens one by one, and what is let through  *)
(* on credit within those of the broker's limiter and one reservation per  *)
(* chunk.                                                                  *)
THEOREM RateHeld == Spec => []OverrunBounded
<1>1. Inv /\ CreditAccount => OverrunBounded
  <2> SUFFICES ASSUME Inv, CreditAccount, NEW l \in Limiters PROVE level[l] >= -Overdraft(l)
    BY DEF OverrunBounded
  <2>1. CASE l = BrokerLimiter
    <3>1. TypeOK BY DEF Inv
    <3>2. PICK z, h : /\ z = Cardinality(Chunks) * Want
                      /\ h = Cardinality(Hand(Chunks, Has, Want))
      OBVIOUS
    <3>3. level[BrokerLimiter] + z >= tokens[BrokerLimiter] + h BY <3>2 DEF CreditAccount
    <3>4. level[BrokerLimiter] >= -z BY <3>1, <3>2, <3>3, BrokerTypes
    <3> QED BY <2>1, <3>2, <3>4 DEF Overdraft
  <2>2. CASE l # BrokerLimiter
    <3> DEFINE h == Cardinality(Hand(Callers, Paid(l), Cost(l)))
               k == Cardinality(Callers) * Cost(l)
    <3>1. Cost(l) \in Nat /\ Paid(l) \in [Callers -> 0..Cost(l)]
      BY CostFacts, PaidType DEF Inv
    <3>2. h \in Nat BY <3>1, SizeFacts, HandBounded
    <3>3. k \in Nat BY <3>1, SizeFacts, FS_CardinalityType
    <3>4. level[l] \in Int /\ tokens[l] \in Nat BY DEF Inv, TypeOK
    <3>5. level[l] + k >= tokens[l] + h BY <2>2 DEF Inv, Accounted
    <3>6. level[l] >= -k
      <4> HIDE DEF h, k
      <4> QED BY <3>2, <3>3, <3>4, <3>5
    <3> QED BY <2>2, <3>6 DEF Overdraft
  <2> QED BY <2>1, <2>2
<1>2. Inv /\ Inv' /\ CreditAccount /\ [Next]_vars => CreditAccount' BY CreditStep
<1> QED BY <1>1, <1>2, CreditInit, InvHolds, PTL DEF Spec
=============================================================================
