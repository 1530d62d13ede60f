------------------------ MODULE ProjectServiceProofs ------------------------
(***************************************************************************)
(* What the transaction of SetActiveForUser guarantees, and what is left   *)
(* at rest when calls did not overlap, for any number of clients, projects *)
(* and calls.  The invariant speaks of one call at a time: its shape, the  *)
(* rows it relies on, what its transaction still has to set to inactive,   *)
(* and, while nothing has been spoilt, what the caller leaves behind.      *)
(***************************************************************************)
EXTENDS ProjectService, FiniteSetTheorems, TLAPS

Ops == {"none", "list", "create", "select", "ensure", "runctx", "answer"}
Pcs == {"idle", "list", "fill", "active", "fillActive", "get", "put", "putCache",
        "tx", "off", "commit", "actCache"}

\* k is the record of a call, r the rows.
ActiveIn(r) == {p \in Projects : r[p] = TRUE}

\* The operation that may be at each place, and where it has its project.
Shape(k) ==
    /\ k \in [op : Ops, pc : Pcs, p : Projects \cup {None},
              flag : Flags \cup [Projects -> Flags],
              snap : SUBSET Projects, off : SUBSET Projects]
    /\ k.pc = "list" => k.op = "list"
    /\ k.pc \in {"active", "fillActive"} => k.op = "ensure"
    /\ k.pc = "get" => k.op \in {"select", "ensure", "runctx", "answer"}
    /\ k.pc = "fill" => k.op \in {"list", "select", "ensure", "runctx", "answer"}
    /\ k.pc \in {"put", "putCache"} => k.op \in {"create", "ensure", "runctx"}
    /\ k.pc \in {"tx", "off", "commit", "actCache"} => k.op \in {"create", "ensure", "select"}
    /\ k.pc \notin {"idle", "list", "active"} /\ k.op # "list" => k.p \in Projects

\* The places at which the row of the project is known to exist.
HasRow(k) ==
    \/ k.pc \in {"fillActive", "putCache", "commit", "actCache"}
    \/ k.pc = "fill" /\ k.op # "list"
    \/ k.pc = "put" /\ k.op = "runctx"

\* What a call has read and is about to write or to cache.
Read(k, r) ==
    /\ HasRow(k) => r[k.p] # None
    /\ k.pc = "fill" /\ k.op = "list" =>
         /\ k.flag \in [Projects -> Flags]
         /\ \A p \in Projects : k.flag[p] # None => r[p] # None
    /\ k.pc \in {"put", "putCache"} \/ (k.pc = "fill" /\ k.op # "list") => k.flag \in BOOLEAN

\* A transaction during which nobody else has written has seen every active row.
TxSound(k, r, a) ==
    /\ k.pc \in {"off", "commit"} /\ a => ActiveIn(r) \subseteq k.snap \cup k.off
    /\ k.pc = "commit" => k.snap = {}

\* The call is about to make its project the only active one.
Settling(k) ==
    \/ k.pc \in {"tx", "off", "commit", "actCache"}
    \/ k.pc = "putCache" /\ k.op # "runctx"

\* What holds of a call that nothing interferes with.
Solo(k, r, a) ==
    /\ k.pc = "fillActive" => k.p \in ActiveIn(r)
    /\ k.pc \in {"off", "commit"} => a
    /\ k.pc = "actCache" => ActiveIn(r) = {k.p}

\* At most one project is active, and the cache knows no other.
Sound(r, u) ==
    /\ \E q : ActiveIn(r) \subseteq {q}
    /\ u \in ActiveIn(r) \cup {None}

Shapes ==
    /\ row \in [Projects -> Flags] /\ byProject \in [Projects -> Flags]
    /\ byUserAct \in Projects \cup {None}
    /\ DOMAIN call = Clients /\ DOMAIN alone = Clients
    /\ spoilt \in BOOLEAN
    /\ \A p \in Projects : byProject[p] # None => row[p] # None

EachCall ==
    \A c \in Clients :
        Shape(call[c]) /\ Read(call[c], row) /\ TxSound(call[c], row, alone[c])

OneCall ==
    ~spoilt =>
      /\ \A c, d \in Clients : call[c].pc # "idle" /\ call[d].pc # "idle" => c = d
      /\ (\A c \in Clients : ~Settling(call[c])) => Sound(row, byUserAct)
      /\ \A c \in Clients : Solo(call[c], row, alone[c])

ProjectInv == Shapes /\ EachCall /\ OneCall

\* A step of c keeps the invariant if it keeps the parts about c and about the
\* caches; the calls of the others only see that rows do not vanish and that
\* nobody has the rows to himself any more.
LEMMA StepKeeps ==
  ASSUME ProjectInv, NEW c \in Clients,
         ~spoilt' => \A d \in Clients \ {c} : call[d].pc = "idle",
         DOMAIN call' = Clients, DOMAIN alone' = Clients,
         \A d \in Clients \ {c} : call'[d] = call[d],
         row' \in [Projects -> Flags], byProject' \in [Projects -> Flags],
         byUserAct' \in Projects \cup {None},
         spoilt' \in BOOLEAN, spoilt => spoilt',
         \A p \in Projects : row[p] # None => row'[p] # None,
         \A p \in Projects : byProject'[p] # None => row'[p] # None,
         \A d \in Clients \ {c} : (row' = row /\ alone'[d] = alone[d]) \/ ~alone'[d],
         Shape(call'[c]), Read(call'[c], row'), TxSound(call'[c], row', alone'[c]),
         ~spoilt' => /\ Solo(call'[c], row', alone'[c])
                     /\ Settling(call'[c]) \/ Sound(row', byUserAct')
  PROVE  ProjectInv'
<1>1. Shapes' BY DEF Shapes
<1>2. ASSUME NEW d \in Clients \ {c}
      PROVE  Shape(call'[d]) /\ Read(call'[d], row') /\ TxSound(call'[d], row', alone'[d])
  <2>1. PICK k : k = call[d] OBVIOUS
  <2>2. Shape(k) /\ Read(k, row) /\ TxSound(k, row, alone[d]) /\ call'[d] = k
    BY <2>1 DEF ProjectInv, EachCall
  <2>3. HasRow(k) => k.p \in Projects BY <2>2 DEF Shape, HasRow
  <2>4. Read(k, row') BY <2>2, <2>3 DEF Read
  <2>5. TxSound(k, row', alone'[d]) BY <2>2 DEF TxSound
  <2> QED BY <2>2, <2>4, <2>5
<1>3. EachCall' BY <1>2 DEF EachCall
<1>4. OneCall'
  <2> SUFFICES ASSUME ~spoilt'
               PROVE  /\ \A e, d \in Clients : call'[e].pc # "idle" /\ call'[d].pc # "idle" => e = d
                      /\ (\A d \in Clients : ~Settling(call'[d])) => Sound(row', byUserAct')
                      /\ \A d \in Clients : Solo(call'[d], row', alone'[d])
    BY DEF OneCall
  <2>1. \A d \in Clients \ {c} : call'[d].pc = "idle" OBVIOUS
  <2>2. \A e, d \in Clients : call'[e].pc # "idle" /\ call'[d].pc # "idle" => e = d
    BY <2>1
  <2>3. \A d \in Clients \ {c} : Solo(call'[d], row', alone'[d]) BY <2>1 DEF Solo
  <2> QED BY <2>2, <2>3
<1> QED BY <1>1, <1>3, <1>4 DEF ProjectInv

\* The calls of the others are over when a call that was not spoilt is under way.
LEMMA OthersIdle ==
  ASSUME ProjectInv, NEW c \in Clients, call[c].pc # "idle", ~spoilt
  PROVE  \A d \in Clients \ {c} : call[d].pc = "idle"
  BY DEF ProjectInv, OneCall

\* What the invariant says of the call of c.
LEMMA CallFacts ==
  ASSUME ProjectInv, NEW c \in Clients
  PROVE  /\ Shape(call[c]) /\ Read(call[c], row) /\ TxSound(call[c], row, alone[c])
         /\ ~spoilt => Solo(call[c], row, alone[c])
         /\ ~spoilt /\ call[c].pc # "idle" /\ ~Settling(call[c]) => Sound(row, byUserAct)
<1>1. ASSUME ~spoilt, call[c].pc # "idle", ~Settling(call[c]) PROVE Sound(row, byUserAct)
  <2>1. \A d \in Clients \ {c} : ~Settling(call[d]) BY <1>1, OthersIdle DEF Settling
  <2> QED BY <1>1, <2>1 DEF ProjectInv, OneCall
<1> QED BY <1>1 DEF ProjectInv, EachCall, OneCall

\* The call of c is now k, those of the others are what they were.
Moves(c, k) ==
    DOMAIN call' = Clients /\ call'[c] = k /\ \A d \in Clients \ {c} : call'[d] = call[d]

\* A step of c that writes no row and tells nobody: only its own call and the
\* caches change.
LEMMA ReadStep ==
  ASSUME ProjectInv, NEW c \in Clients, call[c].pc # "idle",
         NEW k, Moves(c, k),
         UNCHANGED <<row, alone>>,
         byProject' \in [Projects -> Flags],
         \A p \in Projects : byProject'[p] # None => row[p] # None,
         byUserAct' \in Projects \cup {None},
         spoilt' \in BOOLEAN, spoilt => spoilt',
         Shape(k), Read(k, row), TxSound(k, row, alone[c]),
         ~spoilt' => Solo(k, row, alone[c]) /\ (Settling(k) \/ Sound(row, byUserAct'))
  PROVE  ProjectInv'
<1>1. DOMAIN call = Clients /\ DOMAIN alone = Clients /\ row \in [Projects -> Flags]
  BY DEF ProjectInv, Shapes
<1>2. DOMAIN call' = Clients /\ call'[c] = k /\ \A d \in Clients \ {c} : call'[d] = call[d]
  BY DEF Moves
<1>3. ~spoilt' => \A d \in Clients \ {c} : call[d].pc = "idle" BY OthersIdle
<1> QED BY <1>1, <1>2, <1>3, StepKeeps

LEMMA IdleFacts ==
  /\ Shape(Idle) /\ \A r : Read(Idle, r) /\ \A a : TxSound(Idle, r, a) /\ Solo(Idle, r, a)
  /\ Idle.pc = "idle" /\ ~Settling(Idle)
<1>1. Shape(Idle) BY DEF Shape, Idle, Ops, Pcs, Flags
<1> QED BY <1>1 DEF Idle, Read, HasRow, TxSound, Solo, Settling

\* A call that returns leaves behind what its caller may rely on.
LEMMA ReturnStep ==
  ASSUME ProjectInv, NEW c \in Clients, call[c].pc # "idle", Return(c),
         UNCHANGED <<row, alone>>,
         byProject' \in [Projects -> Flags],
         \A p \in Projects : byProject'[p] # None => row[p] # None,
         byUserAct' \in Projects \cup {None},
         spoilt' \in BOOLEAN, spoilt => spoilt',
         ~spoilt' => Sound(row, byUserAct')
  PROVE  ProjectInv'
<1>1. Moves(c, Idle) BY DEF Moves, Return, ProjectInv, Shapes
<1> QED BY <1>1, IdleFacts, ReadStep

\* What a call does with the flag that Get has given it.
LEMMA GotStep ==
  ASSUME ProjectInv, NEW c \in Clients, call[c].pc \in {"get", "fill"}, call[c].op # "list",
         NEW flag \in Flags, Got(c, flag),
         UNCHANGED <<row, alone, byUserAct>>,
         byProject' \in [Projects -> Flags],
         \A p \in Projects : byProject'[p] # None => row[p] # None,
         spoilt' \in BOOLEAN, spoilt => spoilt',
         flag # None => row[call[c].p] # None
  PROVE  ProjectInv'
<1>1. PICK k : k = call[c] OBVIOUS
<1>2. /\ Shape(k) /\ Read(k, row) /\ DOMAIN call = Clients
      /\ byUserAct' = byUserAct /\ byUserAct \in Projects \cup {None}
      /\ ~spoilt => Sound(row, byUserAct)
  BY <1>1, CallFacts DEF Settling, ProjectInv, Shapes
<1>3. k.op \in {"select", "ensure", "runctx", "answer"} /\ k.p \in Projects
  BY <1>1, <1>2 DEF Shape
<1>4. CASE Return(c) BY <1>2, <1>4, ReturnStep
<1>5. CASE Goto(c, "tx") /\ k.op = "select"
  <2>1. PICK n : n = [k EXCEPT !.pc = "tx"] OBVIOUS
  <2>2. Moves(c, n) BY <1>1, <1>2, <1>5, <2>1 DEF Moves, Goto
  <2>3. Shape(n) BY <1>2, <1>3, <1>5, <2>1 DEF Shape, Pcs
  <2>4. n.pc = "tx" BY <1>2, <2>1 DEF Shape
  <2>5. /\ Read(n, row) /\ TxSound(n, row, alone[c]) /\ Solo(n, row, alone[c]) /\ Settling(n)
    BY <2>4 DEF Read, HasRow, TxSound, Solo, Settling
  <2> QED BY <1>2, <2>2, <2>3, <2>5, ReadStep
<1>6. ASSUME NEW g \in BOOLEAN, k.op = "ensure" \/ (k.op = "runctx" /\ flag # None),
             call' = [call EXCEPT ![c].pc = "put", ![c].flag = g]
      PROVE  ProjectInv'
  <2>1. PICK n : n = [k EXCEPT !.pc = "put", !.flag = g] OBVIOUS
  <2>2. Moves(c, n) BY <1>1, <1>2, <1>6, <2>1 DEF Moves
  <2>3. Shape(n) BY <1>2, <1>3, <1>6, <2>1 DEF Shape, Pcs, Flags
  <2>4. n.pc = "put" /\ n.op = k.op /\ n.p = k.p /\ n.flag = g BY <1>2, <2>1 DEF Shape
  <2>5. Read(n, row) BY <2>4, <1>1, <1>6 DEF Read, HasRow
  <2>6. TxSound(n, row, alone[c]) /\ Solo(n, row, alone[c])
    BY <2>4 DEF TxSound, Solo
  <2> QED BY <1>2, <2>2, <2>3, <2>5, <2>6, ReadStep
<1>7. None \notin BOOLEAN BY ProjectAssumption
<1>8. flag # None => flag \in BOOLEAN BY DEF Flags
<1>9. CASE k.op = "ensure"
  <2>1. CASE flag = None BY <1>1, <1>6, <1>9, <2>1 DEF Got
  <2>2. CASE flag # None BY <1>1, <1>6, <1>8, <1>9, <2>2 DEF Got
  <2> QED BY <2>1, <2>2
<1>10. CASE k.op = "runctx" BY <1>1, <1>4, <1>6, <1>8, <1>10 DEF Got
<1>11. CASE k.op \in {"select", "answer"} BY <1>1, <1>4, <1>5, <1>11 DEF Got
<1> QED BY <1>3, <1>9, <1>10, <1>11

\* The rows and the caches, which most steps leave alone.
LEMMA ShapeFacts ==
  ASSUME ProjectInv
  PROVE  /\ row \in [Projects -> Flags] /\ byProject \in [Projects -> Flags]
         /\ byUserAct \in Projects \cup {None}
         /\ DOMAIN call = Clients /\ DOMAIN alone = Clients
         /\ spoilt \in BOOLEAN
         /\ \A p \in Projects : byProject[p] # None => row[p] # None
  BY DEF ProjectInv, Shapes

LEMMA InitInv == Init => ProjectInv
<1> SUFFICES ASSUME Init PROVE ProjectInv OBVIOUS
<1>1. \A c \in Clients : call[c] = Idle BY DEF Init
<1>2. Shapes BY DEF Init, Shapes, Flags
<1>3. EachCall BY <1>1, IdleFacts DEF EachCall
<1>4. \E q : ActiveIn(row) \subseteq {q}
  <2>1. IsFiniteSet(ActiveIn(row)) BY ProjectAssumption, FS_Subset DEF ActiveIn
  <2>2. Cardinality(ActiveIn(row)) \in Nat /\ Cardinality(ActiveIn(row)) <= 1
    BY <2>1, FS_CardinalityType DEF Init, ActiveIn
  <2>3. CASE Cardinality(ActiveIn(row)) = 0
    BY <2>1, <2>3, FS_EmptySet
  <2>4. CASE Cardinality(ActiveIn(row)) = 1
    BY <2>1, <2>4, FS_Singleton
  <2> QED BY <2>2, <2>3, <2>4
<1>5. Sound(row, byUserAct) BY <1>4 DEF Sound, Init
<1>6. OneCall BY <1>1, <1>5, IdleFacts DEF OneCall
<1> QED BY <1>2, <1>3, <1>6 DEF ProjectInv

\* A call that begins while another is under way spoils what it relies on.
LEMMA BeginStep ==
  ASSUME ProjectInv, NEW c \in Clients, NEW op, NEW p, NEW pc, Begin(c, op, p, pc),
         \/ op = "list" /\ pc = "list" /\ p = None
         \/ op = "create" /\ pc = "put" /\ p \in Projects
         \/ op \in {"select", "ensure", "runctx"} /\ pc = "get" /\ p \in Projects
         \/ op = "ensure" /\ pc = "active" /\ p = None
  PROVE  ProjectInv'
<1>1. PICK n : n = [Idle EXCEPT !.op = op, !.p = p, !.pc = pc,
                                !.flag = IF op = "create" THEN TRUE ELSE None]
  OBVIOUS
<1>2. n = [op |-> op, pc |-> pc, p |-> p, flag |-> IF op = "create" THEN TRUE ELSE None,
           snap |-> {}, off |-> {}]
  BY <1>1 DEF Idle
<1>3. Shape(n)
  <2>1. n.flag \in Flags BY <1>2 DEF Flags
  <2> QED BY <1>2, <2>1 DEF Shape, Ops, Pcs
<1>4. /\ DOMAIN call' = Clients /\ call'[c] = n
      /\ \A d \in Clients \ {c} : call'[d] = call[d]
      /\ row' = row /\ byProject' = byProject /\ byUserAct' = byUserAct /\ alone' = alone
      /\ spoilt' = (spoilt \/ ~Quiet)
  BY <1>1, ShapeFacts DEF Begin, caches
<1>5. ~HasRow(n) BY <1>2 DEF HasRow
<1>6. Read(n, row) /\ TxSound(n, row, alone[c]) /\ Solo(n, row, alone[c])
  BY <1>2, <1>5 DEF Read, TxSound, Solo
<1>7. ASSUME ~spoilt' PROVE Quiet /\ Sound(row, byUserAct)
  <2>1. Quiet /\ ~spoilt BY <1>4, <1>7
  <2>2. \A d \in Clients : ~Settling(call[d]) BY <2>1 DEF Quiet, Settling
  <2> QED BY <2>1, <2>2 DEF ProjectInv, OneCall
<1>8. ~spoilt' => \A d \in Clients \ {c} : call[d].pc = "idle" BY <1>7 DEF Quiet
<1>9. spoilt' \in BOOLEAN /\ (spoilt => spoilt') BY <1>4
<1> QED BY <1>3, <1>4, <1>6, <1>7, <1>8, <1>9, ShapeFacts, StepKeeps

LEMMA StartStep ==
  ASSUME ProjectInv, NEW c \in Clients, Start(c)
  PROVE  ProjectInv'
<1>1. CASE ListProjects(c) BY <1>1, BeginStep DEF ListProjects
<1>2. CASE CreateProject(c) BY <1>2, BeginStep DEF CreateProject
<1>3. CASE SelectProject(c) BY <1>3, BeginStep DEF SelectProject
<1>4. CASE EnsureProject(c) BY <1>4, BeginStep DEF EnsureProject
<1>5. CASE EnsureRunContext(c) BY <1>5, BeginStep DEF EnsureRunContext
<1> QED BY <1>1, <1>2, <1>3, <1>4, <1>5 DEF Start

LEMMA ListStep ==
  ASSUME ProjectInv, NEW c \in Clients, ListHit(c) \/ ListQuery(c) \/ ListFill(c)
  PROVE  ProjectInv'
<1>1. PICK k : k = call[c] OBVIOUS
<1>2. Shape(k) /\ Read(k, row) /\ (~spoilt /\ k.pc \in {"list", "fill"} => Sound(row, byUserAct))
  BY <1>1, CallFacts DEF Settling
<1>3. CASE ListHit(c)
  BY <1>1, <1>2, <1>3, ShapeFacts, ReturnStep DEF ListHit, caches
<1>4. CASE ListQuery(c)
  <2>1. PICK n : n = [k EXCEPT !.pc = "fill", !.flag = row] OBVIOUS
  <2>2. k.pc = "list" BY <1>1, <1>4 DEF ListQuery
  <2>3. Moves(c, n) BY <1>1, <1>4, <2>1, ShapeFacts DEF Moves, ListQuery
  <2>4. n.pc = "fill" /\ n.op = "list" /\ n.flag = row BY <1>2, <2>1, <2>2 DEF Shape
  <2>5. Shape(n) BY <1>2, <2>1, <2>2, ShapeFacts DEF Shape, Pcs
  <2>6. Read(n, row) /\ TxSound(n, row, alone[c]) /\ Solo(n, row, alone[c])
    BY <2>4, ShapeFacts DEF Read, HasRow, TxSound, Solo
  <2> QED BY <1>1, <1>2, <1>4, <2>2, <2>3, <2>5, <2>6, ShapeFacts, ReadStep DEF ListQuery, caches
<1>5. CASE ListFill(c)
  <2>1. k.pc = "fill" /\ k.op = "list" BY <1>1, <1>5 DEF ListFill
  <2>2. k.flag \in [Projects -> Flags] /\ \A p \in Projects : k.flag[p] # None => row[p] # None
    BY <1>2, <2>1 DEF Read
  <2>3. byProject' = [p \in Projects |-> IF k.flag[p] = None THEN byProject[p] ELSE k.flag[p]]
    BY <1>1, <1>5 DEF ListFill
  <2>4. byProject' \in [Projects -> Flags] BY <2>2, <2>3, ShapeFacts
  <2>5. \A p \in Projects : byProject'[p] # None => row[p] # None BY <2>2, <2>3, ShapeFacts
  <2> QED BY <1>1, <1>2, <1>5, <2>1, <2>4, <2>5, ShapeFacts, ReturnStep DEF ListFill
<1> QED BY <1>3, <1>4, <1>5

LEMMA GetActiveStep ==
  ASSUME ProjectInv, NEW c \in Clients,
         GetActiveHit(c) \/ GetActiveQuery(c) \/ GetActiveFill(c) \/ GetActiveNone(c)
  PROVE  ProjectInv'
<1>1. PICK k : k = call[c] OBVIOUS
<1>2. Shape(k) /\ (~spoilt => Solo(k, row, alone[c]))
      /\ (~spoilt /\ k.pc \in {"active", "fillActive"} => Sound(row, byUserAct))
  BY <1>1, CallFacts DEF Settling
<1>3. CASE GetActiveHit(c)
  <2>1. PICK n : n = [k EXCEPT !.pc = "get", !.p = byUserAct] OBVIOUS
  <2>2. k.pc = "active" /\ byUserAct \in Projects
    BY <1>1, <1>3, ShapeFacts DEF GetActiveHit
  <2>3. Moves(c, n) BY <1>1, <1>3, <2>1, ShapeFacts DEF Moves, GetActiveHit
  <2>4. n.pc = "get" BY <1>2, <2>1 DEF Shape
  <2>5. Shape(n) BY <1>2, <2>1, <2>2 DEF Shape, Pcs
  <2>6. Read(n, row) /\ TxSound(n, row, alone[c]) /\ Solo(n, row, alone[c])
    BY <2>4 DEF Read, HasRow, TxSound, Solo
  <2> QED BY <1>1, <1>2, <1>3, <2>2, <2>3, <2>5, <2>6, ShapeFacts, ReadStep
       DEF GetActiveHit, caches
<1>4. CASE GetActiveQuery(c)
  <2>1. PICK p \in Active : call' = [call EXCEPT ![c].pc = "fillActive", ![c].p = p]
    BY <1>4 DEF GetActiveQuery
  <2>2. PICK n : n = [k EXCEPT !.pc = "fillActive", !.p = p] OBVIOUS
  <2>3. k.pc = "active" /\ p \in Projects /\ row[p] = TRUE
    BY <1>1, <1>4, <2>1 DEF GetActiveQuery, Active
  <2>4. Moves(c, n) BY <1>1, <2>1, <2>2, ShapeFacts DEF Moves
  <2>5. n.pc = "fillActive" /\ n.p = p BY <1>2, <2>2 DEF Shape
  <2>6. Shape(n) BY <1>2, <2>2, <2>3 DEF Shape, Pcs
  <2>7. TRUE # None BY ProjectAssumption
  <2>8. Read(n, row) /\ TxSound(n, row, alone[c]) /\ Solo(n, row, alone[c])
    BY <2>3, <2>5, <2>7 DEF Read, HasRow, TxSound, Solo, ActiveIn
  <2> QED BY <1>1, <1>2, <1>4, <2>3, <2>4, <2>6, <2>8, ShapeFacts, ReadStep
       DEF GetActiveQuery, caches
<1>5. CASE GetActiveFill(c)
  <2>1. PICK n : n = [k EXCEPT !.pc = "get"] OBVIOUS
  <2>2. k.pc = "fillActive" /\ k.p \in Projects /\ row[k.p] # None
    BY <1>1, <1>2, <1>5, CallFacts DEF GetActiveFill, Shape, Read, HasRow
  <2>3. Moves(c, n) BY <1>1, <1>5, <2>1, ShapeFacts DEF Moves, GetActiveFill, Goto
  <2>4. n.pc = "get" BY <1>2, <2>1 DEF Shape
  <2>5. Shape(n) BY <1>2, <2>1, <2>2 DEF Shape, Pcs
  <2>6. Read(n, row) /\ TxSound(n, row, alone[c]) /\ Solo(n, row, alone[c])
    BY <2>4 DEF Read, HasRow, TxSound, Solo
  <2>7. byUserAct' = k.p /\ byProject' = [byProject EXCEPT ![k.p] = TRUE]
    BY <1>1, <1>5 DEF GetActiveFill
  <2>8. /\ byProject' \in [Projects -> Flags]
        /\ \A p \in Projects : byProject'[p] # None => row[p] # None
    BY <2>2, <2>7, ShapeFacts DEF Flags
  <2>9. ~spoilt => Sound(row, byUserAct') BY <1>2, <2>2, <2>7 DEF Sound, Solo
  <2> QED BY <1>1, <1>5, <2>2, <2>3, <2>5, <2>6, <2>7, <2>8, <2>9, ShapeFacts, ReadStep
       DEF GetActiveFill
<1>6. CASE GetActiveNone(c)
  <2>1. PICK p \in Projects : call' = [call EXCEPT ![c].pc = "put", ![c].p = p, ![c].flag = TRUE]
    BY <1>6 DEF GetActiveNone
  <2>2. PICK n : n = [k EXCEPT !.pc = "put", !.p = p, !.flag = TRUE] OBVIOUS
  <2>3. k.pc = "active" BY <1>1, <1>6 DEF GetActiveNone
  <2>4. Moves(c, n) BY <1>1, <2>1, <2>2, ShapeFacts DEF Moves
  <2>5. n.pc = "put" /\ n.op = "ensure" /\ n.flag = TRUE BY <1>2, <2>2, <2>3 DEF Shape
  <2>6. Shape(n) BY <1>2, <2>2, <2>3 DEF Shape, Pcs, Flags
  <2>7. Read(n, row) /\ TxSound(n, row, alone[c]) /\ Solo(n, row, alone[c])
    BY <2>5 DEF Read, HasRow, TxSound, Solo
  <2> QED BY <1>1, <1>2, <1>6, <2>3, <2>4, <2>6, <2>7, ShapeFacts, ReadStep
       DEF GetActiveNone, caches
<1> QED BY <1>3, <1>4, <1>5, <1>6

LEMMA GetStep ==
  ASSUME ProjectInv, NEW c \in Clients, GetHit(c) \/ GetQuery(c) \/ GetFill(c) \/ GetNone(c)
  PROVE  ProjectInv'
<1>1. PICK k : k = call[c] OBVIOUS
<1>2. Shape(k) /\ Read(k, row) /\ (~spoilt /\ k.pc = "get" => Sound(row, byUserAct))
  BY <1>1, CallFacts DEF Settling
<1>3. k.pc = "get" => k.p \in Projects /\ k.op # "list" BY <1>2 DEF Shape
<1>4. CASE GetHit(c)
  <2>1. k.pc = "get" /\ byProject[k.p] # None /\ Got(c, byProject[k.p])
    BY <1>1, <1>4 DEF GetHit
  <2>2. byProject[k.p] \in Flags /\ row[k.p] # None BY <1>3, <2>1, ShapeFacts
  <2> QED BY <1>1, <1>3, <1>4, <2>1, <2>2, ShapeFacts, GotStep DEF GetHit, caches
<1>5. CASE GetNone(c)
  <2>1. k.pc = "get" /\ Got(c, None) BY <1>1, <1>5 DEF GetNone
  <2>2. None \in Flags BY DEF Flags
  <2> QED BY <1>1, <1>3, <1>5, <2>1, <2>2, ShapeFacts, GotStep DEF GetNone, caches
<1>6. CASE GetFill(c)
  <2>1. k.pc = "fill" /\ k.op # "list" /\ Got(c, k.flag) BY <1>1, <1>6 DEF GetFill
  <2>2. k.flag \in BOOLEAN /\ k.p \in Projects /\ row[k.p] # None
    BY <1>2, <2>1 DEF Read, Shape, HasRow
  <2>3. byProject' = [byProject EXCEPT ![k.p] = k.flag] BY <1>1, <1>6 DEF GetFill
  <2>4. k.flag \in Flags BY <2>2 DEF Flags
  <2>5. /\ byProject' \in [Projects -> Flags]
        /\ \A p \in Projects : byProject'[p] # None => row[p] # None
    BY <2>2, <2>3, <2>4, ShapeFacts
  <2> QED BY <1>1, <1>6, <2>1, <2>2, <2>4, <2>5, ShapeFacts, GotStep DEF GetFill
<1>7. CASE GetQuery(c)
  <2>1. k.pc = "get" /\ row[k.p] # None BY <1>1, <1>7 DEF GetQuery
  <2>2. PICK n : n = [k EXCEPT !.pc = "fill", !.flag = row[k.p]] OBVIOUS
  <2>3. row[k.p] \in Flags /\ row[k.p] \in BOOLEAN BY <1>3, <2>1, ShapeFacts DEF Flags
  <2>4. Moves(c, n) BY <1>1, <1>7, <2>2, ShapeFacts DEF Moves, GetQuery
  <2>5. n.pc = "fill" /\ n.op = k.op /\ n.p = k.p /\ n.flag = row[k.p] BY <1>2, <2>2 DEF Shape
  <2>6. Shape(n) BY <1>2, <1>3, <2>1, <2>2, <2>3 DEF Shape, Pcs
  <2>7. Read(n, row) BY <1>3, <2>1, <2>3, <2>5 DEF Read
  <2>8. TxSound(n, row, alone[c]) /\ Solo(n, row, alone[c]) BY <2>5 DEF TxSound, Solo
  <2> QED BY <1>1, <1>2, <1>7, <2>1, <2>4, <2>6, <2>7, <2>8, ShapeFacts, ReadStep
       DEF GetQuery, caches
<1> QED BY <1>4, <1>5, <1>6, <1>7

\* After put: EnsureRunContext returns, the others select the project.
LEMMA AfterPutStep ==
  ASSUME ProjectInv, NEW c \in Clients, call[c].pc \in {"put", "putCache"}, AfterPut(c),
         UNCHANGED <<row, alone>>,
         byProject' \in [Projects -> Flags],
         \A p \in Projects : byProject'[p] # None => row[p] # None,
         byUserAct' \in Projects \cup {None},
         spoilt' \in BOOLEAN, spoilt => spoilt',
         ~spoilt' /\ call[c].op = "runctx" => Sound(row, byUserAct')
  PROVE  ProjectInv'
<1>1. PICK k : k = call[c] OBVIOUS
<1>2. Shape(k) BY <1>1, CallFacts
<1>3. CASE k.op = "runctx" BY <1>1, <1>3, ReturnStep DEF AfterPut
<1>4. CASE k.op # "runctx"
  <2>1. PICK n : n = [k EXCEPT !.pc = "tx"] OBVIOUS
  <2>2. Moves(c, n) BY <1>1, <1>4, <2>1, ShapeFacts DEF Moves, AfterPut, Goto
  <2>3. n.pc = "tx" BY <1>2, <2>1 DEF Shape
  <2>4. Shape(n) BY <1>1, <1>2, <1>4, <2>1 DEF Shape, Pcs
  <2>5. /\ Read(n, row) /\ TxSound(n, row, alone[c]) /\ Solo(n, row, alone[c]) /\ Settling(n)
    BY <2>3 DEF Read, HasRow, TxSound, Solo, Settling
  <2> QED BY <1>1, <2>2, <2>4, <2>5, ReadStep
<1> QED BY <1>3, <1>4

\* The upsert writes a flag; EnsureRunContext, which selects nothing afterwards,
\* has spoilt the rows unless it wrote back what was there.
LEMMA PutStep ==
  ASSUME ProjectInv, NEW c \in Clients, Put(c)
  PROVE  ProjectInv'
<1>1. PICK k : k = call[c] OBVIOUS
<1>2. k.pc = "put" /\ Shape(k) /\ Read(k, row) /\ (~spoilt => Sound(row, byUserAct))
  BY <1>1, CallFacts DEF Put, Settling
<1>3. k.p \in Projects /\ k.flag \in BOOLEAN /\ k.op \in {"create", "ensure", "runctx"}
  BY <1>2 DEF Shape, Read
<1>4. /\ row' = [row EXCEPT ![k.p] = k.flag]
      /\ byProject' = byProject /\ byUserAct' = byUserAct
      /\ spoilt' = (spoilt \/ (k.op # "create" /\ row[k.p] \notin {None, k.flag}))
  BY <1>1 DEF Put, caches
<1>5. PICK n : n = [k EXCEPT !.pc = "putCache"] OBVIOUS
<1>6. Moves(c, n) BY <1>1, <1>5, ShapeFacts DEF Moves, Put, Goto
<1>7. n.pc = "putCache" /\ n.op = k.op /\ n.p = k.p /\ n.flag = k.flag
  BY <1>2, <1>5 DEF Shape
<1>8. Shape(n) BY <1>2, <1>3, <1>5 DEF Shape, Pcs
<1>9. k.flag \in Flags /\ k.flag # None BY <1>3, ProjectAssumption DEF Flags
<1>10. row' \in [Projects -> Flags] /\ \A p \in Projects : row[p] # None => row'[p] # None
  BY <1>3, <1>4, <1>9, ShapeFacts
<1>11. row'[n.p] # None BY <1>3, <1>4, <1>7, <1>9, ShapeFacts
<1>12. Read(n, row') BY <1>3, <1>7, <1>11 DEF Read
<1>13. TxSound(n, row', alone'[c]) /\ Solo(n, row', alone'[c]) BY <1>7 DEF TxSound, Solo
<1>14. ASSUME ~spoilt' PROVE Settling(n) \/ Sound(row', byUserAct')
  <2>1. CASE k.op # "runctx" BY <1>7, <2>1 DEF Settling
  <2>2. CASE k.op = "runctx"
    <3>1. row[k.p] # None BY <1>2, <2>2 DEF Read, HasRow
    <3>2. row[k.p] = k.flag BY <1>4, <1>14, <2>2, <3>1
    <3>3. row' = row BY <1>3, <1>4, <3>2, ShapeFacts
    <3> QED BY <1>2, <1>4, <1>14, <3>3
  <2> QED BY <2>1, <2>2
<1>15. DOMAIN alone' = Clients /\ \A d \in Clients \ {c} : ~alone'[d] BY DEF Put, Wrote
<1>16. ~spoilt' => \A d \in Clients \ {c} : call[d].pc = "idle"
  BY <1>1, <1>2, <1>4, OthersIdle
<1>17. spoilt' \in BOOLEAN /\ (spoilt => spoilt') BY <1>4
<1>18. \A p \in Projects : byProject'[p] # None => row'[p] # None BY <1>4, <1>10, ShapeFacts
<1>19. byProject' \in [Projects -> Flags] /\ byUserAct' \in Projects \cup {None}
  BY <1>4, ShapeFacts
<1> QED BY <1>6, <1>8, <1>10, <1>12, <1>13, <1>14, <1>15, <1>16, <1>17, <1>18, <1>19, StepKeeps
     DEF Moves

LEMMA PutCacheStep ==
  ASSUME ProjectInv, NEW c \in Clients, PutCache(c)
  PROVE  ProjectInv'
<1>1. PICK k : k = call[c] OBVIOUS
<1>2. k.pc = "putCache" /\ Shape(k) /\ Read(k, row) BY <1>1, CallFacts DEF PutCache
<1>3. ~spoilt /\ k.op = "runctx" => Sound(row, byUserAct) BY <1>1, <1>2, CallFacts DEF Settling
<1>4. k.p \in Projects /\ k.flag \in BOOLEAN /\ row[k.p] # None
  BY <1>2 DEF Shape, Read, HasRow
<1>5. byProject' = [byProject EXCEPT ![k.p] = k.flag] /\ byUserAct' = None
  BY <1>1 DEF PutCache
<1>6. k.flag \in Flags BY <1>4 DEF Flags
<1>7. /\ byProject' \in [Projects -> Flags]
      /\ \A p \in Projects : byProject'[p] # None => row[p] # None
  BY <1>4, <1>5, <1>6, ShapeFacts
<1>8. ~spoilt /\ k.op = "runctx" => Sound(row, byUserAct') BY <1>3, <1>5 DEF Sound
<1> QED BY <1>1, <1>2, <1>5, <1>7, <1>8, ShapeFacts, AfterPutStep DEF PutCache

LEMMA PutFailsStep ==
  ASSUME ProjectInv, NEW c \in Clients, PutFails(c)
  PROVE  ProjectInv'
  BY ShapeFacts, AfterPutStep DEF PutFails

LEMMA RuntimeFailsStep ==
  ASSUME ProjectInv, NEW c \in Clients, NewProjectRuntimeFails(c)
  PROVE  ProjectInv'
<1>1. call[c].pc = "put" /\ ~Settling(call[c]) BY DEF NewProjectRuntimeFails, Settling
<1>2. ~spoilt => Sound(row, byUserAct) BY <1>1, CallFacts
<1> QED BY <1>1, <1>2, ShapeFacts, ReturnStep DEF NewProjectRuntimeFails, caches

\* The transaction is over: SelectProject returns, the others read the project.
LEMMA AnswerStep ==
  ASSUME ProjectInv, NEW c \in Clients, call[c].pc \in {"tx", "off", "commit", "actCache"},
         Answer(c),
         UNCHANGED <<row, alone>>,
         byProject' \in [Projects -> Flags],
         \A p \in Projects : byProject'[p] # None => row[p] # None,
         byUserAct' \in Projects \cup {None},
         spoilt' \in BOOLEAN, spoilt => spoilt',
         ~spoilt' => Sound(row, byUserAct')
  PROVE  ProjectInv'
<1>1. PICK k : k = call[c] OBVIOUS
<1>2. Shape(k) /\ k.p \in Projects BY <1>1, CallFacts DEF Shape
<1>3. CASE k.op = "select" BY <1>1, <1>3, ReturnStep DEF Answer
<1>4. CASE k.op # "select"
  <2>1. PICK n : n = [Idle EXCEPT !.op = "answer", !.pc = "get", !.p = k.p] OBVIOUS
  <2>2. n = [op |-> "answer", pc |-> "get", p |-> k.p, flag |-> None, snap |-> {}, off |-> {}]
    BY <2>1 DEF Idle
  <2>3. Moves(c, n) BY <1>1, <1>4, <2>1, ShapeFacts DEF Moves, Answer
  <2>4. Shape(n) BY <1>2, <2>2 DEF Shape, Ops, Pcs, Flags
  <2>5. Read(n, row) /\ TxSound(n, row, alone[c]) /\ Solo(n, row, alone[c])
    BY <2>2 DEF Read, HasRow, TxSound, Solo
  <2> QED BY <1>1, <2>3, <2>4, <2>5, ReadStep
<1> QED BY <1>3, <1>4

LEMMA TxBeginStep ==
  ASSUME ProjectInv, NEW c \in Clients, TxBegin(c)
  PROVE  ProjectInv'
<1>1. PICK k : k = call[c] OBVIOUS
<1>2. k.pc = "tx" /\ Shape(k) BY <1>1, CallFacts DEF TxBegin
<1>3. PICK n : n = [k EXCEPT !.pc = "off", !.snap = Active, !.off = {}] OBVIOUS
<1>4. Moves(c, n) BY <1>1, <1>3, ShapeFacts DEF Moves, TxBegin
<1>5. n.pc = "off" /\ n.snap = Active BY <1>2, <1>3 DEF Shape
<1>6. Active \subseteq Projects BY DEF Active
<1>7. Shape(n) BY <1>2, <1>3, <1>6 DEF Shape, Pcs
<1>8. /\ row' = row /\ byProject' = byProject /\ byUserAct' = byUserAct /\ spoilt' = spoilt
      /\ alone' = [alone EXCEPT ![c] = TRUE]
  BY DEF TxBegin, caches
<1>9. /\ DOMAIN alone' = Clients /\ alone'[c] = TRUE
      /\ \A d \in Clients \ {c} : alone'[d] = alone[d]
  BY <1>8, ShapeFacts
<1>10. Read(n, row') BY <1>5 DEF Read, HasRow
<1>11. TxSound(n, row', alone'[c]) BY <1>5, <1>8 DEF TxSound, Active, ActiveIn
<1>12. Solo(n, row', alone'[c]) /\ Settling(n) BY <1>5, <1>9 DEF Solo, Settling
<1>13. ~spoilt' => \A d \in Clients \ {c} : call[d].pc = "idle"
  BY <1>1, <1>2, <1>8, OthersIdle
<1> QED BY <1>4, <1>7, <1>8, <1>9, <1>10, <1>11, <1>12, <1>13, ShapeFacts, StepKeeps DEF Moves

\* A row leaves the snapshot: if it still is active it is set to inactive.
LEMMA TxOffStep ==
  ASSUME ProjectInv, NEW c \in Clients, TxOff(c)
  PROVE  ProjectInv'
<1>1. PICK k : k = call[c] OBVIOUS
<1>2. /\ k.pc = "off" /\ Shape(k) /\ TxSound(k, row, alone[c])
      /\ (~spoilt => Solo(k, row, alone[c]))
  BY <1>1, CallFacts DEF TxOff
<1>3. PICK p \in k.snap :
        call' = [call EXCEPT ![c].snap = @ \ {p},
                             ![c].off = IF row[p] = TRUE THEN @ \cup {p} ELSE @]
  BY <1>1 DEF TxOff
<1>4. PICK off : off = IF row[p] = TRUE THEN k.off \cup {p} ELSE k.off OBVIOUS
<1>5. PICK n : n = [k EXCEPT !.snap = k.snap \ {p}, !.off = off] OBVIOUS
<1>6. k.snap \subseteq Projects /\ k.off \subseteq Projects /\ off \subseteq Projects
  BY <1>2, <1>3, <1>4 DEF Shape
<1>7. Moves(c, n) BY <1>1, <1>2, <1>3, <1>4, <1>5, ShapeFacts DEF Moves, Shape
<1>8. n.pc = "off" /\ n.snap = k.snap \ {p} /\ n.off = off BY <1>2, <1>5 DEF Shape
<1>9. Shape(n) BY <1>2, <1>5, <1>6 DEF Shape
<1>10. Read(n, row) BY <1>8 DEF Read, HasRow
<1>11. ActiveIn(row) \subseteq k.snap \cup k.off => ActiveIn(row) \subseteq n.snap \cup n.off
  BY <1>4, <1>8 DEF ActiveIn
<1>12. TxSound(n, row, alone[c]) BY <1>2, <1>8, <1>11 DEF TxSound
<1>13. (~spoilt => Solo(n, row, alone[c])) /\ Settling(n) BY <1>2, <1>8 DEF Solo, Settling
<1> QED BY <1>1, <1>2, <1>7, <1>9, <1>10, <1>12, <1>13, ShapeFacts, ReadStep DEF TxOff, caches

LEMMA TxOnStep ==
  ASSUME ProjectInv, NEW c \in Clients, TxOn(c)
  PROVE  ProjectInv'
<1>1. PICK k : k = call[c] OBVIOUS
<1>2. /\ k.pc = "off" /\ Shape(k) /\ TxSound(k, row, alone[c])
      /\ (~spoilt => Solo(k, row, alone[c]))
      /\ k.snap = {} /\ row[k.p] # None
  BY <1>1, CallFacts DEF TxOn
<1>3. PICK n : n = [k EXCEPT !.pc = "commit"] OBVIOUS
<1>4. Moves(c, n) BY <1>1, <1>3, ShapeFacts DEF Moves, TxOn, Goto
<1>5. n.pc = "commit" /\ n.p = k.p /\ n.snap = k.snap /\ n.off = k.off BY <1>2, <1>3 DEF Shape
<1>6. Shape(n) BY <1>2, <1>3 DEF Shape, Pcs
<1>7. Read(n, row) BY <1>2, <1>5 DEF Read
<1>8. TxSound(n, row, alone[c]) BY <1>2, <1>5 DEF TxSound
<1>9. (~spoilt => Solo(n, row, alone[c])) /\ Settling(n) BY <1>2, <1>5 DEF Solo, Settling
<1> QED BY <1>1, <1>2, <1>4, <1>6, <1>7, <1>8, <1>9, ShapeFacts, ReadStep DEF TxOn, caches

\* A commit leaves its project as the only active one if nobody else has written
\* since the snapshot: every row that is active has been set to inactive.
LEMMA CommitWins ==
  ASSUME ProjectInv, NEW c \in Clients, Commit(c), alone[c]
  PROVE  ActiveIn(row') = {call[c].p}
<1>1. PICK k : k = call[c] OBVIOUS
<1>2. k.pc = "commit" /\ Shape(k) /\ TxSound(k, row, alone[c])
  BY <1>1, CallFacts DEF Commit
<1>3. k.p \in Projects /\ ActiveIn(row) \subseteq k.off BY <1>2 DEF Shape, TxSound
<1>4. row' = [p \in Projects |-> IF p = k.p THEN TRUE ELSE IF p \in k.off THEN FALSE ELSE row[p]]
  BY <1>1 DEF Commit
<1>5. row'[k.p] = TRUE BY <1>3, <1>4
<1>6. ASSUME NEW p \in Projects, p # k.p PROVE row'[p] # TRUE
  <2>1. CASE p \in k.off
    <3>1. row'[p] = FALSE BY <1>4, <1>6, <2>1
    <3> QED BY <3>1
  <2>2. CASE p \notin k.off
    <3>1. row'[p] = row[p] BY <1>4, <1>6, <2>2
    <3>2. p \notin ActiveIn(row) BY <1>3, <2>2
    <3> QED BY <3>1, <3>2 DEF ActiveIn
  <2> QED BY <2>1, <2>2
<1> QED BY <1>1, <1>3, <1>5, <1>6 DEF ActiveIn

LEMMA CommitStep ==
  ASSUME ProjectInv, NEW c \in Clients, Commit(c)
  PROVE  ProjectInv'
<1>1. PICK k : k = call[c] OBVIOUS
<1>2. k.pc = "commit" /\ Shape(k) /\ Read(k, row) /\ (~spoilt => Solo(k, row, alone[c]))
  BY <1>1, CallFacts DEF Commit
<1>3. k.p \in Projects /\ row[k.p] # None BY <1>2 DEF Shape, Read, HasRow
<1>4. /\ row' = [p \in Projects |-> IF p = k.p THEN TRUE
                                    ELSE IF p \in k.off THEN FALSE ELSE row[p]]
      /\ byProject' = byProject /\ byUserAct' = byUserAct /\ spoilt' = spoilt
  BY <1>1 DEF Commit, caches
<1>5. PICK n : n = [k EXCEPT !.pc = "actCache"] OBVIOUS
<1>6. Moves(c, n) BY <1>1, <1>5, ShapeFacts DEF Moves, Commit, Goto
<1>7. n.pc = "actCache" /\ n.p = k.p BY <1>2, <1>5 DEF Shape
<1>8. Shape(n) BY <1>2, <1>5 DEF Shape, Pcs
<1>9. TRUE # None /\ FALSE # None BY ProjectAssumption
<1>10. row' \in [Projects -> Flags] BY <1>4, ShapeFacts DEF Flags
<1>11. \A p \in Projects : row[p] # None => row'[p] # None BY <1>4, <1>9
<1>12. Read(n, row') BY <1>3, <1>7, <1>11 DEF Read
<1>13. TxSound(n, row', alone'[c]) BY <1>7 DEF TxSound
<1>14. ~spoilt' => Solo(n, row', alone'[c])
  <2> SUFFICES ASSUME ~spoilt' PROVE Solo(n, row', alone'[c]) OBVIOUS
  <2>1. alone[c] BY <1>2, <1>4 DEF Solo
  <2>2. ActiveIn(row') = {k.p} BY <1>1, <2>1, CommitWins
  <2> QED BY <1>7, <2>2 DEF Solo
<1>15. Settling(n) BY <1>7 DEF Settling
<1>16. DOMAIN alone' = Clients /\ \A d \in Clients \ {c} : ~alone'[d] BY DEF Commit, Wrote
<1>17. ~spoilt' => \A d \in Clients \ {c} : call[d].pc = "idle"
  BY <1>1, <1>2, <1>4, OthersIdle
<1>18. /\ \A p \in Projects : byProject'[p] # None => row'[p] # None
       /\ byProject' \in [Projects -> Flags] /\ byUserAct' \in Projects \cup {None}
       /\ spoilt' \in BOOLEAN
  BY <1>4, <1>11, ShapeFacts
<1> QED BY <1>4, <1>6, <1>8, <1>10, <1>11, <1>12, <1>13, <1>14, <1>15, <1>16, <1>17, <1>18,
       StepKeeps DEF Moves

LEMMA ActiveCacheStep ==
  ASSUME ProjectInv, NEW c \in Clients, ActiveCache(c)
  PROVE  ProjectInv'
<1>1. PICK k : k = call[c] OBVIOUS
<1>2. k.pc = "actCache" /\ Shape(k) /\ Read(k, row) /\ (~spoilt => Solo(k, row, alone[c]))
  BY <1>1, CallFacts DEF ActiveCache
<1>3. k.p \in Projects /\ row[k.p] # None BY <1>2 DEF Shape, Read, HasRow
<1>4. byUserAct' = k.p /\ byProject' = [byProject EXCEPT ![k.p] = TRUE]
  BY <1>1 DEF ActiveCache
<1>5. /\ byProject' \in [Projects -> Flags]
      /\ \A p \in Projects : byProject'[p] # None => row[p] # None
  BY <1>3, <1>4, ShapeFacts DEF Flags
<1>6. ~spoilt => Sound(row, byUserAct') BY <1>2, <1>4 DEF Solo, Sound
<1> QED BY <1>1, <1>2, <1>3, <1>4, <1>5, <1>6, ShapeFacts, AnswerStep DEF ActiveCache

LEMMA TxFailStep ==
  ASSUME ProjectInv, NEW c \in Clients, TxFail(c)
  PROVE  ProjectInv'
  BY ShapeFacts, AnswerStep DEF TxFail, caches

\* Nothing of a call outlives the process, and what had been committed stays.
LEMMA RestartStep == ProjectInv /\ Restart => ProjectInv'
<1> SUFFICES ASSUME ProjectInv, Restart PROVE ProjectInv' OBVIOUS
<1>1. \A c \in Clients : call'[c] = Idle BY DEF Restart
<1>2. Shapes' BY ShapeFacts DEF Restart, Shapes, Flags
<1>3. EachCall' BY <1>1, IdleFacts DEF EachCall
<1>4. ASSUME ~spoilt' PROVE Sound(row', byUserAct')
  <2>1. Quiet /\ ~spoilt BY <1>4 DEF Restart
  <2>2. \A d \in Clients : ~Settling(call[d]) BY <2>1 DEF Quiet, Settling
  <2>3. Sound(row, byUserAct) BY <2>1, <2>2 DEF ProjectInv, OneCall
  <2> QED BY <2>3 DEF Sound, Restart
<1>5. OneCall' BY <1>1, <1>4, IdleFacts DEF OneCall
<1> QED BY <1>2, <1>3, <1>5 DEF ProjectInv

LEMMA ExpireStep == ProjectInv /\ Expire => ProjectInv'
<1> SUFFICES ASSUME ProjectInv, Expire PROVE ProjectInv' OBVIOUS
<1>1. row' = row /\ call' = call /\ alone' = alone /\ spoilt' = spoilt BY DEF Expire
<1>2. byUserAct' \in {byUserAct, None} BY DEF Expire
<1>3. /\ byProject' \in [Projects -> Flags]
      /\ \A p \in Projects : byProject'[p] # None => row[p] # None
  <2>1. CASE byProject' = byProject BY <2>1, ShapeFacts
  <2>2. CASE \E p \in Projects : byProject' = [byProject EXCEPT ![p] = None]
    BY <2>2, ShapeFacts DEF Flags
  <2> QED BY <2>1, <2>2 DEF Expire
<1>4. Shapes' BY <1>1, <1>2, <1>3, ShapeFacts DEF Shapes
<1>5. EachCall' BY <1>1 DEF ProjectInv, EachCall
<1>6. Sound(row, byUserAct) => Sound(row', byUserAct') BY <1>1, <1>2 DEF Sound
<1>7. OneCall' BY <1>1, <1>6 DEF ProjectInv, OneCall
<1> QED BY <1>4, <1>5, <1>7 DEF ProjectInv

LEMMA NextInv == ProjectInv /\ [Next]_vars => ProjectInv'
<1> SUFFICES ASSUME ProjectInv, [Next]_vars PROVE ProjectInv' OBVIOUS
<1>1. ASSUME NEW c \in Clients, Step(c) PROVE ProjectInv'
  <2>1. CASE ListHit(c) \/ ListQuery(c) \/ ListFill(c) BY <2>1, ListStep
  <2>2. CASE GetActiveHit(c) \/ GetActiveQuery(c) \/ GetActiveFill(c) \/ GetActiveNone(c)
    BY <2>2, GetActiveStep
  <2>3. CASE GetHit(c) \/ GetQuery(c) \/ GetFill(c) \/ GetNone(c) BY <2>3, GetStep
  <2>4. CASE NewProjectRuntimeFails(c) BY <2>4, RuntimeFailsStep
  <2>5. CASE Put(c) BY <2>5, PutStep
  <2>6. CASE PutCache(c) BY <2>6, PutCacheStep
  <2>7. CASE PutFails(c) BY <2>7, PutFailsStep
  <2>8. CASE TxBegin(c) BY <2>8, TxBeginStep
  <2>9. CASE TxOff(c) BY <2>9, TxOffStep
  <2>10. CASE TxOn(c) BY <2>10, TxOnStep
  <2>11. CASE Commit(c) BY <2>11, CommitStep
  <2>12. CASE ActiveCache(c) BY <2>12, ActiveCacheStep
  <2>13. CASE TxFail(c) BY <2>13, TxFailStep
  <2> QED BY <1>1, <2>1, <2>2, <2>3, <2>4, <2>5, <2>6, <2>7, <2>8, <2>9, <2>10, <2>11,
               <2>12, <2>13 DEF Step
<1>2. CASE UNCHANGED vars
  <2>1. UNCHANGED <<row, byProject, byUserAct, call, alone, spoilt>>
    BY <1>2 DEF vars, caches
  <2> QED BY <2>1 DEF ProjectInv, Shapes, EachCall, OneCall
<1> QED BY <1>1, <1>2, StartStep, RestartStep, ExpireStep DEF Next

LEMMA SpecInv == Spec => []ProjectInv
  BY InitInv, NextInv, PTL DEF Spec

\* At rest, when nothing was spoilt, no call is settling.
LEMMA RestSound == ProjectInv => OneActiveExplained
<1> SUFFICES ASSUME ProjectInv, Quiet, ~spoilt
             PROVE  Cardinality(Active) <= 1 /\ byUserAct \in Active \cup {None}
  BY DEF OneActiveExplained
<1>1. \A c \in Clients : ~Settling(call[c]) BY DEF Quiet, Settling
<1>2. Sound(row, byUserAct) BY <1>1 DEF ProjectInv, OneCall
<1>3. Active = ActiveIn(row) BY DEF Active, ActiveIn
<1>4. PICK q : Active \subseteq {q} BY <1>2, <1>3 DEF Sound
<1>5. Cardinality(Active) <= 1
  <2>1. CASE Active = {} BY <2>1, FS_EmptySet
  <2>2. CASE Active = {q} BY <2>2, FS_Singleton
  <2> QED BY <1>4, <2>1, <2>2
<1> QED BY <1>2, <1>3, <1>5 DEF Sound

\* The repair of the active flag, for any number of clients and projects: once
\* every call has returned, at most one project is active and the cached active
\* project is that one, unless calls overlapped, a statement of the store failed,
\* or put wrote back a flag that had changed since Get read it.
THEOREM OneActive == Spec => []OneActiveExplained
  BY SpecInv, RestSound, PTL

\* The steps of the others leave a call alone.
LEMMA OthersStep ==
  ASSUME ProjectInv, NEW c \in Clients, NEW d \in Clients, d # c, Start(d) \/ Step(d)
  PROVE  call'[c] = call[c]
<1>1. DOMAIN call = Clients BY ShapeFacts
<1>2. ASSUME NEW k, call' = [call EXCEPT ![d] = k] PROVE call'[c] = call[c]
  BY <1>1, <1>2
<1>3. CASE Start(d)
  BY <1>2, <1>3 DEF Start, ListProjects, CreateProject, SelectProject, EnsureProject,
                    EnsureRunContext, Begin
<1>4. Return(d) => call'[c] = call[c] BY <1>2 DEF Return
<1>5. \A pc : Goto(d, pc) => call'[c] = call[c] BY <1>1 DEF Goto
<1>6. ASSUME NEW flag, Got(d, flag), Shape(call[d]), call[d].pc \in {"get", "fill"},
             call[d].op # "list"
      PROVE  call'[c] = call[c]
  BY <1>1, <1>4, <1>5, <1>6 DEF Got, Shape
<1>7. Answer(d) => call'[c] = call[c] BY <1>1, <1>4 DEF Answer
<1>8. AfterPut(d) => call'[c] = call[c] BY <1>4, <1>5 DEF AfterPut
<1>9. CASE ListHit(d) \/ ListQuery(d) \/ ListFill(d)
  BY <1>1, <1>4, <1>9 DEF ListHit, ListQuery, ListFill
<1>10. CASE GetActiveHit(d) \/ GetActiveQuery(d) \/ GetActiveFill(d) \/ GetActiveNone(d)
  BY <1>1, <1>5, <1>10 DEF GetActiveHit, GetActiveQuery, GetActiveFill, GetActiveNone
<1>11. CASE GetHit(d) \/ GetQuery(d) \/ GetFill(d) \/ GetNone(d)
  <2>1. Shape(call[d]) BY CallFacts
  <2>2. call[d].pc = "get" => call[d].op # "list" BY <2>1 DEF Shape
  <2> QED BY <1>1, <1>6, <1>11, <2>1, <2>2 DEF GetHit, GetQuery, GetFill, GetNone
<1>12. CASE NewProjectRuntimeFails(d) \/ Put(d) \/ PutCache(d) \/ PutFails(d)
  BY <1>4, <1>5, <1>8, <1>12 DEF NewProjectRuntimeFails, Put, PutCache, PutFails
<1>13. CASE TxBegin(d) \/ TxOff(d) \/ TxOn(d) \/ Commit(d) \/ ActiveCache(d) \/ TxFail(d)
  BY <1>1, <1>5, <1>7, <1>13 DEF TxBegin, TxOff, TxOn, Commit, ActiveCache, TxFail
<1> QED BY <1>3, <1>9, <1>10, <1>11, <1>12, <1>13 DEF Step

\* A transaction that has both its statements behind it goes on by committing, or
\* it fails and its call is answered.
LEMMA CommitOnly ==
  ASSUME ProjectInv, NEW c \in Clients, Start(c) \/ Step(c),
         call[c].pc = "commit", call'[c].pc = "actCache"
  PROVE  Commit(c)
<1>1. DOMAIN call = Clients BY ShapeFacts
<1>2. ~TxFail(c)
  <2>1. SUFFICES ASSUME Answer(c) PROVE FALSE BY DEF TxFail
  <2>2. PICK k : k = call[c] OBVIOUS
  <2>3. PICK n : n = [Idle EXCEPT !.op = "answer", !.pc = "get", !.p = k.p] OBVIOUS
  <2>4. Idle.pc = "idle" /\ n.pc = "get" BY <2>3 DEF Idle
  <2>5. call'[c] = Idle \/ call'[c] = n BY <1>1, <2>1, <2>2, <2>3 DEF Answer, Return
  <2> QED BY <2>4, <2>5
<1>3. ~Start(c)
  BY DEF Start, ListProjects, CreateProject, SelectProject, EnsureProject, EnsureRunContext, Begin
<1>4. /\ ~ListHit(c) /\ ~ListQuery(c) /\ ~ListFill(c)
      /\ ~GetActiveHit(c) /\ ~GetActiveQuery(c) /\ ~GetActiveFill(c) /\ ~GetActiveNone(c)
      /\ ~GetHit(c) /\ ~GetQuery(c) /\ ~GetFill(c) /\ ~GetNone(c)
      /\ ~NewProjectRuntimeFails(c) /\ ~Put(c) /\ ~PutCache(c) /\ ~PutFails(c)
  BY DEF ListHit, ListQuery, ListFill, GetActiveHit, GetActiveQuery, GetActiveFill,
         GetActiveNone, GetHit, GetQuery, GetFill, GetNone, NewProjectRuntimeFails, Put,
         PutCache, PutFails
<1>5. ~TxBegin(c) /\ ~TxOff(c) /\ ~TxOn(c) /\ ~ActiveCache(c)
  BY DEF TxBegin, TxOff, TxOn, ActiveCache
<1> QED BY <1>2, <1>3, <1>4, <1>5 DEF Step

LEMMA StepWins ==
  ProjectInv /\ [Next]_vars =>
    [\A c \in Clients : call[c].pc = "commit" /\ call'[c].pc = "actCache" /\ alone[c]
        => Active' = {call[c].p}]_vars
<1> SUFFICES ASSUME ProjectInv, [Next]_vars, ~UNCHANGED vars, NEW c \in Clients,
                    call[c].pc = "commit", call'[c].pc = "actCache", alone[c]
             PROVE  Active' = {call[c].p}
  OBVIOUS
<1>1. ~Expire BY DEF Expire
<1>2. ~Restart BY DEF Restart, Idle
<1>3. PICK d \in Clients : Start(d) \/ Step(d) BY <1>1, <1>2 DEF Next
<1>4. d = c
  <2>1. call'[c] # call[c] OBVIOUS
  <2> QED BY <1>3, <2>1, OthersStep
<1>5. Commit(c) BY <1>3, <1>4, CommitOnly
<1>6. ActiveIn(row') = {call[c].p} BY <1>5, CommitWins
<1> QED BY <1>6 DEF Active, ActiveIn

\* Selecting a project repairs the flags for any number of clients and projects,
\* and whatever the rows were: a transaction of SetActiveForUser during which
\* nobody else writes commits with its project as the only active one.
THEOREM SelectionRepairs == Spec => SelectionWins
  BY SpecInv, StepWins, PTL DEF Spec, SelectionWins
=============================================================================
