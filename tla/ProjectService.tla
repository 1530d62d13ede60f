--------------------------- MODULE ProjectService ---------------------------
(***************************************************************************)
(* The projects of one user: the project service, the cached store in      *)
(* front of it and the PostgreSQL store, as clients call them at the same  *)
(* time.  A project is abstracted to its is_active flag.  Statements run   *)
(* at READ COMMITTED; SetActiveForUser is a transaction of two of them,    *)
(* the first of which locks the rows it saw active one by one and looks at *)
(* each of them again once it has the lock.  What a store method does to   *)
(* the caches after its statement is one step.                             *)
(***************************************************************************)
EXTENDS Naturals, FiniteSets

CONSTANTS
    Clients,
    Projects,
    MaxCalls,   \* bound: calls in all
    None

ASSUME ProjectAssumption ==
    None \notin Projects \cup BOOLEAN /\ IsFiniteSet(Projects) /\ MaxCalls \in Nat

VARIABLES
    row,        \* is_active of each committed row, None if there is no row
    lock,       \* the client whose transaction has locked each row
    byProject,  \* the cached flag of each project
    byUserAct,  \* the cached active project of the user
    byUserList, \* whether the user's list is cached
    runCtx,     \* projects with a run context
    call,       \* the call of each client
    calls,      \* calls begun
    alone,      \* history: nobody has written since the transaction's snapshot
    spoilt      \* history: calls have overlapped, a statement has failed, or a
                \* flag was written back that had changed since it was read

caches == <<byProject, byUserAct, byUserList, runCtx>>
vars == <<row, lock, caches, call, calls, alone, spoilt>>

Flags == BOOLEAN \cup {None}

(* p is the project and flag what the call has read of it; snap and off    *)
(* are the rows that its transaction has still to look at and has set to   *)
(* inactive.                                                               *)
Idle == [op |-> "none", pc |-> "idle", p |-> None, flag |-> None, snap |-> {}, off |-> {}]

Active == {p \in Projects : row[p] = TRUE}

Init ==
    /\ row \in {f \in [Projects -> Flags] : Cardinality({p \in Projects : f[p] = TRUE}) <= 1}
    /\ lock = [p \in Projects |-> None]
    /\ byProject = [p \in Projects |-> None]
    /\ byUserAct = None /\ byUserList = FALSE
    /\ runCtx = {}
    /\ call = [c \in Clients |-> Idle]
    /\ calls = 0
    /\ alone = [c \in Clients |-> FALSE]
    /\ spoilt = FALSE

Quiet == \A c \in Clients : call[c].pc = "idle"

(* c goes on at pc; the rest of its call stays as it is. *)
Goto(c, pc) == call' = [call EXCEPT ![c].pc = pc]

(* A committed write of c is seen by the transactions of the others.       *)
Wrote(c) == alone' = [d \in Clients |-> d = c /\ alone[c]]

----------------------------------------------------------------------------
(* The calls *)

Begin(c, op, p, pc) ==
    /\ call[c].pc = "idle" /\ calls < MaxCalls
    /\ call' = [call EXCEPT ![c] = [Idle EXCEPT !.op = op, !.p = p, !.pc = pc,
                                                !.flag = IF op = "create" THEN TRUE ELSE None]]
    /\ calls' = calls + 1
    /\ spoilt' = (spoilt \/ ~Quiet)
    /\ UNCHANGED <<row, lock, caches, alone>>

ListProjects(c) == Begin(c, "list", None, "list")

(* A new id, its run context, and then put. *)
CreateProject(c) ==
    \E p \in Projects : /\ row[p] = None
                        /\ \A d \in Clients : call[d].p # p
                        /\ Begin(c, "create", p, "put")

SelectProject(c) == \E p \in Projects : Begin(c, "select", p, "get")

(* With an id, of a project or not, or without one. *)
EnsureProject(c) ==
    \/ \E p \in Projects : Begin(c, "ensure", p, "get")
    \/ Begin(c, "ensure", None, "active")

EnsureRunContext(c) == \E p \in Projects : Begin(c, "runctx", p, "get")

(* The call returns. *)
Return(c) == call' = [call EXCEPT ![c] = Idle]

(* After setActiveForUser; CreateProject and EnsureProject answer with     *)
(* what a last Get gives them.                                             *)
Answer(c) ==
    IF call[c].op = "select" THEN Return(c)
    ELSE call' = [call EXCEPT ![c] = [Idle EXCEPT !.op = "answer", !.pc = "get", !.p = call[c].p]]

----------------------------------------------------------------------------
(* Reads *)

ListHit(c) ==
    /\ call[c].pc = "list" /\ byUserList
    /\ Return(c)
    /\ UNCHANGED <<row, lock, caches, calls, alone, spoilt>>

(* The rows are read, and put into the caches in a step of their own. *)
ListQuery(c) ==
    /\ call[c].pc = "list" /\ ~byUserList
    /\ call' = [call EXCEPT ![c].pc = "fill", ![c].flag = row]
    /\ UNCHANGED <<row, lock, caches, calls, alone, spoilt>>

ListFill(c) ==
    /\ call[c].op = "list" /\ call[c].pc = "fill"
    /\ byUserList' = TRUE
    /\ byProject' = [p \in Projects |-> IF call[c].flag[p] = None THEN byProject[p]
                                        ELSE call[c].flag[p]]
    /\ Return(c)
    /\ UNCHANGED <<row, lock, byUserAct, runCtx, calls, alone, spoilt>>

(* Where a call goes once it has looked for the active project: without    *)
(* one it makes a new one.                                                 *)
GetActiveHit(c) ==
    /\ call[c].pc = "active" /\ byUserAct # None
    /\ call' = [call EXCEPT ![c].pc = "get", ![c].p = byUserAct]
    /\ UNCHANGED <<row, lock, caches, calls, alone, spoilt>>

GetActiveQuery(c) ==
    /\ call[c].pc = "active" /\ byUserAct = None
    /\ \E p \in Active : /\ Active = {p}
                         /\ call' = [call EXCEPT ![c].pc = "fillActive", ![c].p = p]
    /\ UNCHANGED <<row, lock, caches, calls, alone, spoilt>>

GetActiveFill(c) ==
    /\ call[c].pc = "fillActive"
    /\ byUserAct' = call[c].p
    /\ byProject' = [byProject EXCEPT ![call[c].p] = TRUE]
    /\ Goto(c, "get")
    /\ UNCHANGED <<row, lock, byUserList, runCtx, calls, alone, spoilt>>

(* None, more than one, or an error: a new project. *)
GetActiveNone(c) ==
    /\ call[c].pc = "active" /\ byUserAct = None
    /\ \E p \in Projects :
         /\ row[p] = None /\ \A d \in Clients : call[d].p # p
         /\ call' = [call EXCEPT ![c].pc = "put", ![c].p = p, ![c].flag = TRUE]
    /\ spoilt' = (spoilt \/ Cardinality(Active) = 1)
    /\ UNCHANGED <<row, lock, caches, calls, alone>>

(* What the call does with the flag that Get has given it. *)
Got(c, flag) ==
    CASE call[c].op = "select" ->
           IF flag = None THEN Return(c) ELSE Goto(c, "tx")
      [] call[c].op = "ensure" ->
           call' = [call EXCEPT ![c].pc = "put", ![c].flag = IF flag = None THEN TRUE ELSE flag]
      [] call[c].op = "runctx" ->
           IF flag = None \/ call[c].p \in runCtx THEN Return(c)
           ELSE call' = [call EXCEPT ![c].pc = "put", ![c].flag = flag]
      [] call[c].op = "answer" -> Return(c)

GetHit(c) ==
    /\ call[c].pc = "get" /\ byProject[call[c].p] # None
    /\ Got(c, byProject[call[c].p])
    /\ UNCHANGED <<row, lock, caches, calls, alone, spoilt>>

GetQuery(c) ==
    /\ call[c].pc = "get" /\ byProject[call[c].p] = None /\ row[call[c].p] # None
    /\ call' = [call EXCEPT ![c].pc = "fill", ![c].flag = row[call[c].p]]
    /\ UNCHANGED <<row, lock, caches, calls, alone, spoilt>>

GetFill(c) ==
    /\ call[c].op # "list" /\ call[c].pc = "fill"
    /\ byProject' = [byProject EXCEPT ![call[c].p] = call[c].flag]
    /\ Got(c, call[c].flag)
    /\ UNCHANGED <<row, lock, byUserAct, byUserList, runCtx, calls, alone, spoilt>>

(* There is no row, or an error that the store takes for that. *)
GetNone(c) ==
    /\ call[c].pc = "get" /\ byProject[call[c].p] = None
    /\ Got(c, None)
    /\ spoilt' = (spoilt \/ row[call[c].p] # None)
    /\ UNCHANGED <<row, lock, caches, calls, alone>>

----------------------------------------------------------------------------
(* put *)

(* A project without a run context gets one first, which may fail. *)
NewProjectRuntimeFails(c) ==
    /\ call[c].pc = "put" /\ call[c].p \notin runCtx
    /\ Return(c)
    /\ UNCHANGED <<row, lock, caches, calls, alone, spoilt>>

AfterPut(c) == IF call[c].op = "runctx" THEN Return(c) ELSE Goto(c, "tx")

(* The upsert writes the flag as it was read, whatever the row says now. *)
Put(c) ==
    /\ call[c].pc = "put" /\ lock[call[c].p] = None
    /\ row' = [row EXCEPT ![call[c].p] = call[c].flag]
    /\ Goto(c, "putCache")
    /\ Wrote(c)
    /\ spoilt' = (spoilt \/ (call[c].op # "create" /\ row[call[c].p] \notin {None, call[c].flag}))
    /\ UNCHANGED <<lock, caches, calls>>

PutCache(c) ==
    /\ call[c].pc = "putCache"
    /\ byProject' = [byProject EXCEPT ![call[c].p] = call[c].flag]
    /\ byUserList' = FALSE /\ byUserAct' = None
    /\ runCtx' = runCtx \cup {call[c].p}
    /\ AfterPut(c)
    /\ UNCHANGED <<row, lock, calls, alone, spoilt>>

(* The error is ignored. *)
PutFails(c) ==
    /\ call[c].pc = "put"
    /\ runCtx' = runCtx \cup {call[c].p}
    /\ AfterPut(c)
    /\ spoilt' = TRUE
    /\ UNCHANGED <<row, lock, byProject, byUserAct, byUserList, calls, alone>>

----------------------------------------------------------------------------
(* SetActiveForUser *)

(* The snapshot of the first statement. *)
TxBegin(c) ==
    /\ call[c].pc = "tx"
    /\ call' = [call EXCEPT ![c].pc = "off", ![c].snap = Active, ![c].off = {}]
    /\ alone' = [alone EXCEPT ![c] = TRUE]
    /\ UNCHANGED <<row, lock, caches, calls, spoilt>>

(* Variant: the first statement misses the project selected before. *)
TxOffOne(c) ==
    /\ call[c].pc = "off"
    /\ \E p \in call[c].snap :
         /\ lock[p] = None
         /\ lock' = [lock EXCEPT ![p] = c]
         /\ call' = [call EXCEPT ![c].snap = {}, ![c].off = @ \cup {p}]
    /\ UNCHANGED <<row, caches, calls, alone, spoilt>>

(* A row of the snapshot is locked, and set to inactive if it still is     *)
(* active.                                                                 *)
TxOff(c) ==
    /\ call[c].pc = "off"
    /\ \E p \in call[c].snap :
         /\ lock[p] = None
         /\ lock' = [lock EXCEPT ![p] = c]
         /\ call' = [call EXCEPT ![c].snap = @ \ {p},
                                 ![c].off = IF row[p] = TRUE THEN @ \cup {p} ELSE @]
    /\ UNCHANGED <<row, caches, calls, alone, spoilt>>

(* The second statement: the row of the project is set to active. *)
TxOn(c) ==
    /\ call[c].pc = "off" /\ call[c].snap = {}
    /\ row[call[c].p] # None /\ lock[call[c].p] \in {None, c}
    /\ lock' = [lock EXCEPT ![call[c].p] = c]
    /\ Goto(c, "commit")
    /\ UNCHANGED <<row, caches, calls, alone, spoilt>>

Unlock(c) == lock' = [p \in Projects |-> IF lock[p] = c THEN None ELSE lock[p]]

Commit(c) ==
    /\ call[c].pc = "commit"
    /\ row' = [p \in Projects |-> IF p = call[c].p THEN TRUE
                                  ELSE IF p \in call[c].off THEN FALSE ELSE row[p]]
    /\ Unlock(c)
    /\ Goto(c, "actCache")
    /\ Wrote(c)
    /\ UNCHANGED <<caches, calls, spoilt>>

(* Variant: the active project that is cached stays. *)
ActiveCacheForgets(c) ==
    /\ call[c].pc = "actCache"
    /\ byUserList' = FALSE
    /\ byProject' = [byProject EXCEPT ![call[c].p] = TRUE]
    /\ Answer(c)
    /\ UNCHANGED <<row, lock, byUserAct, runCtx, calls, alone, spoilt>>

ActiveCache(c) ==
    /\ call[c].pc = "actCache"
    /\ byUserAct' = call[c].p /\ byUserList' = FALSE
    /\ byProject' = [byProject EXCEPT ![call[c].p] = TRUE]
    /\ Answer(c)
    /\ UNCHANGED <<row, lock, runCtx, calls, alone, spoilt>>

(* A statement fails, finds no row, or is the victim of a deadlock.        *)
(* SelectProject answers with the error, the others ignore it.             *)
TxFail(c) ==
    /\ call[c].pc \in {"tx", "off", "commit"}
    /\ Unlock(c)
    /\ Answer(c)
    /\ spoilt' = TRUE
    /\ UNCHANGED <<row, caches, calls, alone>>

----------------------------------------------------------------------------
(* The process ends and starts again. *)
Restart ==
    /\ lock' = [p \in Projects |-> None]
    /\ byProject' = [p \in Projects |-> None]
    /\ byUserAct' = None /\ byUserList' = FALSE
    /\ runCtx' = {}
    /\ call' = [c \in Clients |-> Idle]
    /\ alone' = [c \in Clients |-> FALSE]
    /\ spoilt' = (spoilt \/ ~Quiet)
    /\ UNCHANGED <<row, calls>>

(* An entry is evicted or its time is over. *)
Expire ==
    /\ \/ /\ \E p \in Projects : byProject' = [byProject EXCEPT ![p] = None]
          /\ UNCHANGED <<byUserAct, byUserList>>
       \/ byUserAct' = None /\ UNCHANGED <<byProject, byUserList>>
       \/ byUserList' = FALSE /\ UNCHANGED <<byProject, byUserAct>>
    /\ UNCHANGED <<row, lock, runCtx, call, calls, alone, spoilt>>

Start(c) == ListProjects(c) \/ CreateProject(c) \/ SelectProject(c)
            \/ EnsureProject(c) \/ EnsureRunContext(c)

Step(c) ==
    \/ ListHit(c) \/ ListQuery(c) \/ ListFill(c)
    \/ GetActiveHit(c) \/ GetActiveQuery(c) \/ GetActiveFill(c) \/ GetActiveNone(c)
    \/ GetHit(c) \/ GetQuery(c) \/ GetFill(c) \/ GetNone(c)
    \/ NewProjectRuntimeFails(c) \/ Put(c) \/ PutCache(c) \/ PutFails(c)
    \/ TxBegin(c) \/ TxOff(c) \/ TxOn(c) \/ Commit(c) \/ ActiveCache(c) \/ TxFail(c)

Next ==
    \/ \E c \in Clients : Start(c) \/ Step(c)
    \/ Restart \/ Expire

Spec == Init /\ [][Next]_vars

----------------------------------------------------------------------------
(* Properties *)

(* At rest the user has at most one active project and the cache knows no  *)
(* other, unless calls overlapped, a statement failed, or a call wrote     *)
(* back a flag it had read before: EnsureProject looks for the only active *)
(* row and makes a new project if there are two.                           *)
OneActiveExplained ==
    Quiet /\ ~spoilt => /\ Cardinality(Active) <= 1
                        /\ byUserAct \in Active \cup {None}

(* Selecting a project repairs the flags: a transaction during which       *)
(* nobody else writes leaves its project as the only active one, however   *)
(* many were active before.                                                *)
SelectionWins ==
    [][\A c \in Clients : call[c].pc = "commit" /\ call'[c].pc = "actCache" /\ alone[c]
          => Active' = {call[c].p}]_vars
=============================================================================
