--------------------------- MODULE UiDocumentStore ---------------------------
(***************************************************************************)
(* The UI document of one run as the gateway stores it: CachedStore        *)
(* (internal/cache/ui) in front of PostgresStore                           *)
(* (internal/gateway/repository/ui), used by the goroutines that serve     *)
(* requests.                                                               *)
(*                                                                         *)
(* Every statement of the ApplyOps transaction is one action.  The         *)
(* transaction runs at READ COMMITTED, PostgreSQL's default: a query sees  *)
(* the last committed row, and an insert or update of the row waits for    *)
(* the transaction that has inserted or updated it.  The query takes no    *)
(* lock (ForUpdate is commented out in the code), but the upsert before it *)
(* does: on conflict, Ignore() sets each column to itself, which is an     *)
(* update of the row.  Each access to the LRU cache is one action.         *)
(***************************************************************************)
EXTENDS Integers, SequencesExt

CONSTANTS
    Clients,     \* goroutines serving requests
    NodeIds,
    Contents,    \* what a UI node may hold
    Absent,      \* no such node in the document
    NoDoc,       \* no row, no cache entry
    NoClient,
    Batches,     \* the lists of ops a request may carry
    MaxVersion   \* bound: no ApplyOps starts once the row has this version

ASSUME StoreAssumption ==
    /\ Absent \notin Contents
    /\ NoClient \notin Clients
    /\ MaxVersion \in Nat

Document == [version : Nat, nodes : [NodeIds -> Contents \cup {Absent}]]

NoNodes == [n \in NodeIds |-> Absent]
Empty   == [version |-> 0, nodes |-> NoNodes]

\* Ops: a node is upserted or deleted (val = Absent), all nodes are cleared, a
\* nil op is skipped, anything else is refused.
Put(n, val) == [action |-> "put", node |-> n, val |-> val]
Clear       == [action |-> "clear"]
Nil         == [action |-> "nil"]
Unsupported == [action |-> "unsupported"]

ApplyOp(nodes, op) ==
    CASE op.action = "put"   -> [nodes EXCEPT ![op.node] = op.val]
      [] op.action = "clear" -> NoNodes
      [] OTHER               -> nodes

\* The nodes once a list of ops is applied in order.
ApplyAll(nodes, ops) == FoldLeft(ApplyOp, nodes, ops)

NoCall == [base |-> 0, ops |-> <<>>]

Refused(ops) == \E i \in DOMAIN ops : ops[i].action = "unsupported"
Changes(ops) == \E i \in DOMAIN ops : ops[i].action # "nil"

VARIABLES
    stored,      \* the committed row of user_interactions, or NoDoc
    lock,        \* the client whose transaction has written the row
    cache,       \* the cache entry of the run, or NoDoc
    phase, call, \* per client: where it is, and the request it serves
    doc,         \* per client: the document its call works on
    served,      \* per client: the document it was given last
    history      \* history: every document the row has held

store     == <<stored, lock, history>>
storeVars == <<store, cache, phase, call, doc, served>>

StoreInit ==
    /\ stored = NoDoc
    /\ lock = NoClient
    /\ cache = NoDoc
    /\ phase = [c \in Clients |-> "idle"]
    /\ call = [c \in Clients |-> NoCall]
    /\ doc = [c \in Clients |-> Empty]
    /\ served = [c \in Clients |-> Empty]
    /\ history = {Empty}

Goto(c, l) == phase' = [phase EXCEPT ![c] = l]

\* The call returns and its locals are gone.
Return(c) ==
    /\ Goto(c, "idle")
    /\ call' = [call EXCEPT ![c] = NoCall]
    /\ doc' = [doc EXCEPT ![c] = Empty]

\* What a query of the row yields; a run without a row has an empty document.
Fetched == IF stored = NoDoc THEN Empty ELSE stored

------------------------------------------------------------------------------
(* GetDocument. *)

GetHit(c) ==
    /\ phase[c] = "idle"
    /\ cache # NoDoc
    /\ served' = [served EXCEPT ![c] = cache]
    /\ UNCHANGED <<store, cache, phase, call, doc>>

GetMiss(c) ==
    /\ phase[c] = "idle"
    /\ cache = NoDoc
    /\ Goto(c, "query")
    /\ UNCHANGED <<store, cache, call, doc, served>>

GetQuery(c) ==
    /\ phase[c] = "query"
    /\ doc' = [doc EXCEPT ![c] = Fetched]
    /\ Goto(c, "cache")
    /\ UNCHANGED <<store, cache, call, served>>

------------------------------------------------------------------------------
(* ApplyOps. *)

\* A request carries no base version (0) or the version its client saw last.
ApplyOps(c) ==
    /\ phase[c] = "idle"
    /\ Fetched.version < MaxVersion
    /\ \E base \in {0, served[c].version}, ops \in Batches :
         call' = [call EXCEPT ![c] = [base |-> base, ops |-> ops]]
    /\ Goto(c, "create")
    /\ UNCHANGED <<store, cache, doc, served>>

\* Variant: on conflict do nothing, so that a row that is there is not locked.
CreateDoesNothing(c) ==
    /\ phase[c] = "create"
    /\ stored = NoDoc => lock = NoClient
    /\ lock' = IF stored = NoDoc THEN c ELSE lock
    /\ Goto(c, "fetch")
    /\ UNCHANGED <<stored, history, cache, call, doc, served>>

\* Insert the row, or set its columns to themselves if it is there: either way
\* the row is locked until the end of the transaction.
ApplyCreate(c) ==
    /\ phase[c] = "create"
    /\ lock = NoClient
    /\ lock' = c
    /\ Goto(c, "fetch")
    /\ UNCHANGED <<stored, history, cache, call, doc, served>>

Release(c) == lock' = IF lock = c THEN NoClient ELSE lock

Conflicts(c) == call[c].base > 0 /\ call[c].base # Fetched.version

\* Variant: the stale document is returned and the transaction left open.
ConflictLeftOpen(c) ==
    /\ phase[c] = "fetch"
    /\ Conflicts(c)
    /\ doc' = [doc EXCEPT ![c] = Fetched]
    /\ Goto(c, "cache")
    /\ UNCHANGED <<store, cache, call, served>>

\* The base version is stale: roll back and return what was read.
ApplyConflict(c) ==
    /\ phase[c] = "fetch"
    /\ Conflicts(c)
    /\ doc' = [doc EXCEPT ![c] = Fetched]
    /\ Release(c)
    /\ Goto(c, "cache")
    /\ UNCHANGED <<stored, history, cache, call, served>>

\* What the ops of c make of the row.
Applied(c) ==
    [version |-> Fetched.version + 1, nodes |-> ApplyAll(Fetched.nodes, call[c].ops)]

\* Query the row and apply the ops to it in memory.
ApplyFetch(c) ==
    /\ phase[c] = "fetch"
    /\ ~Conflicts(c)
    /\ ~Refused(call[c].ops)
    /\ IF Changes(call[c].ops)
       THEN /\ doc' = [doc EXCEPT ![c] = Applied(c)]
            /\ Goto(c, "update")
       ELSE /\ doc' = [doc EXCEPT ![c] = Fetched]
            /\ Goto(c, "commit")
    /\ UNCHANGED <<store, cache, call, served>>

\* Update the row by its id, which this transaction has locked.
ApplyUpdate(c) ==
    /\ phase[c] = "update"
    /\ lock \in {NoClient, c}
    /\ lock' = c
    /\ Goto(c, "commit")
    /\ UNCHANGED <<stored, history, cache, call, doc, served>>

\* Variant: the transaction is left open when the result is returned.
CommitDeferred(c) ==
    /\ phase[c] = "commit"
    /\ Goto(c, "cache")
    /\ UNCHANGED <<store, cache, call, doc, served>>

\* The database commits; without a change the row is what it was, or empty if
\* this transaction has inserted it.
Commit(c) ==
    /\ phase[c] = "commit"
    /\ stored' = doc[c]
    /\ history' = history \cup {doc[c]}
    /\ Release(c)

ApplyCommit(c) ==
    /\ Commit(c)
    /\ Goto(c, "cache")
    /\ UNCHANGED <<cache, call, doc, served>>

\* The commit takes effect and its answer is lost: the caller gets an error.
ApplyCommitUnanswered(c) ==
    /\ Commit(c)
    /\ Return(c)
    /\ UNCHANGED <<cache, served>>

Rollback(c) ==
    /\ Release(c)
    /\ Return(c)
    /\ UNCHANGED <<stored, history, cache, served>>

\* Some op is refused: nothing of the list is applied.
ApplyRefuse(c) ==
    /\ phase[c] = "fetch"
    /\ ~Conflicts(c)
    /\ Refused(call[c].ops)
    /\ Rollback(c)

\* A statement fails: the error is returned and the cache left alone.
ApplyFail(c) ==
    /\ phase[c] \in {"create", "fetch", "update", "commit"}
    /\ Rollback(c)

GetFail(c) ==
    /\ phase[c] = "query"
    /\ Return(c)
    /\ UNCHANGED <<store, cache, served>>

\* GetDocument and ApplyOps put the document they return into the cache.
CacheSet(c) ==
    /\ phase[c] = "cache"
    /\ cache' = doc[c]
    /\ served' = [served EXCEPT ![c] = doc[c]]
    /\ Return(c)
    /\ UNCHANGED store

\* Variant: the entry's time is renewed instead of running out.
ExpireRenewed ==
    /\ cache # NoDoc
    /\ UNCHANGED storeVars

\* The entry outlives its TTL or is evicted.
Expire ==
    /\ cache # NoDoc
    /\ cache' = NoDoc
    /\ UNCHANGED <<store, phase, call, doc, served>>

\* The gateway restarts: the database rolls back what was open.
Restart ==
    /\ phase' = [c \in Clients |-> "idle"]
    /\ lock' = NoClient
    /\ cache' = NoDoc
    /\ call' = [c \in Clients |-> NoCall]
    /\ doc' = [c \in Clients |-> Empty]
    /\ UNCHANGED <<stored, history, served>>

------------------------------------------------------------------------------
Serve(c) ==
    \/ GetQuery(c) \/ ApplyConflict(c) \/ ApplyRefuse(c) \/ ApplyFetch(c)
    \/ ApplyUpdate(c) \/ ApplyCommit(c) \/ CacheSet(c)

StoreNext ==
    \/ \E c \in Clients :
         \/ GetHit(c) \/ GetMiss(c) \/ ApplyOps(c)
         \/ Serve(c) \/ ApplyCreate(c)
         \/ GetFail(c) \/ ApplyFail(c) \/ ApplyCommitUnanswered(c)
    \/ Expire \/ Restart

StoreSpec == StoreInit /\ [][StoreNext]_storeVars

\* A goroutine that can run does, PostgreSQL grants a row lock to those who wait
\* for it in turn, and a TTL runs out.  Nothing has to fail.
StoreFairSpec ==
    /\ StoreSpec
    /\ \A c \in Clients : WF_storeVars(Serve(c)) /\ SF_storeVars(ApplyCreate(c))
    /\ WF_storeVars(Expire)

------------------------------------------------------------------------------
(* Properties. *)

StoreTypeOK ==
    /\ stored \in Document \cup {NoDoc}
    /\ lock \in Clients \cup {NoClient}
    /\ cache \in Document \cup {NoDoc}
    /\ phase \in [Clients -> {"idle", "query", "create", "fetch", "update",
                           "commit", "cache"}]
    /\ doc \in [Clients -> Document]
    /\ history \subseteq Document

\* Nobody is ever given a document that the database has not held: not the
\* effect of a transaction that failed or is still open, whatever is cached in
\* which order and whenever the gateway restarts.
ServedWasCommitted ==
    /\ cache # NoDoc => cache \in history
    /\ \A c \in Clients : served[c] \in history

\* The transactions on the row run one at a time, from the upsert on, and nobody
\* waits for a row lock that nobody will release: every way out of ApplyOps
\* releases it, the error paths and a restart included.
LockHolderRuns ==
    \A c \in Clients : lock = c <=> phase[c] \in {"fetch", "update", "commit"}

\* Every call ends: a transaction that waits for another one's row lock gets it,
\* because no path leaves the lock behind.
CallsEnd == \A c \in Clients : phase[c] # "idle" ~> phase[c] = "idle"

Writing == \E c \in Clients : phase[c] \in {"create", "fetch", "update", "commit"}

\* The cache is stale for at most a TTL: once nobody writes, it ends up empty or
\* equal to the row, although calls fill it in any order.
CacheConverges ==
    <>[]~Writing => <>[](cache \in {NoDoc, Fetched})

\* No update is lost: whenever the row changes, some call's ops have been applied
\* to the very version they replace, and a base version the call gave is that
\* version.  The check and the update are separate statements and the query takes
\* no lock; what keeps other writers out between them is the upsert.
NoLostUpdate ==
    [][stored' # stored =>
         \/ stored = NoDoc /\ stored' = Empty
         \/ \E c \in Clients : /\ phase[c] = "commit"
                               /\ call[c].base > 0 => call[c].base = Fetched.version
                               /\ stored' = Applied(c)]_storeVars
==============================================================================
