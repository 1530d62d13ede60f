--------------------------- MODULE ActChatProofs ---------------------------
(***************************************************************************)
(* The chat worker, its act node and the document store behind it.         *)
(*                                                                         *)
(* For the store, with any number of clients, nodes and ops: nobody is     *)
(* given what was not committed.  That is not inductive: what a call puts  *)
(* into the cache must already be known to be committed when the call is   *)
(* about to do so.  And no update is lost: a call between its query and    *)
(* its commit holds the row lock, so that what it has made of the row is   *)
(* still what its ops make of the row when it commits.                     *)
(*                                                                         *)
(* For the chat, with any number of users, turns and inputs: it refines    *)
(* the user-interaction service, so that what is proved there holds here   *)
(* too; the timeline needs to know which goroutine still owes which        *)
(* message to it, and the answers where the worker is in its two calls.    *)
(***************************************************************************)
EXTENDS ActChat, UiDocumentStore, UserInteractionProofs, FiniteSetTheorems

(* The document store. *)

StoreShapes == DOMAIN phase = Clients /\ DOMAIN doc = Clients /\ DOMAIN served = Clients

\* Only documents the row has held are read.
ReadsCommitted == Empty \in history /\ (stored # NoDoc => stored \in history)

\* What a call carries to the cache.
CarriesCommitted == \A c \in Clients : phase[c] = "cache" => doc[c] \in history

StoreInv == StoreShapes /\ ReadsCommitted /\ CarriesCommitted /\ ServedWasCommitted

LEMMA FetchedCommitted == ReadsCommitted => Fetched \in history
  BY DEF ReadsCommitted, Fetched

LEMMA StoreStarts == StoreInit => StoreInv
  BY DEF StoreInit, StoreInv, StoreShapes, ReadsCommitted, CarriesCommitted, ServedWasCommitted

LEMMA StoreKeeps == StoreInv /\ [StoreNext]_storeVars => StoreInv'
<1> SUFFICES ASSUME StoreInv, [StoreNext]_storeVars PROVE StoreInv'
  OBVIOUS
<1>f. Fetched \in history
  BY FetchedCommitted DEF StoreInv
<1>i. /\ DOMAIN phase = Clients /\ DOMAIN doc = Clients /\ DOMAIN served = Clients
      /\ Empty \in history
      /\ stored # NoDoc => stored \in history
      /\ cache # NoDoc => cache \in history
      /\ \A d \in Clients : /\ served[d] \in history
                            /\ phase[d] = "cache" => doc[d] \in history
  BY DEF StoreInv, StoreShapes, ReadsCommitted, CarriesCommitted, ServedWasCommitted
<1> USE StoreAssumption DEF StoreAssumption
<1> HIDE DEF StoreInv
<1>1. ASSUME NEW c \in Clients, GetHit(c) PROVE StoreInv'
  BY <1>1, <1>i DEF GetHit, store, StoreInv, StoreShapes, ReadsCommitted, CarriesCommitted, ServedWasCommitted
<1>2. ASSUME NEW c \in Clients, GetMiss(c) PROVE StoreInv'
  BY <1>2, <1>i DEF GetMiss, Goto, store, StoreInv, StoreShapes, ReadsCommitted, CarriesCommitted, ServedWasCommitted
<1>3. ASSUME NEW c \in Clients, GetQuery(c) PROVE StoreInv'
  BY <1>3, <1>i, <1>f DEF GetQuery, Goto, store, StoreInv, StoreShapes, ReadsCommitted, CarriesCommitted, ServedWasCommitted
<1>4. ASSUME NEW c \in Clients, ApplyOps(c) PROVE StoreInv'
  BY <1>4, <1>i DEF ApplyOps, Goto, store, StoreInv, StoreShapes, ReadsCommitted, CarriesCommitted, ServedWasCommitted
<1>5. ASSUME NEW c \in Clients, ApplyCreate(c) PROVE StoreInv'
  BY <1>5, <1>i DEF ApplyCreate, Goto, store, StoreInv, StoreShapes, ReadsCommitted, CarriesCommitted, ServedWasCommitted
<1>6. ASSUME NEW c \in Clients, ApplyConflict(c) PROVE StoreInv'
  BY <1>6, <1>i, <1>f DEF ApplyConflict, Release, Goto, store, StoreInv, StoreShapes, ReadsCommitted, CarriesCommitted, ServedWasCommitted
<1>7. ASSUME NEW c \in Clients, ApplyFetch(c) PROVE StoreInv'
  BY <1>7, <1>i, <1>f DEF ApplyFetch, Goto, store, StoreInv, StoreShapes, ReadsCommitted, CarriesCommitted, ServedWasCommitted
<1>8. ASSUME NEW c \in Clients, ApplyUpdate(c) PROVE StoreInv'
  BY <1>8, <1>i DEF ApplyUpdate, Goto, store, StoreInv, StoreShapes, ReadsCommitted, CarriesCommitted, ServedWasCommitted
<1>9. ASSUME NEW c \in Clients, ApplyCommit(c) PROVE StoreInv'
  BY <1>9, <1>i DEF ApplyCommit, Commit, Release, Goto, StoreInv, StoreShapes, ReadsCommitted, CarriesCommitted, ServedWasCommitted
<1>10. ASSUME NEW c \in Clients, ApplyCommitUnanswered(c) PROVE StoreInv'
  BY <1>10, <1>i DEF ApplyCommitUnanswered, Commit, Release, Return, Goto, StoreInv, StoreShapes, ReadsCommitted, CarriesCommitted, ServedWasCommitted
<1>11. ASSUME NEW c \in Clients, Rollback(c) PROVE StoreInv'
  BY <1>11, <1>i DEF Rollback, Release, Return, Goto, StoreInv, StoreShapes, ReadsCommitted, CarriesCommitted, ServedWasCommitted
<1>12. ASSUME NEW c \in Clients, GetFail(c) PROVE StoreInv'
  BY <1>12, <1>i DEF GetFail, Return, Goto, store, StoreInv, StoreShapes, ReadsCommitted, CarriesCommitted, ServedWasCommitted
<1>13. ASSUME NEW c \in Clients, CacheSet(c) PROVE StoreInv'
  BY <1>13, <1>i DEF CacheSet, Return, Goto, store, StoreInv, StoreShapes, ReadsCommitted, CarriesCommitted, ServedWasCommitted
<1>14. CASE Expire
  BY <1>14, <1>i DEF Expire, store, StoreInv, StoreShapes, ReadsCommitted, CarriesCommitted, ServedWasCommitted
<1>15. CASE Restart
  BY <1>15, <1>i DEF Restart, StoreInv, StoreShapes, ReadsCommitted, CarriesCommitted, ServedWasCommitted
<1>16. CASE UNCHANGED storeVars
  BY <1>16, <1>i DEF storeVars, store, StoreInv, StoreShapes, ReadsCommitted, CarriesCommitted, ServedWasCommitted
<1>17. QED
  BY <1>1, <1>2, <1>3, <1>4, <1>5, <1>6, <1>7, <1>8, <1>9, <1>10, <1>11, <1>12, <1>13,
     <1>14, <1>15, <1>16
     DEF StoreNext, Serve, ApplyRefuse, ApplyFail

\* Whatever fails, restarts or is cached in which order, everything that
\* CachedStore has ever served was committed by PostgresStore.
THEOREM OnlyCommittedServed == StoreSpec => []ServedWasCommitted
<1>1. StoreInv => ServedWasCommitted
  BY DEF StoreInv
<1>2. QED
  BY <1>1, StoreStarts, StoreKeeps, PTL DEF StoreSpec

\* The row lock is taken by a client that enters its transaction, and given back
\* by the step that leaves it.
LockInv == lock \in Clients \cup {NoClient} /\ LockHolderRuns

LEMMA GotoFacts ==
    ASSUME StoreShapes, NEW c \in Clients, NEW l, Goto(c, l)
    PROVE  phase'[c] = l /\ \A d \in Clients \ {c} : phase'[d] = phase[d]
  BY DEF Goto, StoreShapes

Open == {"fetch", "update", "commit"}

LEMMA LockKeeps == StoreInv /\ LockInv /\ [StoreNext]_storeVars => LockInv'
<1> SUFFICES ASSUME StoreInv, lock \in Clients \cup {NoClient}, LockHolderRuns,
                    [StoreNext]_storeVars
             PROVE  LockInv'
  BY DEF LockInv
<1>0. StoreShapes BY DEF StoreInv
<1>a. NoClient \notin Clients BY StoreAssumption DEF StoreAssumption
<1>1. ASSUME NEW c \in Clients, UNCHANGED lock, phase[c] \in Open <=> phase'[c] \in Open,
             \A d \in Clients \ {c} : phase'[d] = phase[d]
      PROVE  LockInv'
  BY <1>1 DEF LockInv, LockHolderRuns, Open
<1>2. ASSUME NEW c \in Clients, Release(c), phase'[c] \notin Open,
             \A d \in Clients \ {c} : phase'[d] = phase[d]
      PROVE  LockInv'
  BY <1>2, <1>a DEF Release, LockInv, LockHolderRuns, Open
<1>3. ASSUME NEW c \in Clients, GetMiss(c) \/ GetQuery(c) \/ ApplyOps(c) \/ GetFail(c) \/ CacheSet(c)
      PROVE  LockInv'
  <2>1. UNCHANGED lock /\ phase[c] \notin Open
    BY <1>3 DEF GetMiss, GetQuery, ApplyOps, GetFail, CacheSet, store, Open
  <2>2. PICK l \in {"query", "cache", "create", "idle"} : Goto(c, l)
    BY <1>3 DEF GetMiss, GetQuery, ApplyOps, GetFail, CacheSet, Return
  <2> QED BY <2>1, <2>2, <1>0, <1>1, GotoFacts DEF Open
<1>4. ASSUME NEW c \in Clients, ApplyConflict(c) \/ ApplyCommit(c) \/ ApplyCommitUnanswered(c) \/ Rollback(c)
      PROVE  LockInv'
  <2>1. Release(c) BY <1>4 DEF ApplyConflict, ApplyCommit, ApplyCommitUnanswered, Commit, Rollback
  <2>2. PICK l \in {"cache", "idle"} : Goto(c, l)
    BY <1>4 DEF ApplyConflict, ApplyCommit, ApplyCommitUnanswered, Rollback, Return
  <2> QED BY <2>1, <2>2, <1>0, <1>2, GotoFacts DEF Open
<1>5. ASSUME NEW c \in Clients, ApplyFetch(c) \/ ApplyUpdate(c) PROVE LockInv'
  <2>1. phase[c] \in Open BY <1>5 DEF ApplyFetch, ApplyUpdate, Open
  <2>2. lock = c BY <2>1 DEF LockHolderRuns, Open
  <2>3. UNCHANGED lock BY <1>5, <2>2 DEF ApplyFetch, ApplyUpdate, store
  <2>4. PICK l \in {"update", "commit"} : Goto(c, l) BY <1>5 DEF ApplyFetch, ApplyUpdate
  <2> QED BY <2>1, <2>3, <2>4, <1>0, <1>1, GotoFacts DEF Open
<1>6. ASSUME NEW c \in Clients, ApplyCreate(c) PROVE LockInv'
  <2>1. phase'[c] = "fetch" /\ \A d \in Clients \ {c} : phase'[d] = phase[d]
    BY <1>0, <1>6, GotoFacts DEF ApplyCreate
  <2>2. lock = NoClient /\ lock' = c BY <1>6 DEF ApplyCreate
  <2>3. \A d \in Clients : phase[d] \notin {"fetch", "update", "commit"}
    BY <1>a, <2>2 DEF LockHolderRuns
  <2> QED BY <2>1, <2>2, <2>3 DEF LockInv, LockHolderRuns
<1>7. CASE UNCHANGED <<lock, phase>> BY <1>7 DEF LockInv, LockHolderRuns
<1>8. CASE Restart BY <1>8, <1>a DEF Restart, LockInv, LockHolderRuns
<1>9. ASSUME NEW c \in Clients, GetHit(c) PROVE LockInv'
  BY <1>7, <1>9 DEF GetHit, store
<1>10. CASE Expire BY <1>7, <1>10 DEF Expire, store
<1>11. CASE UNCHANGED storeVars BY <1>7, <1>11 DEF storeVars, store
<1>12. ASSUME NEW c \in Clients,
              \/ GetHit(c) \/ GetMiss(c) \/ ApplyOps(c) \/ Serve(c) \/ ApplyCreate(c)
              \/ GetFail(c) \/ ApplyFail(c) \/ ApplyCommitUnanswered(c)
       PROVE  LockInv'
  <2>1. ApplyRefuse(c) \/ ApplyFail(c) => Rollback(c) BY DEF ApplyRefuse, ApplyFail
  <2> QED BY <1>12, <2>1, <1>3, <1>4, <1>5, <1>6, <1>9 DEF Serve
<1> QED BY <1>8, <1>10, <1>11, <1>12 DEF StoreNext

\* For any number of clients, whatever fails and whenever the gateway restarts, the
\* client that holds the row lock is the one that is inside its transaction.
THEOREM LockNeverAbandoned == StoreSpec => []LockHolderRuns
<1>1. StoreInit => LockInv
  BY StoreAssumption DEF StoreInit, LockInv, LockHolderRuns, StoreAssumption
<1>2. LockInv => LockHolderRuns
  BY DEF LockInv
<1>3. QED
  BY <1>1, <1>2, LockKeeps, StoreStarts, StoreKeeps, PTL DEF StoreSpec

\* A call that is past its query works on the row as it still is.
RowAsRead ==
    /\ DOMAIN call = Clients
    /\ \A c \in Clients :
         /\ phase[c] \in {"update", "commit"} => ~Conflicts(c)
         /\ phase[c] = "update" => doc[c] = Applied(c)
         /\ phase[c] = "commit" => doc[c] = Applied(c) \/ doc[c] = Fetched

\* The clients of which a step knows nothing keep what they have read.
LEMMA OthersKeep ==
    ASSUME RowAsRead, UNCHANGED stored, NEW c \in Clients, DOMAIN call' = Clients,
           \A d \in Clients \ {c} : UNCHANGED <<phase[d], call[d], doc[d]>>,
           phase'[c] \in {"update", "commit"} =>
              /\ call'[c] = call[c]
              /\ ~Conflicts(c)
              /\ phase'[c] = "update" => doc'[c] = Applied(c)
              /\ doc'[c] = Applied(c) \/ doc'[c] = Fetched
    PROVE  RowAsRead'
<1>1. Fetched' = Fetched BY DEF Fetched
<1>2. \A d \in Clients : call'[d] = call[d] =>
        Applied(d)' = Applied(d) /\ (Conflicts(d)' <=> Conflicts(d))
  BY <1>1 DEF Applied, Conflicts
<1> QED BY <1>1, <1>2 DEF RowAsRead

LEMMA RowStep ==
    StoreInv /\ LockInv /\ RowAsRead /\ [StoreNext]_storeVars => RowAsRead'
<1> SUFFICES ASSUME StoreInv, LockInv, RowAsRead, [StoreNext]_storeVars PROVE RowAsRead'
  OBVIOUS
<1>0. StoreShapes BY DEF StoreInv
<1>1. DOMAIN phase = Clients /\ DOMAIN doc = Clients /\ DOMAIN call = Clients
  BY <1>0 DEF StoreShapes, RowAsRead
<1>2. ASSUME NEW c \in Clients, UNCHANGED stored, NEW l, l \notin {"update", "commit"}, Goto(c, l),
             DOMAIN call' = Clients, \A d \in Clients \ {c} : UNCHANGED <<call[d], doc[d]>>
      PROVE  RowAsRead'
  <2>1. \A d \in Clients \ {c} : UNCHANGED <<phase[d], call[d], doc[d]>>
    BY <1>0, <1>2, GotoFacts
  <2>2. phase'[c] = l BY <1>0, <1>2, GotoFacts
  <2> QED BY <1>2, <2>1, <2>2, OthersKeep
<1>3. ASSUME NEW c \in Clients,
             \/ GetMiss(c) \/ GetQuery(c) \/ ApplyOps(c) \/ ApplyCreate(c) \/ ApplyConflict(c)
             \/ GetFail(c) \/ CacheSet(c) \/ Rollback(c)
      PROVE  RowAsRead'
  <2>1. UNCHANGED stored
    BY <1>3 DEF GetMiss, GetQuery, ApplyOps, ApplyCreate, ApplyConflict, GetFail, CacheSet, Rollback, store
  <2>2. PICK l \in {"query", "cache", "create", "fetch", "idle"} : Goto(c, l)
    BY <1>3 DEF GetMiss, GetQuery, ApplyOps, ApplyCreate, ApplyConflict, GetFail, CacheSet,
         Rollback, Return
  <2>3. DOMAIN call' = Clients /\ \A d \in Clients \ {c} : UNCHANGED <<call[d], doc[d]>>
    BY <1>1, <1>3 DEF GetMiss, GetQuery, ApplyOps, ApplyCreate, ApplyConflict, GetFail, CacheSet,
         Rollback, Return
  <2> QED BY <2>1, <2>2, <2>3, <1>2
<1>4. ASSUME NEW c \in Clients, ApplyFetch(c) PROVE RowAsRead'
  <2>1. UNCHANGED <<stored, call>> /\ ~Conflicts(c) BY <1>4 DEF ApplyFetch, store
  <2>2. \/ Goto(c, "update") /\ doc' = [doc EXCEPT ![c] = Applied(c)]
        \/ Goto(c, "commit") /\ doc' = [doc EXCEPT ![c] = Fetched]
    BY <1>4 DEF ApplyFetch
  <2>3. \A d \in Clients \ {c} : UNCHANGED <<phase[d], call[d], doc[d]>>
    BY <1>0, <1>1, <2>1, <2>2, GotoFacts
  <2>4. \/ phase'[c] = "update" /\ doc'[c] = Applied(c)
        \/ phase'[c] = "commit" /\ doc'[c] = Fetched
    BY <1>0, <1>1, <2>2, GotoFacts
  <2> QED BY <1>1, <2>1, <2>3, <2>4, OthersKeep
<1>5. ASSUME NEW c \in Clients, ApplyUpdate(c) PROVE RowAsRead'
  <2>1. UNCHANGED <<stored, call, doc>> /\ phase[c] = "update" /\ Goto(c, "commit")
    BY <1>5 DEF ApplyUpdate
  <2>2. \A d \in Clients \ {c} : UNCHANGED <<phase[d], call[d], doc[d]>>
    BY <1>0, <2>1, GotoFacts
  <2>3. phase'[c] = "commit" BY <1>0, <2>1, GotoFacts
  <2>4. doc'[c] = Applied(c) /\ ~Conflicts(c)
    BY <2>1 DEF RowAsRead
  <2> QED BY <1>1, <2>1, <2>2, <2>3, <2>4, OthersKeep
<1>6. ASSUME NEW c \in Clients, ApplyCommit(c) \/ ApplyCommitUnanswered(c) PROVE RowAsRead'
  <2>1. lock = c BY <1>6 DEF ApplyCommit, ApplyCommitUnanswered, Commit, LockInv, LockHolderRuns
  <2>2. \A d \in Clients \ {c} : phase[d] \notin {"update", "commit"}
    BY <2>1 DEF LockInv, LockHolderRuns
  <2>3. PICK l \in {"cache", "idle"} : Goto(c, l)
    BY <1>6 DEF ApplyCommit, ApplyCommitUnanswered, Return
  <2>4. \A d \in Clients : phase'[d] \notin {"update", "commit"} BY <1>0, <2>2, <2>3, GotoFacts
  <2>5. DOMAIN call' = Clients
    BY <1>1, <1>6 DEF ApplyCommit, ApplyCommitUnanswered, Return
  <2> QED BY <2>4, <2>5 DEF RowAsRead
<1>7. CASE UNCHANGED <<stored, phase, call, doc>> BY <1>7 DEF RowAsRead, Applied, Conflicts, Fetched
<1>8. CASE Restart
  <2>1. \A d \in Clients : phase'[d] = "idle" BY <1>8 DEF Restart
  <2>2. DOMAIN call' = Clients BY <1>8 DEF Restart
  <2> QED BY <2>1, <2>2 DEF RowAsRead
<1>9. ASSUME NEW c \in Clients,
             \/ GetHit(c) \/ GetMiss(c) \/ ApplyOps(c) \/ Serve(c) \/ ApplyCreate(c)
             \/ GetFail(c) \/ ApplyFail(c) \/ ApplyCommitUnanswered(c)
      PROVE  RowAsRead'
  <2>1. ApplyRefuse(c) \/ ApplyFail(c) => Rollback(c) BY DEF ApplyRefuse, ApplyFail
  <2>2. CASE GetHit(c) BY <2>2, <1>7 DEF GetHit, store
  <2> QED BY <1>9, <2>1, <2>2, <1>3, <1>4, <1>5, <1>6 DEF Serve
<1>10. CASE Expire BY <1>7, <1>10 DEF Expire, store
<1>11. CASE UNCHANGED storeVars BY <1>7, <1>11 DEF storeVars, store
<1> QED BY <1>8, <1>9, <1>10, <1>11 DEF StoreNext

\* Only a commit changes the row.
LEMMA CommitChanges ==
    ASSUME [StoreNext]_storeVars, stored' # stored
    PROVE  \E c \in Clients : phase[c] = "commit" /\ stored' = doc[c]
  BY DEF StoreNext, Serve, GetHit, GetMiss, GetQuery, ApplyOps, ApplyCreate, ApplyConflict,
       ApplyFetch, ApplyUpdate, ApplyRefuse, ApplyFail, Rollback, GetFail, CacheSet, Expire,
       Restart, ApplyCommit, ApplyCommitUnanswered, Commit, store, storeVars

\* For any number of clients, documents and ops: each change of the row applies
\* the ops of one call to the version it replaces, and a call that names a base
\* version replaces no other.
THEOREM UpdatesNeverLost == StoreSpec => NoLostUpdate
<1>1. StoreInit => LockInv /\ RowAsRead
  BY StoreAssumption DEF StoreInit, LockInv, LockHolderRuns, RowAsRead, StoreAssumption
<1>2. ASSUME RowAsRead, [StoreNext]_storeVars, stored' # stored
      PROVE  \/ stored = NoDoc /\ stored' = Empty
             \/ \E c \in Clients : /\ phase[c] = "commit"
                                   /\ call[c].base > 0 => call[c].base = Fetched.version
                                   /\ stored' = Applied(c)
  <2>1. PICK c \in Clients : phase[c] = "commit" /\ stored' = doc[c] BY <1>2, CommitChanges
  <2>2. call[c].base > 0 => call[c].base = Fetched.version BY <1>2, <2>1 DEF RowAsRead, Conflicts
  <2>3. CASE doc[c] = Applied(c) BY <2>1, <2>2, <2>3
  <2>4. CASE doc[c] = Fetched BY <1>2, <2>1, <2>4 DEF Fetched
  <2> QED BY <1>2, <2>1, <2>3, <2>4 DEF RowAsRead
<1>3. RowAsRead /\ [StoreNext]_storeVars =>
        [stored' # stored =>
           \/ stored = NoDoc /\ stored' = Empty
           \/ \E c \in Clients : /\ phase[c] = "commit"
                                 /\ call[c].base > 0 => call[c].base = Fetched.version
                                 /\ stored' = Applied(c)]_storeVars
  BY <1>2
<1> QED BY <1>1, <1>3, LockKeeps, RowStep, StoreStarts, StoreKeeps, PTL DEF StoreSpec, NoLostUpdate

(* The chat is a use of the service. *)

LEMMA Members ==
    /\ worker \in Waiters /\ publisher \in Callers /\ Users \subseteq Callers
    /\ Callers \subseteq Procs /\ Waiters \subseteq Procs
    /\ worker \notin Callers /\ worker # publisher
  BY ChatAssumption, ProcsDisjoint DEF Users, Procs

LEMMA HandleServes ==
    ASSUME NEW g \in Procs, Handle(g)
    PROVE  UNCHANGED vars \/ SyncReturn(g)
  BY DEF Handle, HandleRead, HandleCommit, HandleReturn, HandleFail

LEMMA ChatStepServes == [ChatNext]_allVars => [Next]_vars
<1> SUFFICES ASSUME ChatNext \/ UNCHANGED allVars, ~UNCHANGED vars PROVE Next
  OBVIOUS
<1>1. ChatNext BY DEF allVars
<1>2. CASE WorkerRun
  BY <1>2, Members DEF WorkerRun, ChatStart, ChatTurn, ChatPublish, ChatPublished, ChatWait,
       ChatInput, ChatNoInput, ChatWaited, Only, Persist, Next, WaiterRun, CallerRun
<1>3. CASE IdleTimeout BY <1>3, Members DEF IdleTimeout, Only, Next
<1>4. ASSUME NEW c \in Users, Only(Enter(c)) \/ UserRun(c) PROVE Next
  BY <1>4, Members DEF UserRun, Only, Persist, Next, CallerRun
<1>5. ASSUME NEW g \in Procs, Handle(g) PROVE Next
  BY <1>5, HandleServes DEF Next
<1>6. CASE CreateNodeInTab \/ CreateNodeCached
  BY <1>6 DEF CreateNodeInTab, CreateNodeCached
<1> QED BY <1>1, <1>2, <1>3, <1>4, <1>5, <1>6 DEF ChatNext

\* The worker, the users and the event service only use the session through the
\* operations of the user-interaction service, each as the service allows it.
THEOREM ChatUsesService == ChatSpec => Spec
<1>1. ChatInit => Init BY DEF ChatInit
<1> QED BY <1>1, ChatStepServes, PTL DEF ChatSpec, Spec

(* Nodes and UI sync calls. *)

\* A UI sync call that puts its message into the timeline.
Logs(ev) == ev.type \in {"user_accepted", "assistant_output"}

\* The first call of e is about message m.
Claims(e, m) == e # <<>> /\ Logs(Head(e)) /\ Head(e).msg = m

\* Calls behind the first one log nothing.
QuietTail(e) == \A i \in DOMAIN e : i > 1 => ~Logs(e[i])

Shows(n, m) == n # NoNode /\ m \in SeqElems(n.timeline)

Distinct(t) == \A i, j \in DOMAIN t : i # j => t[i] # t[j]

\* A node whose timeline has messages of a conversation of that length, each once.
Sane(n, len) ==
    /\ n \in Node
    /\ SeqElems(n.timeline) \subseteq 1..len
    /\ Distinct(n.timeline)

LEMMA TailClaims ==
    ASSUME NEW e \in Seq(SyncCall), e # <<>>, QuietTail(e)
    PROVE  QuietTail(Tail(e)) /\ \A m : ~Claims(Tail(e), m)
<1>1. /\ Len(e) \in Nat /\ DOMAIN e = 1..Len(e) /\ DOMAIN Tail(e) = 1..(Len(e) - 1)
      /\ \A i \in 1..(Len(e) - 1) : Tail(e)[i] = e[i + 1]
  OBVIOUS
<1>2. \A i \in DOMAIN Tail(e) : ~Logs(Tail(e)[i]) BY <1>1 DEF QuietTail
<1>3. QuietTail(Tail(e)) BY <1>2 DEF QuietTail
<1>4. Tail(e) # <<>> => Head(Tail(e)) = Tail(e)[1] /\ 1 \in DOMAIN Tail(e) BY <1>1
<1> QED BY <1>2, <1>3, <1>4 DEF Claims

\* A message at the end of a timeline that does not have it yet.
LEMMA AppendNew ==
    ASSUME NEW t \in Seq(Nat), NEW m \in Nat, m \notin SeqElems(t), Distinct(t),
           NEW u, u = Append(t, m)
    PROVE  SeqElems(u) = SeqElems(t) \cup {m} /\ Distinct(u)
<1>1. /\ Len(t) \in Nat /\ DOMAIN t = 1..Len(t) /\ DOMAIN u = 1..(Len(t) + 1)
      /\ \A i \in 1..Len(t) : u[i] = t[i]
      /\ u[Len(t) + 1] = m
  OBVIOUS
<1>2. SeqElems(u) = SeqElems(t) \cup {m} BY <1>1 DEF SeqElems
<1>3. \A i \in 1..Len(t) : t[i] # m BY <1>1 DEF SeqElems
<1>4. Distinct(u) BY <1>1, <1>3 DEF Distinct
<1> QED BY <1>2, <1>4

\* An event leaves a node a node; it adds its message to the timeline unless it
\* logs none or is the second call of an output.
LEMMA EventFacts ==
    ASSUME NEW n \in Node, NEW ev \in SyncCall, NEW done \in BOOLEAN,
           done => ev.type = "assistant_output"
    PROVE  LET r == applyEventToNode(n, ev, done)
           IN  /\ r \in Node
               /\ Logs(ev) /\ ~done => r.timeline = Append(n.timeline, ev.msg)
               /\ ~(Logs(ev) /\ ~done) => r.timeline = n.timeline
               /\ \/ r.status = n.status \/ r.status = "PLANNING"
                  \/ r.status = "NEEDS_USER_ACTION"
<1> DEFINE r == applyEventToNode(n, ev, done)
<1>a. /\ ev.type \in {"user_accepted", "assistant_output", "waiting_on", "waiting_off"}
      /\ ev.msg \in Nat
  BY DEF SyncCall
<1>b. n.timeline \in Seq(Nat) BY DEF Node
<1>c. Append(n.timeline, ev.msg) \in Seq(Nat) BY <1>a, <1>b, AppendFacts
<1>1. /\ ev.type \in {"user_accepted", "assistant_output", "waiting_on", "waiting_off"}
      /\ ev.msg \in Nat /\ n.timeline \in Seq(Nat)
      /\ Append(n.timeline, ev.msg) \in Seq(Nat)
  BY <1>a, <1>b, <1>c
<1>2. PICK l : l = Log(n, ev.msg) OBVIOUS
<1>3. l \in Node /\ l.timeline = Append(n.timeline, ev.msg) BY <1>1, <1>2 DEF Log, Node
<1>4. ASSUME NEW k \in Node, NEW s \in {"PLANNING", "NEEDS_USER_ACTION"},
             NEW o \in {"planning", "needs_user_action"}
      PROVE  /\ SetTo(k, s, o) \in Node /\ SetTo(k, s, o).timeline = k.timeline
             /\ SetTo(k, s, o).status = s
  BY <1>4 DEF SetTo, Node
<1>5. CASE ev.type = "user_accepted"
  <2>1. r = SetTo(l, "PLANNING", "planning") BY <1>2, <1>5 DEF applyEventToNode
  <2> QED BY <1>3, <1>4, <1>5, <2>1 DEF Logs
<1>6. CASE ev.type = "assistant_output" /\ ~done
  <2>1. r = SetTo(l, "NEEDS_USER_ACTION", "needs_user_action")
    BY <1>2, <1>6 DEF applyEventToNode
  <2> QED BY <1>3, <1>4, <1>6, <2>1 DEF Logs
<1>7. CASE ev.type = "waiting_on" \/ (ev.type = "assistant_output" /\ done)
  <2>1. r = SetTo(n, "NEEDS_USER_ACTION", "needs_user_action") BY <1>7 DEF applyEventToNode
  <2> QED BY <1>4, <1>7, <2>1 DEF Logs
<1>8. CASE ev.type = "waiting_off"
  <2>1. r = IF n.mode = "" THEN [n EXCEPT !.mode = "planning"] ELSE n
    BY <1>8 DEF applyEventToNode
  <2>2. r \in Node /\ r.timeline = n.timeline /\ r.status = n.status BY <2>1 DEF Node
  <2> QED BY <1>8, <2>2 DEF Logs
<1> QED BY <1>1, <1>5, <1>6, <1>7, <1>8

\* Handling an event keeps a node sane when its message is new to it.
LEMMA EventSane ==
    ASSUME NEW len \in Nat, NEW n, Sane(n, len), NEW ev \in SyncCall, NEW done \in BOOLEAN,
           done => ev.type = "assistant_output",
           Logs(ev) /\ ~done => ev.msg \in 1..len /\ ~Shows(n, ev.msg)
    PROVE  LET r == applyEventToNode(n, ev, done)
           IN  /\ Sane(r, len) /\ r # NoNode
               /\ \A m : Shows(r, m) <=> Shows(n, m) \/ (Logs(ev) /\ ~done /\ m = ev.msg)
<1>1. PICK r : r = applyEventToNode(n, ev, done) OBVIOUS
<1>2. /\ n \in Node /\ r \in Node /\ n # NoNode /\ r # NoNode
      /\ Logs(ev) /\ ~done => r.timeline = Append(n.timeline, ev.msg)
      /\ ~(Logs(ev) /\ ~done) => r.timeline = n.timeline
  BY <1>1, EventFacts, NodeAssumption DEF Sane
<1>3. CASE ~(Logs(ev) /\ ~done) BY <1>1, <1>2, <1>3 DEF Sane, Shows
<1>4. CASE Logs(ev) /\ ~done
  <2>1. PICK t : t = n.timeline OBVIOUS
  <2>2. PICK u : u = r.timeline OBVIOUS
  <2>3. t \in Seq(Nat) BY <1>2, <2>1 DEF Node
  <2>4. ev.msg \in Nat BY DEF SyncCall
  <2>5. Distinct(t) BY <2>1 DEF Sane
  <2>6. u = Append(t, ev.msg) BY <1>2, <1>4, <2>1, <2>2
  <2>7. ev.msg \notin SeqElems(t) BY <1>2, <1>4, <2>1 DEF Shows
  <2>8. SeqElems(u) = SeqElems(t) \cup {ev.msg} /\ Distinct(u)
    BY <2>3, <2>4, <2>5, <2>6, <2>7, AppendNew
  <2>9. SeqElems(t) \subseteq 1..len /\ ev.msg \in 1..len BY <1>4, <2>1 DEF Sane
  <2>10. Sane(r, len) BY <1>2, <2>2, <2>8, <2>9 DEF Sane
  <2> QED BY <1>1, <1>2, <1>4, <2>1, <2>2, <2>8, <2>10 DEF Shows
<1> QED BY <1>3, <1>4

(* Which goroutine owes which message to the timeline. *)

\* g has still to commit message m.
Owes(g, m) == Claims(emit[g], m) /\ at[g] # "stored" /\ ~half[g]

HandleShapes ==
    /\ at \in [Procs -> {"ready", "read", "stored"}]
    /\ half \in [Procs -> BOOLEAN] /\ DOMAIN local = Procs
    /\ fresh \in {Bare, Idle} /\ stale \in BOOLEAN
    /\ created = "no" => row = NoNode /\ cached = NoNode /\ \A g \in Procs : at[g] = "ready"

\* The calls of a goroutine; no two are about the same message.
SyncCalls ==
    /\ \A g \in Procs :
         /\ QuietTail(emit[g])
         /\ \A m : Claims(emit[g], m) => m \in 1..Len(conversation)
         /\ at[g] # "ready" \/ half[g] => emit[g] # <<>>
         /\ half[g] => Head(emit[g]).type = "assistant_output"
    /\ \A g, h \in Procs : \A m : Claims(emit[g], m) /\ Claims(emit[h], m) => g = h

NodesSane ==
    /\ row = NoNode \/ Sane(row, Len(conversation))
    /\ cached = NoNode \/ Sane(cached, Len(conversation))
    /\ \A g \in Procs : at[g] # "ready" =>
         /\ Sane(local[g][1], Len(conversation)) /\ Sane(local[g][2], Len(conversation))
         /\ at[g] = "read" =>
              local[g][2] = applyEventToNode(local[g][1], Head(emit[g]), half[g])

\* A message that is owed is in no copy of the node but the one about to be written.
NotYetShown ==
    \A g \in Procs : \A m : Owes(g, m) =>
        /\ ~Shows(row, m) /\ ~Shows(cached, m)
        /\ \A h \in Procs : at[h] # "ready" =>
             ~Shows(local[h][1], m) /\ (h # g => ~Shows(local[h][2], m))

\* As long as nobody has written over a node it had not read, a message is shown,
\* or dropped, or owed.
NothingForgotten ==
    ~stale => \A i \in 1..Len(conversation) :
        i \in dropped \/ Shows(row, i) \/ \E g \in Procs : Owes(g, i)

NodeInv == HandleShapes /\ SyncCalls /\ NodesSane /\ NotYetShown /\ NothingForgotten

LEMMA EmitFacts ==
    ASSUME TypeOK, NEW g \in Procs
    PROVE  /\ emit[g] \in Seq(SyncCall) /\ Len(conversation) \in Nat
           /\ emit[g] # <<>> => Head(emit[g]) \in SyncCall
<1>1. emit[g] \in Seq(SyncCall) BY DEF TypeOK, ProcType
<1>2. Len(conversation) \in Nat BY DEF TypeOK, SessionType
<1>3. emit[g] # <<>> => Head(emit[g]) \in SyncCall BY <1>1, HeadTailFacts
<1> QED BY <1>1, <1>2, <1>3

LEMMA ReadKeeps ==
    ASSUME TypeOK, NodeInv, NEW g \in Procs, HandleRead(g)
    PROVE  NodeInv'
<1>1. PICK len : len = Len(conversation) OBVIOUS
<1>2. PICK ev : ev = Head(emit[g]) OBVIOUS
<1>3. /\ emit' = emit /\ Len(conversation') = len /\ row' = row /\ half' = half
      /\ fresh' = fresh /\ created' = created /\ stale' = stale /\ dropped' = dropped
      /\ emit[g] # <<>> /\ at[g] = "ready" /\ at' = [at EXCEPT ![g] = "read"]
  BY <1>1 DEF HandleRead, vars, session, Syncing
<1>4. PICK n \in {cached, row} \ {NoNode} :
        /\ cached' = n
        /\ local' = [local EXCEPT ![g] = <<n, applyEventToNode(n, ev, half[g])>>]
  BY <1>2 DEF HandleRead
<1>5. PICK r : r = applyEventToNode(n, ev, half[g]) OBVIOUS
<1>6. ev \in SyncCall /\ len \in Nat /\ half[g] \in BOOLEAN
  BY <1>1, <1>2, <1>3, EmitFacts DEF NodeInv, HandleShapes
<1>7. Sane(n, len) /\ (half[g] => ev.type = "assistant_output")
  BY <1>1, <1>2, <1>4 DEF NodeInv, NodesSane, SyncCalls
<1>8. ASSUME Logs(ev), ~half[g] PROVE Owes(g, ev.msg) /\ ev.msg \in 1..len /\ ~Shows(n, ev.msg)
  <2>1. Claims(emit[g], ev.msg) /\ Owes(g, ev.msg) BY <1>2, <1>3, <1>8 DEF Claims, Owes
  <2> QED BY <1>1, <1>4, <2>1 DEF NodeInv, SyncCalls, NotYetShown
<1>9. /\ Sane(r, len) /\ r # NoNode
      /\ \A m : Shows(r, m) <=> Shows(n, m) \/ (Logs(ev) /\ ~half[g] /\ m = ev.msg)
  BY <1>5, <1>6, <1>7, <1>8, EventSane
<1>10. /\ \A h \in Procs : at'[h] = IF h = g THEN "read" ELSE at[h]
       /\ \A h \in Procs \ {g} : local'[h] = local[h]
       /\ local'[g] = <<n, r>> /\ local'[g][1] = n /\ local'[g][2] = r
  BY <1>3, <1>4, <1>5 DEF NodeInv, HandleShapes
<1>11. HandleShapes' BY <1>3, <1>4 DEF NodeInv, HandleShapes
<1>12. SyncCalls' BY <1>1, <1>3, <1>10 DEF NodeInv, SyncCalls
<1>13. NodesSane'
  BY <1>1, <1>2, <1>3, <1>4, <1>5, <1>7, <1>9, <1>10 DEF NodeInv, NodesSane
<1>14. \A h \in Procs : \A m : Owes(h, m)' <=> Owes(h, m) BY <1>3, <1>10 DEF Owes
<1>15. NotYetShown'
  <2> SUFFICES ASSUME NEW h \in Procs, NEW m, Owes(h, m)
               PROVE  /\ ~Shows(row', m) /\ ~Shows(cached', m)
                      /\ \A i \in Procs : at'[i] # "ready" =>
                           ~Shows(local'[i][1], m) /\ (i # h => ~Shows(local'[i][2], m))
    BY <1>14 DEF NotYetShown
  <2>1. /\ ~Shows(row, m) /\ ~Shows(cached, m) /\ ~Shows(n, m)
        /\ \A i \in Procs : at[i] # "ready" =>
             ~Shows(local[i][1], m) /\ (i # h => ~Shows(local[i][2], m))
    BY <1>4 DEF NodeInv, NotYetShown
  <2>2. h # g => ~Shows(r, m)
    <3> SUFFICES ASSUME Logs(ev), ~half[g], m = ev.msg PROVE h = g BY <1>9, <2>1
    <3>1. Claims(emit[g], m) /\ Claims(emit[h], m) BY <1>8 DEF Owes
    <3> QED BY <3>1 DEF NodeInv, SyncCalls
  <2> QED BY <1>3, <1>4, <1>10, <2>1, <2>2
<1>16. NothingForgotten' BY <1>1, <1>3, <1>14 DEF NodeInv, NothingForgotten
<1> QED BY <1>11, <1>12, <1>13, <1>15, <1>16 DEF NodeInv

LEMMA CommitKeeps ==
    ASSUME TypeOK, NodeInv, NEW g \in Procs, HandleCommit(g)
    PROVE  NodeInv'
<1>1. PICK len : len = Len(conversation) OBVIOUS
<1>2. PICK ev : ev = Head(emit[g]) OBVIOUS
<1>3. /\ emit' = emit /\ Len(conversation') = len /\ cached' = cached /\ half' = half
      /\ fresh' = fresh /\ created' = created /\ dropped' = dropped /\ local' = local
      /\ stale' = (stale \/ row # local[g][1])
      /\ row' = local[g][2] /\ at[g] = "read" /\ at' = [at EXCEPT ![g] = "stored"]
  BY <1>1 DEF HandleCommit, vars, session
<1>4. PICK n, r : n = local[g][1] /\ r = local[g][2] OBVIOUS
<1>5. /\ Sane(n, len) /\ Sane(r, len) /\ emit[g] # <<>>
      /\ r = applyEventToNode(n, ev, half[g])
      /\ half[g] => ev.type = "assistant_output"
  BY <1>1, <1>2, <1>3, <1>4 DEF NodeInv, NodesSane, SyncCalls
<1>6. /\ ev \in SyncCall /\ len \in Nat /\ half[g] \in BOOLEAN
      /\ at \in [Procs -> {"ready", "read", "stored"}]
  BY <1>1, <1>2, <1>5, EmitFacts DEF NodeInv, HandleShapes
<1>7. \A h \in Procs : at'[h] = IF h = g THEN "stored" ELSE at[h] BY <1>3, <1>6
<1>8. Logs(ev) /\ ~half[g] => Owes(g, ev.msg) /\ ev.msg \in 1..len /\ ~Shows(n, ev.msg)
  <2> SUFFICES ASSUME Logs(ev), ~half[g]
               PROVE  Owes(g, ev.msg) /\ ev.msg \in 1..len /\ ~Shows(n, ev.msg)
    OBVIOUS
  <2>1. Claims(emit[g], ev.msg) /\ Owes(g, ev.msg) BY <1>2, <1>3, <1>5 DEF Claims, Owes
  <2> QED BY <1>1, <1>3, <1>4, <2>1 DEF NodeInv, SyncCalls, NotYetShown
<1>9. /\ r # NoNode
      /\ \A m : Shows(r, m) <=> Shows(n, m) \/ (Logs(ev) /\ ~half[g] /\ m = ev.msg)
  BY <1>5, <1>6, <1>8, EventSane
<1>10. created # "no" BY <1>3 DEF NodeInv, HandleShapes
<1>11. HandleShapes' BY <1>3, <1>6, <1>10 DEF NodeInv, HandleShapes
<1>12. SyncCalls' BY <1>1, <1>3, <1>5, <1>7 DEF NodeInv, SyncCalls
<1>13. NodesSane' BY <1>1, <1>3, <1>4, <1>5, <1>7 DEF NodeInv, NodesSane
<1>14. \A h \in Procs : \A m : Owes(h, m)' <=> Owes(h, m) /\ h # g BY <1>3, <1>7 DEF Owes
<1>15. NotYetShown'
  <2> SUFFICES ASSUME NEW h \in Procs, NEW m, Owes(h, m), h # g
               PROVE  /\ ~Shows(row', m) /\ ~Shows(cached', m)
                      /\ \A i \in Procs : at'[i] # "ready" =>
                           ~Shows(local'[i][1], m) /\ (i # h => ~Shows(local'[i][2], m))
    BY <1>14 DEF NotYetShown
  <2>1. /\ ~Shows(cached, m)
        /\ \A i \in Procs : at[i] # "ready" =>
             ~Shows(local[i][1], m) /\ (i # h => ~Shows(local[i][2], m))
    BY DEF NodeInv, NotYetShown
  <2> QED BY <1>3, <1>7, <2>1
<1>16. NothingForgotten'
  <2> SUFFICES ASSUME ~stale', NEW i \in 1..len
               PROVE  i \in dropped' \/ Shows(row', i) \/ \E h \in Procs : Owes(h, i)'
    BY <1>3 DEF NothingForgotten
  <2>1. row = n /\ row' = r /\ dropped' = dropped BY <1>3, <1>4
  <2>2. i \in dropped \/ Shows(row, i) \/ \E h \in Procs : Owes(h, i)
    BY <1>1, <1>3 DEF NodeInv, NothingForgotten
  <2>3. Owes(g, i) => Shows(r, i) BY <1>2, <1>9 DEF Owes, Claims
  <2>4. Shows(n, i) => Shows(r, i) BY <1>9
  <2> QED BY <1>14, <2>1, <2>2, <2>3, <2>4
<1> QED BY <1>11, <1>12, <1>13, <1>15, <1>16 DEF NodeInv

\* A call of g is over: it owes nothing any more, and nobody else's debt changes.
LEMMA EndKeeps ==
    ASSUME TypeOK, NodeInv, NEW g \in Procs, emit[g] # <<>>,
           HandleEnds(g), half' = [half EXCEPT ![g] = half'[g]], half'[g] \in BOOLEAN,
           Len(conversation') = Len(conversation),
           \/ emit' = emit /\ half'[g] /\ Head(emit[g]).type = "assistant_output"
           \/ emit' = [emit EXCEPT ![g] = Tail(@)] /\ ~half'[g],
           dropped \subseteq dropped',
           \A m : Owes(g, m) => m \in dropped',
           cached' = cached \/ (at[g] = "stored" /\ cached' = local[g][2])
    PROVE  NodeInv'
<1>1. PICK len : len = Len(conversation) OBVIOUS
<1>2. /\ at' = [at EXCEPT ![g] = "ready"] /\ local' = [local EXCEPT ![g] = <<>>]
      /\ row' = row /\ fresh' = fresh /\ created' = created /\ stale' = stale
      /\ Len(conversation') = len
  BY <1>1 DEF HandleEnds
<1>3. /\ at \in [Procs -> {"ready", "read", "stored"}] /\ half \in [Procs -> BOOLEAN]
      /\ DOMAIN local = Procs /\ DOMAIN emit = Procs
  BY DEF NodeInv, HandleShapes, TypeOK, ProcType
<1>4. /\ at'[g] = "ready"
      /\ \A h \in Procs \ {g} : /\ at'[h] = at[h] /\ local'[h] = local[h]
                                /\ half'[h] = half[h] /\ emit'[h] = emit[h]
  BY <1>2, <1>3
<1>5. emit[g] \in Seq(SyncCall) /\ len \in Nat /\ QuietTail(emit[g])
  BY <1>1, EmitFacts DEF NodeInv, SyncCalls
<1>6. QuietTail(emit'[g]) /\ \A m : Claims(emit'[g], m) => half'[g] /\ Claims(emit[g], m)
  <2>1. CASE emit' = emit /\ half'[g] BY <1>5, <2>1
  <2>2. CASE emit' = [emit EXCEPT ![g] = Tail(@)]
    <3>1. emit'[g] = Tail(emit[g]) BY <1>3, <2>2
    <3> QED BY <1>5, <3>1, TailClaims
  <2> QED BY <2>1, <2>2
<1>7. half'[g] => emit'[g] # <<>> /\ Head(emit'[g]).type = "assistant_output" OBVIOUS
<1>8. HandleShapes' BY <1>2, <1>3, <1>4 DEF NodeInv, HandleShapes
<1>9. SyncCalls'
  <2>1. \A h \in Procs : \A m : Claims(emit'[h], m) => Claims(emit[h], m) BY <1>4, <1>6
  <2>2. \A h \in Procs :
          /\ QuietTail(emit'[h])
          /\ at'[h] # "ready" \/ half'[h] => emit'[h] # <<>>
          /\ half'[h] => Head(emit'[h]).type = "assistant_output"
    BY <1>4, <1>6, <1>7 DEF NodeInv, SyncCalls
  <2>3. \A h \in Procs : \A m : Claims(emit'[h], m) => m \in 1..len
    BY <1>1, <2>1 DEF NodeInv, SyncCalls
  <2>4. \A h, k \in Procs : \A m : Claims(emit'[h], m) /\ Claims(emit'[k], m) => h = k
    BY <2>1 DEF NodeInv, SyncCalls
  <2> QED BY <1>2, <2>2, <2>3, <2>4 DEF SyncCalls
<1>10. NodesSane'
  <2>1. cached' = NoNode \/ Sane(cached', len) BY <1>1 DEF NodeInv, NodesSane
  <2>2. ASSUME NEW h \in Procs, at'[h] # "ready"
        PROVE  /\ Sane(local'[h][1], len) /\ Sane(local'[h][2], len)
               /\ at'[h] = "read" =>
                    local'[h][2] = applyEventToNode(local'[h][1], Head(emit'[h]), half'[h])
    <3>1. h # g BY <1>4, <2>2
    <3> QED BY <1>1, <1>4, <2>2, <3>1 DEF NodeInv, NodesSane
  <2> QED BY <1>1, <1>2, <2>1, <2>2 DEF NodeInv, NodesSane
<1>11. \A h \in Procs : \A m : Owes(h, m)' <=> Owes(h, m) /\ h # g
  <2>1. \A m : ~Owes(g, m)' BY <1>6 DEF Owes
  <2>2. ASSUME NEW h \in Procs, h # g, NEW m PROVE Owes(h, m)' <=> Owes(h, m)
    BY <1>4, <2>2 DEF Owes
  <2> QED BY <2>1, <2>2
<1>12. NotYetShown'
  <2> SUFFICES ASSUME NEW h \in Procs, NEW m, Owes(h, m), h # g
               PROVE  /\ ~Shows(row', m) /\ ~Shows(cached', m)
                      /\ \A i \in Procs : at'[i] # "ready" =>
                           ~Shows(local'[i][1], m) /\ (i # h => ~Shows(local'[i][2], m))
    BY <1>11 DEF NotYetShown
  <2>1. /\ ~Shows(row, m) /\ ~Shows(cached, m)
        /\ \A i \in Procs : at[i] # "ready" =>
             ~Shows(local[i][1], m) /\ (i # h => ~Shows(local[i][2], m))
    BY DEF NodeInv, NotYetShown
  <2>2. ~Shows(cached', m) BY <2>1
  <2> QED BY <1>2, <1>4, <2>1, <2>2
<1>13. NothingForgotten'
  BY <1>1, <1>2, <1>11 DEF NodeInv, NothingForgotten
<1> QED BY <1>8, <1>9, <1>10, <1>12, <1>13 DEF NodeInv

LEMMA ReturnKeeps ==
    ASSUME TypeOK, NodeInv, NEW g \in Procs, HandleReturn(g)
    PROVE  NodeInv'
<1>1. half \in [Procs -> BOOLEAN] /\ emit[g] # <<>> /\ at[g] = "stored"
  BY DEF NodeInv, HandleShapes, SyncCalls, HandleReturn
<1>2. half' = [half EXCEPT ![g] = half'[g]] /\ half'[g] \in BOOLEAN
      /\ (half'[g] => Head(emit[g]).type = "assistant_output")
  BY <1>1 DEF HandleReturn
<1>3. \/ emit' = emit /\ half'[g] /\ conversation' = conversation
      \/ emit' = [emit EXCEPT ![g] = Tail(@)] /\ ~half'[g] /\ conversation' = conversation
  BY DEF HandleReturn, vars, session, SyncReturn
<1>4. \A m : ~Owes(g, m) BY <1>1 DEF Owes
<1>5. HandleEnds(g) /\ dropped' = dropped /\ cached' = local[g][2] BY DEF HandleReturn
<1> QED BY <1>1, <1>2, <1>3, <1>4, <1>5, EndKeeps

LEMMA FailKeeps ==
    ASSUME TypeOK, NodeInv, NEW g \in Procs, HandleFail(g)
    PROVE  NodeInv'
<1>1. half \in [Procs -> BOOLEAN] /\ emit[g] # <<>>
  BY DEF NodeInv, HandleShapes, HandleFail, Syncing
<1>2. half' = [half EXCEPT ![g] = FALSE] /\ half'[g] = FALSE BY <1>1 DEF HandleFail
<1>3. /\ emit' = [emit EXCEPT ![g] = Tail(@)] /\ conversation' = conversation
      /\ HandleEnds(g) /\ cached' = cached
      /\ dropped' = IF half[g] THEN dropped ELSE dropped \cup {Head(emit[g]).msg}
  BY DEF HandleFail, SyncReturn, session
<1>4. \A m : Owes(g, m) => m \in dropped' BY <1>3 DEF Owes, Claims
<1>5. half' = [half EXCEPT ![g] = half'[g]] /\ half'[g] \in BOOLEAN BY <1>1, <1>2
<1> QED BY <1>1, <1>2, <1>3, <1>4, <1>5, EndKeeps

\* The node a client creates has an empty timeline.
LEMMA FreshSane ==
    ASSUME NEW n \in {Bare, Idle}, NEW len \in Nat
    PROVE  Sane(n, len) /\ n # NoNode /\ \A m : ~Shows(n, m)
<1>0. <<>> \in Seq(Nat) OBVIOUS
<1>1. n.timeline = <<>> /\ n \in Node
  <2>1. CASE n = Bare BY <1>0, <2>1 DEF Bare, Node
  <2>2. CASE n = Idle BY <1>0, <2>2 DEF Idle, Node
  <2> QED BY <2>1, <2>2
<1>2. SeqElems(<<>>) = {} BY DEF SeqElems
<1>3. Distinct(<<>>) BY DEF Distinct
<1> QED BY <1>1, <1>2, <1>3, NodeAssumption DEF Sane, Shows

LEMMA CreateKeeps ==
    ASSUME TypeOK, NodeInv, CreateNodeInTab \/ CreateNodeCached
    PROVE  NodeInv'
<1>1. PICK len : len = Len(conversation) OBVIOUS
<1>2. /\ Len(conversation') = len /\ emit' = emit /\ at' = at /\ local' = local /\ half' = half
      /\ fresh' = fresh /\ stale' = stale /\ dropped' = dropped /\ created' # "no"
  BY <1>1 DEF CreateNodeInTab, CreateNodeCached, vars, session
<1>3. \/ row = NoNode /\ row' = fresh /\ cached' = cached
      \/ row' = row /\ cached' = fresh
  BY DEF CreateNodeInTab, CreateNodeCached, NodeInv, HandleShapes
<1>4. len \in Nat BY <1>1 DEF TypeOK, SessionType
<1>5. Sane(fresh, len) /\ \A m : ~Shows(fresh, m)
  BY <1>4, FreshSane DEF NodeInv, HandleShapes
<1>6. HandleShapes' BY <1>2 DEF NodeInv, HandleShapes
<1>7. SyncCalls' BY <1>1, <1>2 DEF NodeInv, SyncCalls
<1>8. NodesSane' BY <1>1, <1>2, <1>3, <1>5 DEF NodeInv, NodesSane
<1>9. \A h \in Procs : \A m : Owes(h, m)' <=> Owes(h, m) BY <1>2 DEF Owes
<1>10. NotYetShown' BY <1>2, <1>3, <1>5, <1>9 DEF NodeInv, NotYetShown
<1>11. \A m : Shows(row, m) => Shows(row', m) BY <1>3 DEF Shows
<1>12. NothingForgotten' BY <1>1, <1>2, <1>9, <1>11 DEF NodeInv, NothingForgotten
<1> QED BY <1>6, <1>7, <1>8, <1>10, <1>12 DEF NodeInv

LEMMA SaneLonger ==
    ASSUME NEW n, NEW len \in Nat, NEW longer \in Nat, len <= longer, Sane(n, len)
    PROVE  Sane(n, longer)
  BY DEF Sane

\* A step of the service touches the calls of one goroutine that had none left,
\* and queues calls that log nothing or the one call about a new message.
LEMMA ServiceKeeps ==
    ASSUME TypeOK, NodeInv, NEW g \in Procs, UNCHANGED nodeVars,
           \A h \in Procs \ {g} : emit'[h] = emit[h],
           NEW len, len = Len(conversation), NEW longer \in Nat, longer = Len(conversation'),
           \/ emit'[g] = emit[g] /\ longer = len
           \/ /\ emit[g] = <<>> /\ longer = len
              /\ \A i \in DOMAIN emit'[g] : ~Logs(emit'[g][i])
              /\ \A m : ~Claims(emit'[g], m)
           \/ /\ emit[g] = <<>> /\ longer = len + 1
              /\ \A m : Claims(emit'[g], m) <=> m = len + 1
              /\ QuietTail(emit'[g])
    PROVE  NodeInv'
<1>1. /\ row' = row /\ cached' = cached /\ at' = at /\ local' = local /\ half' = half
      /\ fresh' = fresh /\ created' = created /\ stale' = stale /\ dropped' = dropped
  BY DEF nodeVars
<1>2. len \in Nat /\ len <= longer
  <2>1. len \in Nat BY DEF TypeOK, SessionType
  <2> QED BY <2>1
<1>3. emit[g] = <<>> => at[g] = "ready" /\ ~half[g] BY DEF NodeInv, SyncCalls
<1>4. /\ QuietTail(emit'[g])
      /\ \A m : Claims(emit'[g], m) => Claims(emit[g], m) \/ (longer = len + 1 /\ m = longer)
  BY DEF NodeInv, SyncCalls, QuietTail
<1>5. \A h \in Procs : at[h] # "ready" \/ half[h] => emit'[h] = emit[h] BY <1>3
<1>6. \A h \in Procs : \A m : Claims(emit[h], m) => m \in 1..len
  BY DEF NodeInv, SyncCalls
<1>7. \A h \in Procs : \A m : Claims(emit'[h], m) =>
        Claims(emit[h], m) \/ (h = g /\ longer = len + 1 /\ m = longer)
  BY <1>4
<1>8. HandleShapes' BY <1>1 DEF NodeInv, HandleShapes
<1>9. SyncCalls'
  <2>1. \A h \in Procs : QuietTail(emit'[h]) BY <1>4 DEF NodeInv, SyncCalls
  <2>2. \A h \in Procs : \A m : Claims(emit'[h], m) => m \in 1..longer
    <3>1. 1..len \subseteq 1..longer BY <1>2
    <3>2. longer = len + 1 => longer \in 1..longer BY <1>2
    <3> QED BY <1>6, <1>7, <3>1, <3>2
  <2>3. \A h \in Procs : /\ at'[h] # "ready" \/ half'[h] => emit'[h] # <<>>
                         /\ half'[h] => Head(emit'[h]).type = "assistant_output"
    BY <1>1, <1>5 DEF NodeInv, SyncCalls
  <2>4. ASSUME NEW h \in Procs, NEW k \in Procs, NEW m, Claims(emit'[h], m), Claims(emit'[k], m)
        PROVE  h = k
    <3>1. CASE m \in 1..len
      <4>1. m # len + 1 BY <1>2, <3>1
      <4>2. Claims(emit[h], m) /\ Claims(emit[k], m) BY <1>7, <2>4, <4>1
      <4> QED BY <4>2 DEF NodeInv, SyncCalls
    <3>2. CASE m \notin 1..len BY <1>6, <1>7, <2>4, <3>2
    <3> QED BY <3>1, <3>2
  <2> QED BY <2>1, <2>2, <2>3, <2>4 DEF SyncCalls
<1>10. NodesSane'
  <2>1. \A n : Sane(n, len) => Sane(n, longer) BY <1>2, SaneLonger
  <2>2. ASSUME NEW h \in Procs, at[h] # "ready"
        PROVE  /\ Sane(local[h][1], longer) /\ Sane(local[h][2], longer)
               /\ at[h] = "read" =>
                    local[h][2] = applyEventToNode(local[h][1], Head(emit'[h]), half[h])
    <3>1. emit'[h] = emit[h] BY <1>5, <2>2
    <3> QED BY <2>1, <2>2, <3>1 DEF NodeInv, NodesSane
  <2>3. (row = NoNode \/ Sane(row, longer)) /\ (cached = NoNode \/ Sane(cached, longer))
    BY <2>1 DEF NodeInv, NodesSane
  <2> QED BY <1>1, <2>2, <2>3 DEF NodesSane
<1>11. \A h \in Procs : \A m : Owes(h, m)' => Owes(h, m) \/ m = len + 1
  BY <1>1, <1>7 DEF Owes
<1>12. ASSUME NEW n, n = NoNode \/ Sane(n, len) PROVE ~Shows(n, len + 1)
  BY <1>2, <1>12 DEF Sane, Shows
<1>13. NotYetShown'
  <2> SUFFICES ASSUME NEW h \in Procs, NEW m, Owes(h, m)'
               PROVE  /\ ~Shows(row, m) /\ ~Shows(cached, m)
                      /\ \A i \in Procs : at[i] # "ready" =>
                           ~Shows(local[i][1], m) /\ (i # h => ~Shows(local[i][2], m))
    BY <1>1 DEF NotYetShown
  <2>1. CASE Owes(h, m) BY <2>1 DEF NodeInv, NotYetShown
  <2>2. CASE m = len + 1 BY <1>12, <2>2 DEF NodeInv, NodesSane
  <2> QED BY <1>11, <2>1, <2>2
<1>14. NothingForgotten'
  <2> SUFFICES ASSUME ~stale, NEW i \in 1..longer
               PROVE  i \in dropped \/ Shows(row, i) \/ \E h \in Procs : Owes(h, i)'
    BY <1>1 DEF NothingForgotten
  <2>1. CASE i \in 1..len
    <3>1. i \in dropped \/ Shows(row, i) \/ \E h \in Procs : Owes(h, i)
      BY <2>1 DEF NodeInv, NothingForgotten
    <3>2. ASSUME NEW h \in Procs, Owes(h, i) PROVE Owes(h, i)'
      <4>1. emit[h] # <<>> BY <3>2 DEF Owes, Claims
      <4>2. emit'[h] = emit[h] BY <4>1
      <4> QED BY <1>1, <3>2, <4>2 DEF Owes
    <3> QED BY <3>1, <3>2
  <2>2. CASE i \notin 1..len
    <3>1. i = len + 1 /\ longer = len + 1 BY <1>2, <2>2
    <3>2. emit[g] = <<>> /\ Claims(emit'[g], i) BY <1>2, <3>1
    <3>3. Owes(g, i)' BY <1>1, <1>3, <3>2 DEF Owes
    <3> QED BY <3>3
  <2> QED BY <2>1, <2>2
<1> QED BY <1>8, <1>9, <1>10, <1>13, <1>14 DEF NodeInv

(* The steps of the service that the chat takes. *)

\* A goroutine enters a critical section only when its UI sync calls have returned.
Settled == \A g \in Procs : pc[g] \in {"lock", "cancel"} => emit[g] = <<>>

LEMMA WaitingCalls ==
    ASSUME NEW e \in {<<WaitingOn>>, <<WaitingOff>>, <<WaitingOn, WaitingOff>>}
    PROVE  (\A i \in DOMAIN e : ~Logs(e[i])) /\ (\A m : ~Claims(e, m)) /\ e # <<>>
<1>1. ~Logs(WaitingOn) /\ ~Logs(WaitingOff) BY DEF Logs, WaitingOn, WaitingOff
<1>2. CASE e = <<WaitingOn>> BY <1>1, <1>2 DEF Claims
<1>3. CASE e = <<WaitingOff>> BY <1>1, <1>3 DEF Claims
<1>4. CASE e = <<WaitingOn, WaitingOff>>
  <2>1. DOMAIN e = {1, 2} /\ e[1] = WaitingOn /\ e[2] = WaitingOff /\ Head(e) = WaitingOn
    BY <1>4
  <2> QED BY <1>1, <1>4, <2>1 DEF Claims
<1> QED BY <1>2, <1>3, <1>4

LEMMA LoggingCall ==
    ASSUME NEW ev, Logs(ev)
    PROVE  QuietTail(<<ev>>) /\ \A m : Claims(<<ev>>, m) <=> m = ev.msg
<1>1. Head(<<ev>>) = ev /\ <<ev>> # <<>> /\ \A i \in DOMAIN <<ev>> : i = 1 OBVIOUS
<1> QED BY <1>1 DEF QuietTail, Claims

\* The operations of g that the worker and the users make.
Operation(g) ==
    \/ Enter(g) \/ Wake(g) \/ WaitForInputCtxDone(g) \/ SendRejected(g) \/ persistConversation(g)
    \/ WaitForInputPop(g) \/ WaitForInputClosed(g) \/ WaitForInputPark(g)
    \/ WaitForInputCancel(g) \/ Close(g)
    \/ Send(g) \/ PublishOutput(g)

LEMMA OperationFacts ==
    ASSUME TypeOK, Settled, NEW g \in Procs, Operation(g)
    PROVE  /\ Settled'
           /\ \A h \in Procs \ {g} : emit'[h] = emit[h] /\ pc'[h] = pc[h]
           /\ Len(conversation') \in Nat
           /\ \/ emit'[g] = emit[g] /\ Len(conversation') = Len(conversation)
              \/ /\ emit[g] = <<>> /\ Len(conversation') = Len(conversation)
                 /\ \A i \in DOMAIN emit'[g] : ~Logs(emit'[g][i])
                 /\ \A m : ~Claims(emit'[g], m)
              \/ /\ emit[g] = <<>> /\ Len(conversation') = Len(conversation) + 1
                 /\ \A m : Claims(emit'[g], m) <=> m = Len(conversation) + 1
                 /\ QuietTail(emit'[g])
<1>1. /\ DOMAIN emit = Procs /\ DOMAIN pc = Procs /\ Len(conversation) \in Nat
      /\ conversation \in Seq(Message)
  BY DEF TypeOK, ProcType, SessionType
<1>2. CASE Enter(g) \/ Wake(g) \/ WaitForInputCtxDone(g)
  <2>1. emit' = emit /\ conversation' = conversation /\ emit[g] = <<>>
    BY <1>2 DEF Enter, Wake, WaitForInputCtxDone, session
  <2>2. \A h \in Procs \ {g} : pc'[h] = pc[h]
    BY <1>1, <1>2 DEF Enter, Wake, WaitForInputCtxDone
  <2>3. Settled' BY <2>1, <2>2 DEF Settled
  <2> QED BY <1>1, <2>1, <2>2, <2>3
<1>3. CASE SendRejected(g) \/ persistConversation(g)
  <2>1. emit' = emit /\ conversation' = conversation /\ pc' = [pc EXCEPT ![g] = "idle"]
    BY <1>3 DEF SendRejected, persistConversation, session
  <2>2. pc'[g] = "idle" /\ \A h \in Procs \ {g} : pc'[h] = pc[h] BY <1>1, <2>1
  <2>3. Settled' BY <2>1, <2>2 DEF Settled
  <2> QED BY <1>1, <2>1, <2>2, <2>3
<1>4. CASE WaitForInputPop(g) \/ WaitForInputClosed(g) \/ WaitForInputPark(g)
           \/ WaitForInputCancel(g) \/ Close(g)
  <2>1. PICK e \in {<<WaitingOn>>, <<WaitingOff>>, <<WaitingOn, WaitingOff>>} :
          emit' = [emit EXCEPT ![g] = e]
    BY <1>4 DEF WaitForInputPop, WaitForInputClosed, WaitForInputPark, StartWaiting,
                WaitForInputCancel, LeaveCancelled, Close
  <2>2. conversation' = conversation /\ pc[g] \in {"lock", "cancel"}
    BY <1>4 DEF WaitForInputPop, WaitForInputClosed, WaitForInputPark, StartWaiting,
                WaitForInputCancel, LeaveCancelled, Close
  <2>3. PICK l \in {"idle", "parked"} : pc' = [pc EXCEPT ![g] = l]
    BY <1>4 DEF WaitForInputPop, WaitForInputClosed, WaitForInputPark, StartWaiting,
                WaitForInputCancel, LeaveCancelled, Close
  <2>4. emit'[g] = e /\ pc'[g] = l /\ \A h \in Procs \ {g} : emit'[h] = emit[h] /\ pc'[h] = pc[h]
    BY <1>1, <2>1, <2>3
  <2>5. emit[g] = <<>> BY <2>2 DEF Settled
  <2>6. Settled' BY <2>4 DEF Settled
  <2> QED BY <1>1, <2>2, <2>4, <2>5, <2>6, WaitingCalls
<1>5. CASE Send(g) \/ PublishOutput(g)
  <2> DEFINE n == Len(conversation) + 1
  <2>1. PICK ev \in {UserAccepted(n), AssistantOutput(n)} : emit' = [emit EXCEPT ![g] = <<ev>>]
    BY <1>5 DEF Send, AcceptInput, PublishOutput
  <2>2. pc[g] = "lock" /\ pc' = [pc EXCEPT ![g] = "persist"]
    BY <1>5 DEF Send, AcceptInput, PublishOutput
  <2>3. PICK id \in Ids \cup {NoId}, r \in {"user", "assistant"} :
          conversation' = Append(conversation, [role |-> r, id |-> EnsureId(id)])
    BY <1>5 DEF Send, AcceptInput, PublishOutput
  <2>4. Len(conversation') = n
    <3>1. EnsureId(id) \in AllIds BY EnsureIdFacts DEF TypeOK
    <3>2. [role |-> r, id |-> EnsureId(id)] \in Message BY <3>1 DEF Message
    <3> QED BY <1>1, <2>3, <3>2, AppendFacts
  <2>5. Logs(ev) /\ ev.msg = n BY <2>1 DEF Logs, UserAccepted, AssistantOutput
  <2>6. /\ emit'[g] = <<ev>> /\ pc'[g] = "persist"
        /\ \A h \in Procs \ {g} : emit'[h] = emit[h] /\ pc'[h] = pc[h]
    BY <1>1, <2>1, <2>2
  <2>7. emit[g] = <<>> BY <2>2 DEF Settled
  <2>8. Settled' BY <2>6 DEF Settled
  <2>9. QuietTail(emit'[g]) /\ \A m : Claims(emit'[g], m) <=> m = n
    BY <2>5, <2>6, LoggingCall
  <2>10. n \in Nat BY <1>1
  <2> HIDE DEF n
  <2>11. n = Len(conversation) + 1 BY DEF n
  <2> QED BY <2>4, <2>6, <2>7, <2>8, <2>9, <2>10, <2>11
<1> QED BY <1>2, <1>3, <1>4, <1>5 DEF Operation

\* Every step of the chat is an operation of one goroutine, a step of a Handle
\* call, the creation of the node, or a step of the worker alone.
LEMMA ChatForms ==
    ASSUME [ChatNext]_allVars
    PROVE  \/ \E g \in Procs : Operation(g) /\ UNCHANGED nodeVars
           \/ \E g \in Procs : Handle(g)
           \/ CreateNodeInTab \/ CreateNodeCached
           \/ UNCHANGED <<vars, nodeVars>>
<1>1. CASE WorkerRun
  BY <1>1, Members DEF WorkerRun, ChatStart, ChatTurn, ChatPublish, ChatPublished, ChatWait,
       ChatInput, ChatNoInput, ChatWaited, Only, Persist, Operation
<1>2. CASE IdleTimeout BY <1>2, Members DEF IdleTimeout, Only, Operation
<1>3. ASSUME NEW c \in Users, Only(Enter(c)) \/ UserRun(c)
      PROVE  \E g \in Procs : Operation(g) /\ UNCHANGED nodeVars
  BY <1>3, Members DEF UserRun, Only, Persist, Operation
<1>4. CASE UNCHANGED allVars BY <1>4 DEF allVars
<1> QED BY <1>1, <1>2, <1>3, <1>4 DEF ChatNext

LEMMA HandleFrame ==
    ASSUME TypeOK, Settled, NEW g \in Procs, Handle(g)
    PROVE  Settled' /\ pc' = pc /\ conversation' = conversation /\ delivered' = delivered
           /\ UNCHANGED chatVars
<1>1. pc' = pc /\ conversation' = conversation /\ delivered' = delivered
  BY HandleServes DEF vars, session, SyncReturn
<1>2. UNCHANGED chatVars
  BY DEF Handle, HandleRead, HandleCommit, HandleReturn, HandleFail, HandleEnds
<1>3. emit' = emit \/ (emit[g] # <<>> /\ emit' = [emit EXCEPT ![g] = Tail(@)])
  BY HandleServes DEF vars, SyncReturn
<1>4. DOMAIN emit = Procs BY DEF TypeOK, ProcType
<1>5. \A h \in Procs : emit[h] = <<>> => emit'[h] = <<>> BY <1>3, <1>4
<1>6. Settled' BY <1>1, <1>5 DEF Settled
<1> QED BY <1>1, <1>2, <1>6

LEMMA NodeStep ==
    TypeOK /\ Settled /\ NodeInv /\ [ChatNext]_allVars => Settled' /\ NodeInv'
<1> SUFFICES ASSUME TypeOK, Settled, NodeInv, [ChatNext]_allVars PROVE Settled' /\ NodeInv'
  OBVIOUS
<1>1. ASSUME NEW g \in Procs, Operation(g), UNCHANGED nodeVars PROVE Settled' /\ NodeInv'
  BY <1>1, OperationFacts, ServiceKeeps
<1>2. ASSUME NEW g \in Procs, Handle(g) PROVE Settled' /\ NodeInv'
  BY <1>2, HandleFrame, ReadKeeps, CommitKeeps, ReturnKeeps, FailKeeps DEF Handle
<1>3. CASE CreateNodeInTab \/ CreateNodeCached
  <2>1. Settled' BY <1>3 DEF CreateNodeInTab, CreateNodeCached, vars, Settled
  <2> QED BY <1>3, <2>1, CreateKeeps
<1>4. CASE UNCHANGED <<vars, nodeVars>>
  BY <1>4 DEF vars, session, nodeVars, Settled, NodeInv, HandleShapes, SyncCalls, NodesSane,
              NotYetShown, NothingForgotten, Owes
<1> QED BY <1>1, <1>2, <1>3, <1>4, ChatForms

LEMMA NodeInit == ChatInit => Settled /\ NodeInv
<1> SUFFICES ASSUME ChatInit PROVE Settled /\ NodeInv OBVIOUS
<1>1. /\ \A g \in Procs : emit[g] = <<>> /\ at[g] = "ready" /\ half[g] = FALSE
      /\ conversation = <<>> /\ row = NoNode /\ cached = NoNode /\ stale = FALSE
      /\ at \in [Procs -> {"ready", "read", "stored"}]
      /\ half \in [Procs -> BOOLEAN] /\ DOMAIN local = Procs
      /\ fresh \in {Bare, Idle}
  BY FreshAssumption DEF ChatInit, Init
<1>2. HandleShapes BY <1>1 DEF HandleShapes
<1>3. \A g \in Procs : \A m : ~Claims(emit[g], m) BY <1>1 DEF Claims
<1>4. SyncCalls /\ Settled BY <1>1, <1>3 DEF SyncCalls, Settled, QuietTail
<1>5. NodesSane /\ NotYetShown BY <1>1, <1>3 DEF NodesSane, NotYetShown, Owes
<1>6. Len(conversation) = 0 BY <1>1
<1>7. NothingForgotten BY <1>6 DEF NothingForgotten
<1> QED BY <1>2, <1>4, <1>5, <1>7 DEF NodeInv

LEMMA NodeInvariant == ChatSpec => [](TypeOK /\ Settled /\ NodeInv)
<1>1. ChatSpec => []TypeOK BY ChatUsesService, TypeCorrect, PTL
<1>2. ChatSpec /\ []TypeOK => [](Settled /\ NodeInv)
  <2>1. TypeOK /\ (Settled /\ NodeInv) /\ [ChatNext]_allVars => (Settled /\ NodeInv)'
    BY NodeStep
  <2> QED BY <2>1, NodeInit, PTL DEF ChatSpec
<1> QED BY <1>1, <1>2, PTL

\* The timeline of the act node has no message twice and none that is not in the
\* conversation, for any number of users, turns and inputs, in whatever order the
\* event service handles their UI sync calls.
THEOREM TimelineNeverWrong == ChatSpec => []TimelineSound
<1>1. TypeOK /\ NodeInv => TimelineSound
  <2> SUFFICES ASSUME TypeOK, NodeInv, row # NoNode
               PROVE  /\ SeqElems(row.timeline) \subseteq DOMAIN conversation
                      /\ \A i, j \in DOMAIN row.timeline : i # j => row.timeline[i] # row.timeline[j]
    BY DEF TimelineSound
  <2>1. Sane(row, Len(conversation)) BY DEF NodeInv, NodesSane
  <2>2. DOMAIN conversation = 1..Len(conversation) BY DEF TypeOK, SessionType
  <2>3. Distinct(row.timeline) /\ SeqElems(row.timeline) \subseteq 1..Len(conversation)
    BY <2>1 DEF Sane
  <2> QED BY <2>2, <2>3 DEF Distinct
<1> QED BY <1>1, NodeInvariant, PTL

\* When all UI sync calls have returned, a message that the timeline misses had a
\* failing call of its own, unless some call wrote over a node it had not read.
THEOREM LossesExplained == ChatSpec => []TimelineLossExplained
<1>1. TypeOK /\ NodeInv => TimelineLossExplained
  <2> SUFFICES ASSUME TypeOK, NodeInv, AllSynced, ~stale, NEW i \in DOMAIN conversation,
                      row = NoNode \/ i \notin SeqElems(row.timeline)
               PROVE  i \in dropped
    BY DEF TimelineLossExplained, Missing
  <2>1. i \in 1..Len(conversation) BY DEF TypeOK, SessionType
  <2>2. \A g \in Procs : ~Owes(g, i) BY DEF Owes, Claims, AllSynced
  <2>3. ~Shows(row, i) BY DEF Shows
  <2> QED BY <2>1, <2>2, <2>3 DEF NodeInv, NothingForgotten
<1> QED BY <1>1, NodeInvariant, PTL

\* The status of the act node leaves the act state machine only at the opening
\* prompt or where a call writes back an older node: a commit that is not stale
\* writes what the event makes of the row itself.
THEOREM StatusFollowsMachine == ChatSpec => StatusLapseExplained
<1>1. TypeOK /\ NodeInv /\ [ChatNext]_allVars =>
        [row # NoNode /\ ~stale' =>
           \/ CanTransition(row.status, row'.status)
           \/ row.status \in {"UNSPECIFIED", "IDLE"} /\ row'.status = "NEEDS_USER_ACTION"]_allVars
  <2> SUFFICES ASSUME TypeOK, NodeInv, [ChatNext]_allVars, row # NoNode, ~stale'
               PROVE  \/ CanTransition(row.status, row'.status)
                      \/ /\ row.status \in {"UNSPECIFIED", "IDLE"}
                         /\ row'.status = "NEEDS_USER_ACTION"
    OBVIOUS
  <2>1. CASE row' = row BY <2>1 DEF CanTransition
  <2>2. ASSUME NEW g \in Procs, HandleCommit(g)
        PROVE  \/ CanTransition(row.status, row'.status)
               \/ /\ row.status \in {"UNSPECIFIED", "IDLE"}
                  /\ row'.status = "NEEDS_USER_ACTION"
    <3>1. PICK ev : ev = Head(emit[g]) OBVIOUS
    <3>2. row = local[g][1] /\ row' = local[g][2] /\ at[g] = "read" BY <2>2 DEF HandleCommit
    <3>3. /\ row' = applyEventToNode(row, ev, half[g]) /\ Sane(row, Len(conversation))
          /\ emit[g] # <<>> /\ half[g] \in BOOLEAN
          /\ half[g] => ev.type = "assistant_output"
      BY <3>1, <3>2 DEF NodeInv, NodesSane, SyncCalls, HandleShapes
    <3>4. ev \in SyncCall /\ row \in Node BY <3>1, <3>3, EmitFacts DEF Sane
    <3>5. PICK n, r : n = row /\ r = row' OBVIOUS
    <3>6. \/ r.status = n.status \/ r.status = "PLANNING" \/ r.status = "NEEDS_USER_ACTION"
      BY <3>3, <3>4, <3>5, EventFacts
    <3>7. n.status \in {"UNSPECIFIED", "IDLE", "PLANNING", "NEEDS_USER_ACTION"}
      BY <3>4, <3>5 DEF Node
    <3> QED BY <3>5, <3>6, <3>7 DEF CanTransition
  <2>3. \/ row' = row
        \/ \E g \in Procs : HandleCommit(g)
    <3>1. ~CreateNodeInTab BY DEF CreateNodeInTab, NodeInv, HandleShapes
    <3>2. CreateNodeCached => row' = row BY DEF CreateNodeCached
    <3>3. UNCHANGED nodeVars => row' = row BY DEF nodeVars
    <3>4. ASSUME NEW g \in Procs, Handle(g), ~HandleCommit(g) PROVE row' = row
      BY <3>4 DEF Handle, HandleRead, HandleReturn, HandleFail, HandleEnds
    <3> QED BY <3>1, <3>2, <3>3, <3>4, ChatForms
  <2> QED BY <2>1, <2>2, <2>3
<1> QED BY <1>1, NodeInvariant, PTL DEF ChatSpec, StatusLapseExplained

(* The answers of the worker. *)

\* Where the worker's two goroutines are at each stage, and how many outputs and
\* how many inputs there have been: o and d.
StageOK(st, waits, publishes, o, d) ==
    /\ st = "waiting" => waits \in {"lock", "parked", "cancel"}
    /\ st # "waiting" => waits = "idle"
    /\ st # "publishing" => publishes = "idle"
    /\ st \in {"start", "publish", "input", "loop"} => d = o
    /\ st = "publishing" /\ publishes = "lock" => d = o
    /\ st = "publishing" /\ publishes # "lock" => publishes \in {"persist", "idle"} /\ d = o - 1
    /\ st \in {"wait", "waiting", "leave"} => d = o - 1
    /\ st = "done" => d \in {o - 1, o}
    /\ st \in {"start", "publish", "publishing", "wait", "waiting", "input", "leave", "loop",
               "done"}

Outputs == Cardinality(AssistantSeqs)

StageInv == StageOK(stage, pc[worker], pc[publisher], Outputs, Len(delivered))

LEMMA OutputsFinite ==
    ASSUME TypeOK
    PROVE  IsFiniteSet(AssistantSeqs) /\ Outputs \in Nat /\ Len(delivered) \in Nat
           /\ AssistantSeqs \subseteq 1..Len(conversation) /\ Len(conversation) \in Nat
<1>1. /\ AssistantSeqs \subseteq 1..Len(conversation) /\ Len(conversation) \in Nat
      /\ Len(delivered) \in Nat
  BY DEF TypeOK, SessionType, AssistantSeqs
<1>2. IsFiniteSet(1..Len(conversation)) BY <1>1, FS_Interval
<1>3. IsFiniteSet(AssistantSeqs) BY <1>1, <1>2, FS_Subset
<1> QED BY <1>1, <1>3, FS_CardinalityType DEF Outputs

LEMMA PublishCounts ==
    ASSUME TypeOK, NEW c \in Procs, PublishOutput(c)
    PROVE  Outputs' = Outputs + 1 /\ delivered' = delivered
<1>1. PICK id \in Ids \cup {NoId} :
        conversation' = Append(conversation, [role |-> "assistant", id |-> EnsureId(id)])
  BY DEF PublishOutput
<1>2. [role |-> "assistant", id |-> EnsureId(id)] \in Message
  BY EnsureIdFacts DEF TypeOK, Message
<1>3. AssistantSeqs' = AssistantSeqs \cup {Len(conversation) + 1}
  BY <1>1, <1>2, AssistantSeqsAppend DEF TypeOK
<1>4. Len(conversation) + 1 \notin AssistantSeqs BY OutputsFinite
<1>5. Cardinality(AssistantSeqs \cup {Len(conversation) + 1}) = Cardinality(AssistantSeqs) + 1
  BY <1>4, OutputsFinite, FS_AddElement
<1> QED BY <1>3, <1>5 DEF Outputs, PublishOutput

LEMMA SendCounts ==
    ASSUME TypeOK, NEW c \in Procs, Send(c)
    PROVE  Outputs' = Outputs /\ delivered' = delivered
<1>1. PICK id \in Ids \cup {NoId} :
        conversation' = Append(conversation, [role |-> "user", id |-> EnsureId(id)])
  BY DEF Send, AcceptInput
<1>2. [role |-> "user", id |-> EnsureId(id)] \in Message
  BY EnsureIdFacts DEF TypeOK, Message
<1>3. AssistantSeqs' = AssistantSeqs BY <1>1, <1>2, AssistantSeqsAppend DEF TypeOK
<1> QED BY <1>3 DEF Outputs, Send, AcceptInput

LEMMA StageStep == TypeOK /\ Settled /\ StageInv /\ [ChatNext]_allVars => StageInv'
<1> SUFFICES ASSUME TypeOK, Settled, StageInv, [ChatNext]_allVars PROVE StageInv'
  OBVIOUS
<1>0. /\ DOMAIN pc = Procs /\ Outputs \in Nat /\ Len(delivered) \in Nat
      /\ delivered \in Seq(Nat) /\ inputQueue \in Seq(Nat)
      /\ worker \in Procs /\ publisher \in Procs /\ worker # publisher
  BY OutputsFinite, Members DEF TypeOK, ProcType, SessionType
<1>f. ASSUME conversation' = conversation PROVE Outputs' = Outputs
  BY <1>f DEF Outputs, AssistantSeqs
<1>1. ASSUME UNCHANGED vars, ChatStart \/ ChatTurn \/ ChatPublished \/ ChatWaited
      PROVE  StageInv'
  <2>1. /\ Outputs' = Outputs /\ delivered' = delivered /\ pc' = pc
    BY <1>1, <1>f DEF vars, session
  <2> QED BY <1>0, <1>1, <2>1
       DEF StageInv, StageOK, ChatStart, ChatTurn, ChatPublished, ChatWaited
<1>2. CASE ChatPublish
  <2>1. Outputs' = Outputs /\ delivered' = delivered BY <1>2, <1>f DEF ChatPublish, Enter, session
  <2>2. /\ pc' = [pc EXCEPT ![publisher] = "lock"] /\ stage = "publish" /\ stage' = "publishing"
    BY <1>2 DEF ChatPublish, Enter
  <2>3. pc'[publisher] = "lock" /\ pc'[worker] = pc[worker] BY <1>0, <2>2
  <2> QED BY <2>1, <2>2, <2>3 DEF StageInv, StageOK
<1>3. CASE ChatWait
  <2>1. Outputs' = Outputs /\ delivered' = delivered BY <1>3, <1>f DEF ChatWait, Enter, session
  <2>2. /\ pc' = [pc EXCEPT ![worker] = "lock"] /\ stage = "wait" /\ stage' = "waiting"
    BY <1>3 DEF ChatWait, Enter
  <2>3. pc'[worker] = "lock" /\ pc'[publisher] = pc[publisher] BY <1>0, <2>2
  <2> QED BY <2>1, <2>2, <2>3 DEF StageInv, StageOK
<1>4. CASE ChatInput
  <2>1. Outputs' = Outputs BY <1>4, <1>f DEF ChatInput, WaitForInputPop
  <2>2. /\ pc[worker] = "lock" /\ pc' = [pc EXCEPT ![worker] = "idle"] /\ stage' = "input"
        /\ inputQueue # <<>> /\ delivered' = Append(delivered, Head(inputQueue))
    BY <1>4 DEF ChatInput, WaitForInputPop
  <2>3. Len(delivered') = Len(delivered) + 1
    BY <1>0, <2>2, HeadTailFacts, AppendFacts
  <2>4. pc'[worker] = "idle" /\ pc'[publisher] = pc[publisher] BY <1>0, <2>2
  <2>5. stage = "waiting" BY <2>2 DEF StageInv, StageOK
  <2> QED BY <1>0, <2>1, <2>2, <2>3, <2>4, <2>5 DEF StageInv, StageOK
<1>5. CASE ChatNoInput
  <2>1. Outputs' = Outputs /\ delivered' = delivered
    BY <1>5, <1>f DEF ChatNoInput, WaitForInputClosed, WaitForInputCancel, LeaveCancelled
  <2>2. /\ pc[worker] \in {"lock", "cancel"} /\ pc' = [pc EXCEPT ![worker] = "idle"]
        /\ stage' = "leave"
    BY <1>5 DEF ChatNoInput, WaitForInputClosed, WaitForInputCancel, LeaveCancelled
  <2>3. pc'[worker] = "idle" /\ pc'[publisher] = pc[publisher] BY <1>0, <2>2
  <2>4. stage = "waiting" BY <2>2 DEF StageInv, StageOK
  <2> QED BY <2>1, <2>2, <2>3, <2>4 DEF StageInv, StageOK
<1>6. CASE Only(PublishOutput(publisher))
  <2>1. Outputs' = Outputs + 1 /\ delivered' = delivered
    BY <1>0, <1>6, PublishCounts DEF Only
  <2>2. /\ pc[publisher] = "lock" /\ pc' = [pc EXCEPT ![publisher] = "persist"]
        /\ stage' = stage
    BY <1>6 DEF Only, PublishOutput, chatVars
  <2>3. pc'[publisher] = "persist" /\ pc'[worker] = pc[worker] BY <1>0, <2>2
  <2>4. stage = "publishing" BY <2>2 DEF StageInv, StageOK
  <2> QED BY <1>0, <2>1, <2>2, <2>3, <2>4 DEF StageInv, StageOK
<1>7. CASE Persist(publisher)
  <2>1. Outputs' = Outputs /\ delivered' = delivered
    BY <1>7, <1>f DEF Persist, Only, persistConversation, session
  <2>2. /\ pc[publisher] = "persist" /\ pc' = [pc EXCEPT ![publisher] = "idle"]
        /\ stage' = stage
    BY <1>7 DEF Persist, Only, persistConversation, chatVars
  <2>3. pc'[publisher] = "idle" /\ pc'[worker] = pc[worker] BY <1>0, <2>2
  <2>4. stage = "publishing" BY <2>2 DEF StageInv, StageOK
  <2> QED BY <2>1, <2>2, <2>3, <2>4 DEF StageInv, StageOK
<1>8. CASE Only(WaitForInputPark(worker)) \/ Only(Wake(worker)) \/ IdleTimeout
  <2>1. Outputs' = Outputs /\ delivered' = delivered /\ stage' = stage
    BY <1>8, <1>f DEF Only, WaitForInputPark, StartWaiting, Wake, IdleTimeout,
                      WaitForInputCtxDone, session, chatVars
  <2>2. /\ pc[worker] \in {"lock", "parked"}
        /\ \E l \in {"lock", "parked", "cancel"} : pc' = [pc EXCEPT ![worker] = l]
    BY <1>8 DEF Only, WaitForInputPark, StartWaiting, Wake, IdleTimeout, WaitForInputCtxDone
  <2>3. pc'[worker] \in {"lock", "parked", "cancel"} /\ pc'[publisher] = pc[publisher]
    BY <1>0, <2>2
  <2>4. stage = "waiting" BY <2>2 DEF StageInv, StageOK
  <2> QED BY <2>1, <2>3, <2>4 DEF StageInv, StageOK
<1>9. ASSUME NEW c \in Users, Only(Enter(c)) \/ UserRun(c) PROVE StageInv'
  <2>1. c \in Procs /\ c # publisher /\ c # worker BY Members DEF Users
  <2>2. Operation(c) /\ stage' = stage
    BY <1>9 DEF UserRun, Only, Persist, Operation, chatVars
  <2>3. pc'[worker] = pc[worker] /\ pc'[publisher] = pc[publisher]
    BY <1>0, <2>1, <2>2, OperationFacts
  <2>4. Outputs' = Outputs /\ delivered' = delivered
    <3>1. CASE Send(c) BY <2>1, <3>1, SendCounts
    <3>2. CASE Enter(c) \/ SendRejected(c) \/ Close(c) \/ persistConversation(c)
      BY <3>2, <1>f DEF Enter, SendRejected, Close, persistConversation, session
    <3> QED BY <1>9, <3>1, <3>2 DEF UserRun, Only, Persist
  <2> QED BY <2>2, <2>3, <2>4 DEF StageInv
<1>10. ASSUME NEW g \in Procs, Handle(g) PROVE StageInv'
  BY <1>10, <1>f, HandleFrame DEF StageInv, chatVars
<1>11. CASE CreateNodeInTab \/ CreateNodeCached
  BY <1>11, <1>f DEF CreateNodeInTab, CreateNodeCached, vars, session, chatVars, StageInv
<1>12. CASE UNCHANGED allVars BY <1>12, <1>f DEF allVars, vars, session, chatVars, StageInv
<1>13. CASE WorkerRun
  <2>1. ChatStart \/ ChatTurn \/ ChatPublished \/ ChatWaited => UNCHANGED vars
    BY DEF ChatStart, ChatTurn, ChatPublished, ChatWaited
  <2> QED BY <1>1, <1>2, <1>3, <1>4, <1>5, <1>6, <1>7, <1>8, <1>13, <2>1 DEF WorkerRun
<1> QED BY <1>8, <1>9, <1>10, <1>11, <1>12, <1>13 DEF ChatNext

LEMMA StageInit == ChatInit => StageInv
<1> SUFFICES ASSUME ChatInit PROVE StageInv OBVIOUS
<1>1. conversation = <<>> /\ delivered = <<>> /\ stage = "start" BY DEF ChatInit, Init
<1>2. pc[worker] = "idle" /\ pc[publisher] = "idle" BY Members DEF ChatInit, Init
<1>3. AssistantSeqs = {} BY <1>1 DEF AssistantSeqs
<1>4. Outputs = 0 BY <1>3, FS_EmptySet DEF Outputs
<1>5. Len(delivered) = 0 BY <1>1
<1> QED BY <1>1, <1>2, <1>4, <1>5 DEF StageInv, StageOK

\* The worker never falls behind its inputs and never speaks twice in a row, for
\* any number of users and turns: in Run each publish is followed by one wait and
\* each input by one publish, and nobody else publishes.
THEOREM WorkerAnswers == ChatSpec => []AnswersKeepUp
<1>1. TypeOK /\ Settled /\ StageInv /\ [ChatNext]_allVars => StageInv' BY StageStep
<1>2. TypeOK /\ StageInv => AnswersKeepUp
  BY OutputsFinite DEF StageInv, StageOK, AnswersKeepUp, Outputs
<1> QED BY <1>1, <1>2, StageInit, NodeInvariant, PTL DEF ChatSpec

(* The types. *)

\* What NodeInv and StageInv leave open: a call keeps the node it read beside the
\* one it writes, and the turns are counted up to the limit.
TurnsAndPairs ==
    /\ turn \in 0..MaxTurns
    /\ \A g \in Procs : at[g] # "ready" => local[g] = <<local[g][1], local[g][2]>>

LEMMA PairsStep ==
    ASSUME TypeOK, Settled, NodeInv, TurnsAndPairs, [ChatNext]_allVars
    PROVE  TurnsAndPairs'
<1>1. MaxTurns \in Nat /\ turn \in 0..MaxTurns BY ChatAssumption DEF TurnsAndPairs
<1>2. UNCHANGED turn \/ ChatTurn
  <2>1. ASSUME NEW g \in Procs, Handle(g) PROVE UNCHANGED turn
    BY <2>1, HandleFrame DEF chatVars
  <2> QED BY <2>1 DEF ChatNext, WorkerRun, IdleTimeout, UserRun, Only, Persist, chatVars, allVars,
           ChatStart, ChatPublish, ChatPublished, ChatWait, ChatInput, ChatNoInput, ChatWaited,
           CreateNodeInTab, CreateNodeCached
<1>3. turn' \in 0..MaxTurns BY <1>1, <1>2 DEF ChatTurn
<1>4. ASSUME NEW h \in Procs, at'[h] # "ready"
      PROVE  local'[h] = <<local'[h][1], local'[h][2]>>
  <2>1. at \in [Procs -> {"ready", "read", "stored"}] /\ DOMAIN local = Procs
    BY DEF NodeInv, HandleShapes
  <2>2. CASE UNCHANGED <<at, local>> BY <1>4, <2>2 DEF TurnsAndPairs
  <2>3. ASSUME NEW g \in Procs, Handle(g) PROVE local'[h] = <<local'[h][1], local'[h][2]>>
    <3>1. CASE HandleRead(g)
      <4>1. PICK x, y : local' = [local EXCEPT ![g] = <<x, y>>] BY <3>1 DEF HandleRead
      <4>2. h # g => at[h] # "ready" BY <1>4, <2>1, <3>1 DEF HandleRead
      <4> QED BY <2>1, <4>1, <4>2 DEF TurnsAndPairs
    <3>2. CASE HandleCommit(g) BY <1>4, <2>1, <3>2 DEF HandleCommit, TurnsAndPairs
    <3>3. CASE HandleReturn(g) \/ HandleFail(g)
      BY <1>4, <2>1, <3>3 DEF HandleReturn, HandleFail, HandleEnds, TurnsAndPairs
    <3> QED BY <2>3, <3>1, <3>2, <3>3 DEF Handle
  <2>4. CASE CreateNodeInTab \/ CreateNodeCached
    BY <2>2, <2>4 DEF CreateNodeInTab, CreateNodeCached
  <2> QED BY <2>2, <2>3, <2>4, ChatForms DEF nodeVars
<1> QED BY <1>3, <1>4 DEF TurnsAndPairs

\* The worker is at one of its stages and within its turns, and the row, the cache
\* and every call in progress hold a node: applyEventToNode yields one on each event.
THEOREM ChatTypeCorrect == ChatSpec => []ChatTypeOK
<1>1. ChatInit => TurnsAndPairs BY ChatAssumption DEF ChatInit, TurnsAndPairs
<1>2. TypeOK /\ Settled /\ NodeInv /\ TurnsAndPairs /\ [ChatNext]_allVars => TurnsAndPairs'
  BY PairsStep
<1>3. NodeInv /\ StageInv /\ TurnsAndPairs => ChatTypeOK
  <2> SUFFICES ASSUME NodeInv, StageInv, TurnsAndPairs PROVE ChatTypeOK OBVIOUS
  <2>1. stage \in {"start", "publish", "publishing", "wait", "waiting", "input",
                   "leave", "loop", "done"}
    BY DEF StageInv, StageOK
  <2>2. {row, cached} \subseteq Node \cup {NoNode} BY DEF NodeInv, NodesSane, Sane
  <2>3. ASSUME NEW g \in Procs, at[g] # "ready"
        PROVE  emit[g] # <<>> /\ local[g] \in Node \X Node
    <3>1. local[g][1] \in Node /\ local[g][2] \in Node /\ emit[g] # <<>>
      BY <2>3 DEF NodeInv, NodesSane, SyncCalls, Sane
    <3>2. local[g] = <<local[g][1], local[g][2]>> BY <2>3 DEF TurnsAndPairs
    <3> QED BY <3>1, <3>2
  <2> QED BY <2>1, <2>2, <2>3 DEF ChatTypeOK, TurnsAndPairs, NodeInv, HandleShapes
<1>4. TypeOK /\ Settled /\ StageInv /\ [ChatNext]_allVars => StageInv' BY StageStep
<1> QED BY <1>1, <1>2, <1>3, <1>4, StageInit, NodeInvariant, PTL DEF ChatSpec
=============================================================================
