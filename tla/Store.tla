------------------------------- MODULE Store --------------------------------
(***************************************************************************)
(* Transactions of the record store: packages/adapter-sqlite/src/index.ts  *)
(* (adapter-libsql is built the same way) and, where pooled, the advisory  *)
(* lock of packages/adapter-postgres/src/index.ts.  Rows are versions, so  *)
(* that a lost update can be told; a body reads, writes, nests and fails   *)
(* in any order and writes a key at most once.                             *)
(*                                                                         *)
(* The body awaits what it starts: no transaction of this repository       *)
(* starts writes side by side.                                             *)
(***************************************************************************)
EXTENDS Naturals, Sequences

CONSTANTS
  Calls,      \* calls of store.transaction that do not join another
  Readers,    \* get or find outside of a transaction
  Processes,
  Process,    \* call or reader -> the process it runs in
  Keys,
  MaxDepth,   \* bound on nested transactions
  None

ASSUME StoreAssumption ==
  /\ Calls \cap Readers = {} /\ None \notin Calls \cup Readers
  /\ Process \in [Calls \cup Readers -> Processes]

VARIABLES
  pooled,   \* the adapter: PostgreSQL with a pool and one advisory lock, or not
  db,       \* committed rows: key -> version, 0 for no row
  lock,     \* the writer lock of the database, BEGIN IMMEDIATE or advisory
  queue,    \* process -> those that wait for or hold its Mutex, in order
  pc,       \* idle, queued, body, ending or over
  view,     \* the rows as the open transaction sees them
  seen,     \* call -> key -> the version it last read, None before
  wrote,    \* call -> key -> what it did to the row, kept once committed
  depth,    \* call -> nested transactions it is inside of
  doomed,   \* calls with context.rollbackOnly set
  failed,   \* history: calls with an operation or nested transaction that failed
  outcome,  \* call -> pending, committed or failed
  got       \* reader -> the rows it read

A == INSTANCE Atomic WITH
  effect <- [c \in Calls |-> IF outcome[c] = "committed" THEN wrote[c] ELSE [k \in Keys |-> "keep"]]

control == <<pooled, lock, queue, pc>>
body == <<view, seen, wrote, depth, doomed, failed>>
storeVars == <<db, control, body, outcome, got>>

StoreInit ==
  /\ pooled \in BOOLEAN
  /\ db \in [Keys -> {0, 1}]
  /\ lock = None
  /\ queue = [p \in Processes |-> <<>>]
  /\ pc = [c \in Calls \cup Readers |-> "idle"]
  /\ view = [k \in Keys |-> 0]
  /\ seen = [c \in Calls |-> [k \in Keys |-> None]]
  /\ wrote = [c \in Calls |-> [k \in Keys |-> "keep"]]
  /\ depth = [c \in Calls |-> 0]
  /\ doomed = {} /\ failed = {}
  /\ outcome = [c \in Calls |-> "pending"]
  /\ got = [r \in Readers |-> None]

-----------------------------------------------------------------------------
(* The Mutex and the lock of the database *)

\* Mutant of Turn: the operation does not wait for the ones before it.
TurnAtOnce(c) == TRUE

\* `await previous`: everybody who came before has released the Mutex.
Turn(c) == IF pooled THEN TRUE ELSE Head(queue[Process[c]]) = c

Released(c) ==
  IF pooled THEN queue ELSE [queue EXCEPT ![Process[c]] = Tail(@)]

Arrive(c) ==
  /\ pc[c] = "idle"
  /\ pc' = [pc EXCEPT ![c] = "queued"]
  /\ queue' = IF pooled THEN queue ELSE [queue EXCEPT ![Process[c]] = Append(@, c)]
  /\ UNCHANGED <<pooled, db, lock, body, outcome, got>>

\* Mutant of LockFree: BEGIN DEFERRED does not take the writer lock.
LockFreeAlways == TRUE

LockFree == lock = None

Begin(c) ==
  /\ pc[c] = "queued" /\ Turn(c)
  /\ LockFree
  /\ lock' = c
  /\ view' = db
  /\ pc' = [pc EXCEPT ![c] = "body"]
  /\ UNCHANGED <<pooled, db, queue, seen, wrote, depth, doomed, failed,
                 outcome, got>>

\* Busy for longer than the timeout: STORAGE_BUSY, or the COMMIT or the
\* connection failing; nothing has been written.
BeginFails(c) ==
  /\ pc[c] = "queued" /\ Turn(c)
  /\ ~LockFree
  /\ pc' = [pc EXCEPT ![c] = "over"]
  /\ queue' = Released(c)
  /\ outcome' = [outcome EXCEPT ![c] = "failed"]
  /\ UNCHANGED <<pooled, db, lock, body, got>>

\* The contexts of finished transactions are gone (wrote is history then).
Forget(cs) ==
  /\ view' = IF lock \in cs THEN [k \in Keys |-> 0] ELSE view
  /\ seen' = [c \in Calls |-> IF c \in cs THEN [k \in Keys |-> None] ELSE seen[c]]
  /\ wrote' = [c \in Calls |-> IF c \in cs /\ outcome'[c] # "committed" THEN [k \in Keys |-> "keep"] ELSE wrote[c]]
  /\ depth' = [c \in Calls |-> IF c \in cs THEN 0 ELSE depth[c]]
  /\ doomed' = doomed \ cs

\* The transaction is over on the database; the Mutex is released after it.
End(c, result) ==
  /\ lock' = None
  /\ outcome' = [outcome EXCEPT ![c] = result]
  /\ pc' = [pc EXCEPT ![c] = "ending"]
  /\ Forget({c})
  /\ UNCHANGED <<pooled, queue, failed, got>>

Release(c) ==
  /\ pc[c] = "ending"
  /\ pc' = [pc EXCEPT ![c] = "over"]
  /\ queue' = Released(c)
  /\ UNCHANGED <<pooled, db, lock, body, outcome, got>>

-----------------------------------------------------------------------------
(* The body *)

Get(c, k) ==
  /\ pc[c] = "body"
  /\ seen' = [seen EXCEPT ![c][k] = view[k]]
  /\ UNCHANGED <<db, control, view, wrote, depth, doomed, failed, outcome, got>>

Writes(c, k, how, version) ==
  /\ view' = [view EXCEPT ![k] = version]
  /\ wrote' = [wrote EXCEPT ![c][k] = how]
  /\ UNCHANGED <<db, control, seen, depth, doomed, failed, outcome, got>>

Doom(c) == doomed \cup {c}

\* An operation fails and the body catches it.
Fails(c) ==
  /\ doomed' = Doom(c)
  /\ failed' = failed \cup {c}
  /\ UNCHANGED <<db, control, view, seen, wrote, outcome, got>>

\* put: NOT_FOUND without a row.  What is written was computed from what the
\* body read.
Put(c, k) ==
  /\ pc[c] = "body" /\ wrote[c][k] = "keep"
  /\ \/ view[k] > 0 /\ seen[c][k] # None /\ Writes(c, k, "put", seen[c][k] + 1)
     \/ view[k] = 0 /\ Fails(c) /\ UNCHANGED depth

\* insert: CONFLICT with a row.
Insert(c, k) ==
  /\ pc[c] = "body" /\ wrote[c][k] = "keep"
  /\ \/ view[k] = 0 /\ Writes(c, k, "insert", 1)
     \/ view[k] > 0 /\ Fails(c) /\ UNCHANGED depth

Delete(c, k) ==
  /\ pc[c] = "body" /\ wrote[c][k] = "keep"
  /\ Writes(c, k, "delete", 0)

\* store.transaction in the body joins the open transaction.
Join(c) ==
  /\ pc[c] = "body" /\ depth[c] < MaxDepth
  /\ depth' = [depth EXCEPT ![c] = @ + 1]
  /\ UNCHANGED <<db, control, view, seen, wrote, doomed, failed, outcome, got>>

Leave(c) ==
  /\ pc[c] = "body" /\ depth[c] > 0
  /\ depth' = [depth EXCEPT ![c] = @ - 1]
  /\ UNCHANGED <<db, control, view, seen, wrote, doomed, failed, outcome, got>>

\* The nested body throws; whoever called it catches that.
LeaveThrowing(c) ==
  /\ pc[c] = "body" /\ depth[c] > 0
  /\ depth' = [depth EXCEPT ![c] = @ - 1]
  /\ Fails(c)

\* Mutant of Reenter: the call waits for the Mutex, that is, for itself.
ReenterWaits(c) ==
  /\ pc[c] = "body" /\ ~pooled
  /\ pc' = [pc EXCEPT ![c] = "queued"]
  /\ queue' = [queue EXCEPT ![Process[c]] = Append(@, c)]
  /\ UNCHANGED <<pooled, db, lock, body, outcome, got>>

\* A second adapter instance on the same file is called: DATABASE_IN_USE,
\* because the chain of this call holds its Mutex, and the body throws it on.
Reenter(c) ==
  /\ pc[c] = "body" /\ ~pooled
  /\ End(c, "failed")
  /\ UNCHANGED db

\* Out of the body and of every nested one: ROLLBACK.
Throw(c) ==
  /\ pc[c] = "body"
  /\ End(c, "failed") /\ UNCHANGED db

\* COMMIT, unless rollbackOnly is set: TRANSACTION_ABORTED.  COMMIT may fail.
Return(c) ==
  /\ pc[c] = "body" /\ depth[c] = 0
  /\ \/ c \notin doomed /\ db' = view /\ End(c, "committed")
     \/ db' = db /\ End(c, "failed")

-----------------------------------------------------------------------------
(* Reads outside of a transaction, and crashes *)

\* SQLite has one connection: it shows the open transaction of its process.
Connection(p) ==
  IF ~pooled /\ lock # None /\ Process[lock] = p THEN view ELSE db

RootRead(r) ==
  /\ pc[r] = "queued" /\ Turn(r)
  /\ got' = [got EXCEPT ![r] = Connection(Process[r])]
  /\ pc' = [pc EXCEPT ![r] = "over"]
  /\ queue' = Released(r)
  /\ UNCHANGED <<pooled, db, lock, body, outcome>>

\* The database rolls an open transaction back; calls that had returned from
\* COMMIT keep their outcome, the others never happened.
CrashProcess(p) ==
  LET lost == {c \in DOMAIN pc : Process[c] = p /\ pc[c] \notin {"idle", "over"}}
  IN  /\ lost # {}
      /\ pc' = [c \in Calls \cup Readers |-> IF c \in lost THEN "over" ELSE pc[c]]
      /\ outcome' = [c \in Calls |->
           IF c \in lost /\ outcome[c] = "pending" THEN "failed" ELSE outcome[c]]
      /\ lock' = IF lock \in lost THEN None ELSE lock
      /\ queue' = [queue EXCEPT ![p] = <<>>]
      /\ Forget(lost)
      /\ UNCHANGED <<pooled, db, failed, got>>

Operation(c) ==
  \/ \E k \in Keys : Get(c, k) \/ Put(c, k) \/ Insert(c, k) \/ Delete(c, k)
  \/ Join(c) \/ Leave(c) \/ LeaveThrowing(c)

Ends(c) == Throw(c) \/ Return(c)

Call(c) == Arrive(c) \/ Begin(c) \/ BeginFails(c) \/ Release(c) \/ Reenter(c)

StoreNext ==
  \/ \E c \in Calls : Call(c) \/ Operation(c) \/ Ends(c)
  \/ \E r \in Readers : Arrive(r) \/ RootRead(r)
  \/ \E p \in Processes : CrashProcess(p)

\* The body comes to an end, and the database answers.
StoreFairness ==
  /\ \A c \in Calls :
       /\ WF_storeVars(Begin(c) \/ BeginFails(c)) /\ WF_storeVars(Release(c))
       /\ SF_storeVars(Ends(c))
  /\ \A r \in Readers : WF_storeVars(RootRead(r))

StoreSpec == StoreInit /\ [][StoreNext]_storeVars

FairStoreSpec == StoreSpec /\ StoreFairness

-----------------------------------------------------------------------------

\* A failure that the body swallowed, its own or a nested transaction's, still
\* keeps everything the call wrote out of the database.
SwallowedFailureAborts == \A c \in failed : outcome[c] # "committed"

\* Concurrent and nested calls, across processes and crashes, are as if each
\* committed one had run at one instant, and without a failure: no update is
\* lost, no part of a failed call stays, no row is inserted twice.
ImplementsAtomic == A!Spec /\ []SwallowedFailureAborts

\* A read outside of a transaction sees committed rows only, although SQLite's
\* one connection would show it the rows of whoever has the transaction open.
NoDirtyRead == [][\A r \in Readers : got'[r] # got[r] => got'[r] = db]_storeVars

\* Nobody waits for ever for the Mutex, not even a body that calls a second
\* adapter instance on the database it holds itself.
EveryCallEnds ==
  \A c \in Calls \cup Readers : pc[c] = "queued" ~> pc[c] = "over"
=============================================================================
