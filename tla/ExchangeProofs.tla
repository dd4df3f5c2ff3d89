--------------------------- MODULE ExchangeProofs ---------------------------
(***************************************************************************)
(* Proofs about what processes share through the database: transactions    *)
(* (Store), for any number of calls, readers, processes and keys; the runs *)
(* of a workflow (Workflows), for any number of people, runs and workers   *)
(* and any sequence of steps; and the dispatch of audit events             *)
(* (EventDispatch), for any number of events, processes, subscribers and   *)
(* concurrent dispatches.                                                  *)
(***************************************************************************)
EXTENDS Store, Workflows, EventDispatch, FiniteSetTheorems, WellFoundedInduction, TLAPS

(***************************************************************************)
(* Transactions of the store are atomic.                                   *)
(***************************************************************************)
Clean == [k \in Keys |-> "keep"]
Unread == [k \in Keys |-> None]

StoreShape ==
  /\ pc \in [Calls \cup Readers -> {"idle", "queued", "body", "ending", "over"}]
  /\ outcome \in [Calls -> {"pending", "committed", "failed"}]
  /\ db \in [Keys -> Nat] /\ view \in [Keys -> Nat]
  /\ wrote \in [Calls -> [Keys -> {"keep", "put", "insert", "delete"}]]
  /\ seen \in [Calls -> [Keys -> Nat \cup {None}]]
  /\ lock \in Calls \cup {None}
  /\ failed \subseteq Calls

\* Whoever is in a body holds the lock of the database.
Exclusive == \A c \in Calls : pc[c] = "body" <=> lock = c

\* A call has its outcome once it is over, and not before.
Settled == \A c \in Calls : outcome[c] = "pending" <=> pc[c] \in {"idle", "queued", "body"}

\* Nobody else has read or written anything that could still be committed.
Untouched ==
  \A c \in Calls : lock # c =>
    seen[c] = Unread /\ (outcome[c] # "committed" => wrote[c] = Clean)

\* What the open transaction sees is the committed rows and what it wrote, and
\* what it read and has not written is still so.
Follows ==
  lock # None => \A k \in Keys :
    /\ A!Allowed(wrote[lock][k], db[k])
    /\ view[k] = A!Written(wrote[lock][k], db[k])
    /\ wrote[lock][k] = "keep" /\ seen[lock][k] # None => seen[lock][k] = db[k]

\* A failure dooms the call for as long as its end is open.
Doomed ==
  \A c \in failed :
    outcome[c] # "committed" /\ (outcome[c] = "pending" => c \in doomed)

StoreInv == StoreShape /\ Exclusive /\ Settled /\ Untouched /\ Follows /\ Doomed

LEMMA StoreInitInv == ASSUME StoreInit PROVE StoreInv
<1> USE StoreAssumption DEF StoreInit
<1>1. StoreShape /\ Exclusive /\ Settled
  BY DEF StoreShape, Exclusive, Settled
<1>2. Untouched /\ Follows /\ Doomed
  BY DEF Untouched, Follows, Doomed, Clean, Unread
<1> QED
  BY <1>1, <1>2 DEF StoreInv

(***************************************************************************)
(* Waiting: only where the call is changes.                                *)
(***************************************************************************)
Moves(x, from, to) ==
  /\ pc[x] \in from /\ pc' = [pc EXCEPT ![x] = to]
  /\ UNCHANGED <<db, lock, body, outcome>>

LEMMA MovesInv ==
  ASSUME StoreInv, NEW x \in Calls \cup Readers, NEW from, NEW to,
         Moves(x, from, to),
         \/ from = {"idle"} /\ to = "queued"
         \/ from = {"ending"} /\ to = "over"
         \/ x \in Readers /\ to \in {"queued", "over"}
  PROVE  StoreInv'
<1> USE StoreAssumption DEF StoreInv, Moves, body
<1>1. StoreShape'
  BY DEF StoreShape
<1>2. Exclusive' /\ Settled'
  BY DEF StoreShape, Exclusive, Settled
<1>3. Untouched' /\ Follows' /\ Doomed'
  BY DEF Untouched, Follows, Doomed
<1> QED
  BY <1>1, <1>2, <1>3

LEMMA BeginInv ==
  ASSUME StoreInv, NEW c \in Calls, Begin(c)
  PROVE  StoreInv'
<1> USE StoreAssumption DEF StoreInv, Begin, LockFree
<1>1. StoreShape'
  BY DEF StoreShape
<1>2. Exclusive' /\ Settled'
  BY DEF StoreShape, Exclusive, Settled
<1>3. Untouched'
  BY DEF Untouched
<1>4. Follows'
  <2>1. wrote[c] = Clean /\ seen[c] = Unread
    BY DEF Untouched, Settled
  <2>2. lock' = c /\ view' = db /\ db' = db /\ wrote' = wrote /\ seen' = seen
    OBVIOUS
  <2> QED
    BY <2>1, <2>2 DEF Follows, Clean, Unread, A!Allowed, A!Written
<1>5. Doomed'
  BY DEF Doomed
<1> QED
  BY <1>1, <1>2, <1>3, <1>4, <1>5

LEMMA BeginFailsInv ==
  ASSUME StoreInv, NEW c \in Calls, BeginFails(c)
  PROVE  StoreInv'
<1> USE StoreAssumption DEF StoreInv, BeginFails, body
<1>1. StoreShape'
  BY DEF StoreShape
<1>2. Exclusive' /\ Settled'
  BY DEF StoreShape, Exclusive, Settled
<1>3. Untouched' /\ Follows' /\ Doomed'
  BY DEF StoreShape, Untouched, Follows, Doomed, Settled
<1> QED
  BY <1>1, <1>2, <1>3

(***************************************************************************)
(* The body, which only the holder of the lock is in.                      *)
(***************************************************************************)
LEMMA GetInv ==
  ASSUME StoreInv, NEW c \in Calls, NEW k \in Keys, Get(c, k)
  PROVE  StoreInv'
<1> USE DEF StoreInv, Get, control
<1>1. lock = c /\ c # None
  BY StoreAssumption DEF Exclusive
<1>2. StoreShape' /\ Exclusive' /\ Settled' /\ Doomed'
  BY DEF StoreShape, Exclusive, Settled, Doomed
<1>3. Untouched'
  BY <1>1 DEF StoreShape, Untouched
<1>4. Follows'
  <2> SUFFICES ASSUME NEW j \in Keys, wrote[c][j] = "keep", seen'[c][j] # None PROVE seen'[c][j] = db[j]
    BY <1>1 DEF Follows
  <2>1. CASE j = k
    BY <1>1, <2>1 DEF StoreShape, Follows, A!Written
  <2>2. CASE j # k
    BY <1>1, <2>2 DEF StoreShape, Follows
  <2> QED
    BY <2>1, <2>2
<1> QED
  BY <1>2, <1>3, <1>4

LEMMA WritesInv ==
  ASSUME StoreInv, NEW c \in Calls, NEW k \in Keys, pc[c] = "body", wrote[c][k] = "keep",
         NEW how \in {"put", "insert", "delete"}, NEW version \in Nat, Writes(c, k, how, version),
         A!Allowed(how, db[k]) /\ version = A!Written(how, db[k])
  PROVE  StoreInv'
<1> USE DEF StoreInv, Writes, control
<1>1. lock = c /\ c # None
  BY StoreAssumption DEF Exclusive
<1>2. StoreShape' /\ Exclusive' /\ Settled' /\ Doomed'
  BY DEF StoreShape, Exclusive, Settled, Doomed
<1>3. Untouched'
  BY <1>1 DEF StoreShape, Untouched
<1>4. Follows'
  <2> SUFFICES ASSUME NEW j \in Keys
               PROVE  /\ A!Allowed(wrote'[c][j], db[j])
                      /\ view'[j] = A!Written(wrote'[c][j], db[j])
                      /\ wrote'[c][j] = "keep" /\ seen[c][j] # None => seen[c][j] = db[j]
    BY <1>1 DEF Follows
  <2>1. CASE j = k
    BY <1>1, <2>1 DEF StoreShape
  <2>2. CASE j # k
    BY <1>1, <2>2 DEF StoreShape, Follows
  <2> QED
    BY <2>1, <2>2
<1> QED
  BY <1>2, <1>3, <1>4

\* A failed operation or nested call, or one more or less of them.
LEMMA FailsInv ==
  ASSUME StoreInv, NEW c \in Calls, pc[c] = "body",
         UNCHANGED <<db, control, view, seen, wrote, outcome>>,
         \/ UNCHANGED <<doomed, failed>>
         \/ doomed' = doomed \cup {c} /\ failed' = failed \cup {c}
  PROVE  StoreInv'
<1> USE DEF StoreInv, control
<1>1. StoreShape' /\ Exclusive' /\ Settled' /\ Untouched' /\ Follows'
  BY DEF StoreShape, Exclusive, Settled, Untouched, Follows
<1>2. Doomed'
  BY DEF Doomed, Settled
<1> QED
  BY <1>1, <1>2

LEMMA OperationInv ==
  ASSUME StoreInv, NEW c \in Calls, Operation(c)
  PROVE  StoreInv'
<1> USE DEF Fails, Doom
<1>1. ASSUME NEW k \in Keys, pc[c] = "body"
      PROVE  /\ view[k] \in Nat /\ db[k] \in Nat
             /\ wrote[c][k] = "keep" => view[k] = db[k]
             /\ wrote[c][k] = "keep" /\ seen[c][k] # None => seen[c][k] = db[k]
  <2>1. lock = c /\ c # None
    BY <1>1, StoreAssumption DEF StoreInv, Exclusive
  <2> QED
    BY <2>1 DEF StoreInv, StoreShape, Follows, A!Written
<1>2. ASSUME NEW k \in Keys, Put(c, k) PROVE StoreInv'
  <2>1. CASE view[k] > 0 /\ seen[c][k] # None /\ Writes(c, k, "put", seen[c][k] + 1)
    <3>1. pc[c] = "body" /\ wrote[c][k] = "keep" /\ seen[c][k] = db[k] /\ db[k] \in Nat /\ db[k] > 0
      BY <1>1, <1>2, <2>1 DEF Put
    <3>2. A!Allowed("put", db[k]) /\ seen[c][k] + 1 = A!Written("put", db[k]) /\ seen[c][k] + 1 \in Nat
      BY <3>1 DEF A!Allowed, A!Written
    <3> QED
      BY <2>1, <3>1, <3>2, WritesInv
  <2>2. CASE Fails(c) /\ UNCHANGED depth
    BY <1>2, <2>2, FailsInv DEF Put
  <2> QED
    BY <1>2, <2>1, <2>2 DEF Put
<1>3. ASSUME NEW k \in Keys, Insert(c, k) PROVE StoreInv'
  <2>1. CASE view[k] = 0 /\ Writes(c, k, "insert", 1)
    <3>1. pc[c] = "body" /\ wrote[c][k] = "keep" /\ db[k] = 0
      BY <1>1, <1>3, <2>1 DEF Insert
    <3>2. A!Allowed("insert", db[k]) /\ 1 = A!Written("insert", db[k])
      BY <3>1 DEF A!Allowed, A!Written
    <3> QED
      BY <2>1, <3>1, <3>2, WritesInv
  <2>2. CASE Fails(c) /\ UNCHANGED depth
    BY <1>3, <2>2, FailsInv DEF Insert
  <2> QED
    BY <1>3, <2>1, <2>2 DEF Insert
<1>4. ASSUME NEW k \in Keys, Delete(c, k) PROVE StoreInv'
  <2>1. A!Allowed("delete", db[k]) /\ 0 = A!Written("delete", db[k])
    BY DEF A!Allowed, A!Written
  <2> QED
    BY <1>4, <2>1, WritesInv DEF Delete
<1>5. CASE Join(c) \/ Leave(c) \/ LeaveThrowing(c)
  BY <1>5, FailsInv DEF Join, Leave, LeaveThrowing
<1> QED
  BY <1>2, <1>3, <1>4, <1>5, GetInv DEF Operation

(***************************************************************************)
(* The end of a transaction.                                               *)
(***************************************************************************)
LEMMA EndInv ==
  ASSUME StoreInv, NEW c \in Calls, pc[c] = "body", NEW result \in {"committed", "failed"},
         End(c, result), db' \in [Keys -> Nat], result = "committed" => c \notin doomed
  PROVE  StoreInv'
<1> USE DEF StoreInv, End, Forget
<1>1. lock = c /\ c # None
  BY StoreAssumption DEF Exclusive
<1>2. StoreShape'
  BY <1>1 DEF StoreShape
<1>3. Exclusive' /\ Settled'
  BY <1>1, StoreAssumption DEF StoreShape, Exclusive, Settled
<1>4. Untouched'
  BY <1>1 DEF StoreShape, Untouched, Clean, Unread
<1>5. Follows'
  BY DEF Follows
<1>6. Doomed'
  BY DEF StoreShape, Doomed, Settled
<1> QED
  BY <1>2, <1>3, <1>4, <1>5, <1>6

LEMMA EndsInv ==
  ASSUME StoreInv, NEW c \in Calls, Ends(c) \/ Reenter(c)
  PROVE  StoreInv'
<1>1. db \in [Keys -> Nat] /\ view \in [Keys -> Nat]
  BY DEF StoreInv, StoreShape
<1> QED
  BY <1>1, EndInv DEF Ends, Throw, Return, Reenter

LEMMA CrashInv ==
  ASSUME StoreInv, NEW p \in Processes, CrashProcess(p)
  PROVE  StoreInv'
<1> DEFINE lost == {c \in DOMAIN pc : Process[c] = p /\ pc[c] \notin {"idle", "over"}}
<1>1. /\ pc' = [c \in Calls \cup Readers |-> IF c \in lost THEN "over" ELSE pc[c]]
      /\ outcome' = [c \in Calls |->
           IF c \in lost /\ outcome[c] = "pending" THEN "failed" ELSE outcome[c]]
      /\ lock' = IF lock \in lost THEN None ELSE lock
      /\ Forget(lost)
      /\ db' = db /\ failed' = failed
  BY DEF CrashProcess
<1>2. \A c \in lost : pc[c] # "idle"
  OBVIOUS
<1>3. None \notin lost
  BY StoreAssumption DEF StoreInv, StoreShape
<1> HIDE DEF lost
<1> USE DEF StoreInv, Forget
<1>4. StoreShape'
  BY <1>1 DEF StoreShape
<1>5. Exclusive' /\ Settled'
  BY <1>1, <1>2, <1>3, StoreAssumption DEF StoreShape, Exclusive, Settled
<1>6. Untouched'
  BY <1>1, <1>5 DEF StoreShape, Untouched, Clean, Unread
<1>7. Follows'
  BY <1>1, <1>3 DEF Follows, StoreShape
<1>8. Doomed'
  BY <1>1 DEF StoreShape, Doomed
<1> QED
  BY <1>4, <1>5, <1>6, <1>7, <1>8

LEMMA NextInv ==
  ASSUME StoreInv, [StoreNext]_storeVars
  PROVE  StoreInv'
<1>1. CASE UNCHANGED storeVars
  BY <1>1 DEF storeVars, control, body, StoreInv, StoreShape, Exclusive, Settled, Untouched, Follows, Doomed
<1>2. ASSUME NEW x \in Calls \cup Readers, Arrive(x) PROVE StoreInv'
  <2>1. Moves(x, {"idle"}, "queued")
    BY <1>2 DEF Arrive, Moves
  <2> QED
    BY <2>1, MovesInv
<1>3. ASSUME NEW c \in Calls, Release(c) PROVE StoreInv'
  <2>1. Moves(c, {"ending"}, "over")
    BY <1>3 DEF Release, Moves
  <2> QED
    BY <2>1, MovesInv
<1>4. ASSUME NEW r \in Readers, RootRead(r) PROVE StoreInv'
  <2>1. Moves(r, {"queued"}, "over")
    BY <1>4 DEF RootRead, Moves
  <2> QED
    BY <2>1, MovesInv
<1> QED
  BY <1>1, <1>2, <1>3, <1>4, BeginInv, BeginFailsInv, OperationInv, EndsInv, CrashInv DEF StoreNext, Call

(***************************************************************************)
(* Every step is one of the specification of atomic calls, or none of it:  *)
(* committing is the instant at which the whole call takes effect.         *)
(***************************************************************************)
Effect == [c \in Calls |-> IF outcome[c] = "committed" THEN wrote[c] ELSE Clean]

AtomicVars == <<db, outcome, Effect>>

LEMMA CommitSimulates ==
  ASSUME StoreInv, NEW c \in Calls, pc[c] = "body", End(c, "committed"), db' = view
  PROVE  A!Commit(c)
<1> USE DEF StoreInv
<1>1. lock = c /\ c # None /\ outcome[c] = "pending"
  BY StoreAssumption DEF Exclusive, Settled
<1>2. outcome' = [outcome EXCEPT ![c] = "committed"]
  BY DEF End
<1>3. wrote' = wrote
  <2>1. wrote' = [d \in Calls |-> IF d \in {c} /\ outcome'[d] # "committed" THEN Clean ELSE wrote[d]]
    BY DEF End, Forget, Clean
  <2> QED
    BY <1>2, <2>1 DEF StoreShape
<1>4. wrote[c] \in [Keys -> A!Writes]
  BY DEF StoreShape, A!Writes
<1>5. \A k \in Keys : A!Allowed(wrote[c][k], db[k])
  BY <1>1 DEF Follows
<1>6. db' = [k \in Keys |-> A!Written(wrote[c][k], db[k])]
  BY <1>1 DEF Follows, StoreShape
<1>7. Effect' = [Effect EXCEPT ![c] = wrote[c]]
  BY <1>2, <1>3 DEF Effect, StoreShape
<1> QED
  BY <1>1, <1>2, <1>4, <1>5, <1>6, <1>7 DEF A!Commit, Effect, Clean

LEMMA FailSimulates ==
  ASSUME StoreInv, NEW cs \in SUBSET Calls, \A c \in cs : outcome[c] = "pending",
         outcome' = [c \in Calls |-> IF c \in cs THEN "failed" ELSE outcome[c]],
         db' = db, \A c \in Calls : outcome[c] = "committed" => wrote'[c] = wrote[c]
  PROVE  A!Fail(cs)
<1>1. \A c \in Calls : outcome'[c] = "committed" <=> outcome[c] = "committed"
  BY DEF StoreInv, StoreShape
<1>2. Effect' = Effect
  BY <1>1 DEF Effect
<1> QED
  BY <1>2 DEF A!Fail, Effect, Clean

LEMMA EndFailsSimulates ==
  ASSUME StoreInv, NEW c \in Calls, pc[c] = "body", End(c, "failed"), db' = db
  PROVE  A!Fail({c})
<1>1. outcome[c] = "pending"
  BY DEF StoreInv, Settled
<1>2. outcome' = [d \in Calls |-> IF d \in {c} THEN "failed" ELSE outcome[d]]
  BY DEF End, StoreInv, StoreShape
<1>3. \A d \in Calls : outcome[d] = "committed" => wrote'[d] = wrote[d]
  BY <1>1 DEF End, Forget
<1> QED
  BY <1>1, <1>2, <1>3, FailSimulates

LEMMA CrashSimulates ==
  ASSUME StoreInv, NEW p \in Processes, CrashProcess(p)
  PROVE  \E cs \in SUBSET Calls : A!Fail(cs)
<1> DEFINE lost == {c \in DOMAIN pc : Process[c] = p /\ pc[c] \notin {"idle", "over"}}
           cs == {c \in Calls : c \in lost /\ outcome[c] = "pending"}
<1>1. /\ outcome' = [c \in Calls |->
           IF c \in lost /\ outcome[c] = "pending" THEN "failed" ELSE outcome[c]]
      /\ Forget(lost)
      /\ db' = db
  BY DEF CrashProcess
<1> HIDE DEF lost
<1>2. outcome' = [c \in Calls |-> IF c \in cs THEN "failed" ELSE outcome[c]]
  BY <1>1
<1>3. \A c \in Calls : outcome[c] = "committed" => wrote'[c] = wrote[c]
  BY <1>1 DEF Forget
<1>4. A!Fail(cs)
  BY <1>1, <1>2, <1>3, FailSimulates
<1> QED
  BY <1>4

LEMMA BodySimulates ==
  ASSUME StoreInv, NEW c \in Calls, Operation(c)
  PROVE  UNCHANGED <<db, outcome>> /\ Effect' = Effect
<1>1. pc[c] = "body"
  BY DEF Operation, Get, Put, Insert, Delete, Join, Leave, LeaveThrowing
<1>2. outcome[c] = "pending"
  BY <1>1 DEF StoreInv, Settled
<1>3. UNCHANGED <<db, outcome>> /\ (wrote' = wrote \/ \E k \in Keys : \E how : wrote' = [wrote EXCEPT ![c][k] = how])
  BY DEF Operation, Get, Put, Insert, Delete, Join, Leave, LeaveThrowing, Writes, Fails
<1> QED
  BY <1>2, <1>3 DEF Effect, StoreInv, StoreShape

LEMMA NextSimulates ==
  ASSUME StoreInv, [StoreNext]_storeVars
  PROVE  A!Next \/ (UNCHANGED <<db, outcome>> /\ Effect' = Effect)
<1>1. ASSUME UNCHANGED <<db, outcome, wrote>> PROVE Effect' = Effect
  BY <1>1 DEF Effect
<1>2. ASSUME NEW c \in Calls, BeginFails(c) PROVE A!Next
  <2>1. outcome[c] = "pending"
    BY <1>2 DEF BeginFails, StoreInv, Settled
  <2>2. outcome' = [d \in Calls |-> IF d \in {c} THEN "failed" ELSE outcome[d]]
    BY <1>2 DEF BeginFails, StoreInv, StoreShape
  <2>3. A!Fail({c})
    BY <1>2, <2>1, <2>2, FailSimulates DEF BeginFails, body
  <2> QED
    BY <2>3 DEF A!Next
<1>3. ASSUME NEW c \in Calls, Ends(c) \/ Reenter(c) PROVE A!Next
  <2>1. A!Commit(c) \/ A!Fail({c})
    BY <1>3, CommitSimulates, EndFailsSimulates DEF Ends, Throw, Return, Reenter
  <2> QED
    BY <2>1 DEF A!Next
<1>4. ASSUME NEW p \in Processes, CrashProcess(p) PROVE A!Next
  BY <1>4, CrashSimulates DEF A!Next
<1>5. CASE UNCHANGED storeVars
  BY <1>1, <1>5 DEF storeVars, body
<1>6. ASSUME NEW c \in Calls \cup Readers, Arrive(c) \/ Begin(c) \/ Release(c) \/ RootRead(c)
      PROVE  UNCHANGED <<db, outcome, wrote>>
  BY <1>6 DEF Arrive, Begin, Release, RootRead, body
<1> QED
  BY <1>1, <1>2, <1>3, <1>4, <1>5, <1>6, BodySimulates DEF StoreNext, Call

LEMMA InitSimulates == ASSUME StoreInit PROVE A!Init
  BY DEF StoreInit, A!Init, A!NoEffect

\* Calls of the store are atomic, and a failure they swallowed keeps all they
\* wrote out of the database.
THEOREM StoreIsAtomic == StoreSpec => ImplementsAtomic
<1>1. StoreInit => StoreInv /\ A!Init
  BY StoreInitInv, InitSimulates
<1>2. StoreInv /\ [StoreNext]_storeVars => StoreInv'
  BY NextInv
<1>3. StoreInv /\ [StoreNext]_storeVars => [A!Next]_AtomicVars
  BY NextSimulates DEF AtomicVars
<1>4. StoreInv => SwallowedFailureAborts
  BY DEF StoreInv, Doomed, SwallowedFailureAborts
<1> QED
  BY <1>1, <1>2, <1>3, <1>4, PTL DEF StoreSpec, ImplementsAtomic, A!Spec, AtomicVars, Effect, Clean

(***************************************************************************)
(* A read outside of a transaction has its turn only when no transaction   *)
(* of its process is open: whoever is in a body, or about to release the   *)
(* Mutex after it, is the head of the queue.                               *)
(***************************************************************************)

Line(x) == queue[Process[x]]

InLine(x) == \E i \in 1..Len(Line(x)) : Line(x)[i] = x

Queues ==
  /\ queue \in [Processes -> Seq(Calls \cup Readers)]
  /\ pooled \in BOOLEAN
  /\ got = [r \in Readers |-> got[r]]
  /\ ~pooled => \A x \in Calls \cup Readers :
       /\ pc[x] \in {"queued", "body", "ending"} => InLine(x)
       /\ pc[x] \in {"body", "ending"} => Head(Line(x)) = x

\* Whoever takes the place of the head was in line behind it.
LEMMA TailKeeps ==
  ASSUME NEW S, NEW s \in Seq(S), NEW x \in S, NEW i \in 1..Len(s), s[i] = x, Head(s) # x
  PROVE  /\ Tail(s) \in Seq(S)
         /\ \E j \in 1..Len(Tail(s)) : Tail(s)[j] = x
<1>1. s # <<>> /\ i # 1
  OBVIOUS
<1>2. Tail(s) \in Seq(S) /\ i - 1 \in 1..Len(Tail(s)) /\ Tail(s)[i - 1] = x
  BY <1>1
<1> QED
  BY <1>2

LEMMA AppendKeeps ==
  ASSUME NEW S, NEW s \in Seq(S), NEW x \in S
  PROVE  /\ Append(s, x) \in Seq(S)
         /\ \E j \in 1..Len(Append(s, x)) : Append(s, x)[j] = x
         /\ \A y \in S : (\E i \in 1..Len(s) : s[i] = y)
              => (\E j \in 1..Len(Append(s, x)) : Append(s, x)[j] = y) /\ Head(Append(s, x)) = Head(s)
<1>1. Append(s, x) \in Seq(S) /\ Len(Append(s, x)) = Len(s) + 1 /\ Append(s, x)[Len(s) + 1] = x
  OBVIOUS
<1>2. \A i \in 1..Len(s) : Append(s, x)[i] = s[i]
  OBVIOUS
<1> QED
  BY <1>1, <1>2

LEMMA ArriveQueues ==
  ASSUME StoreShape, Queues, NEW c \in Calls \cup Readers, Arrive(c)
  PROVE  Queues'
<1> USE StoreAssumption DEF Arrive, StoreShape, Queues
<1>1. got' = got /\ pooled' = pooled /\ pc' = [pc EXCEPT ![c] = "queued"]
  OBVIOUS
<1>2. CASE pooled
  BY <1>1, <1>2
<1>3. CASE ~pooled
  <2> DEFINE line == queue[Process[c]]
             longer == Append(line, c)
  <2>1. line \in Seq(Calls \cup Readers)
    OBVIOUS
  <2>2. queue' = [queue EXCEPT ![Process[c]] = longer]
    BY <1>3
  <2>3. /\ longer \in Seq(Calls \cup Readers)
        /\ \E j \in 1..Len(longer) : longer[j] = c
        /\ \A y \in Calls \cup Readers : (\E i \in 1..Len(line) : line[i] = y)
             => (\E j \in 1..Len(longer) : longer[j] = y) /\ Head(longer) = Head(line)
    <3>1. longer = Append(line, c)
      OBVIOUS
    <3> HIDE StoreAssumption DEF line, longer
    <3> QED
      BY <2>1, <3>1, AppendKeeps
  <2> HIDE DEF longer
  <2>4. queue' \in [Processes -> Seq(Calls \cup Readers)]
    BY <2>2, <2>3
  <2>5. ASSUME NEW x \in Calls \cup Readers, pc'[x] \in {"queued", "body", "ending"}
        PROVE  InLine(x)' /\ (pc'[x] \in {"body", "ending"} => Head(Line(x)') = x)
    <3>1. CASE x = c
      BY <1>1, <2>2, <2>3, <3>1 DEF InLine, Line
    <3>2. CASE x # c
      <4>1. pc[x] = pc'[x] /\ InLine(x) /\ (pc[x] \in {"body", "ending"} => Head(Line(x)) = x)
        BY <1>1, <1>3, <2>5, <3>2
      <4>2. CASE Process[x] = Process[c]
        BY <2>2, <2>3, <4>1, <4>2 DEF InLine, Line
      <4>3. CASE Process[x] # Process[c]
        BY <2>2, <4>1, <4>3 DEF InLine, Line
      <4> QED
        BY <4>2, <4>3
    <3> QED
      BY <3>1, <3>2
  <2> QED
    BY <1>1, <2>4, <2>5 DEF Line
<1> QED
  BY <1>2, <1>3

\* The head of the line leaves it and is over.
LEMMA LeaveQueues ==
  ASSUME StoreShape, Queues, NEW c \in Calls \cup Readers, pc[c] \in {"queued", "ending"},
         ~pooled => Head(Line(c)) = c,
         pc' = [pc EXCEPT ![c] = "over"], queue' = Released(c), pooled' = pooled,
         got' = [r \in Readers |-> got'[r]]
  PROVE  Queues'
<1> USE StoreAssumption DEF StoreShape, Queues
<1>1. CASE pooled
  BY <1>1 DEF Released
<1>2. CASE ~pooled
  <2> DEFINE line == queue[Process[c]]
             shorter == Tail(line)
  <2>1. line \in Seq(Calls \cup Readers) /\ Head(line) = c /\ line # <<>>
    BY <1>2 DEF Line, InLine
  <2>2. queue' = [queue EXCEPT ![Process[c]] = shorter]
    BY <1>2 DEF Released
  <2>3. shorter \in Seq(Calls \cup Readers)
    BY <2>1
  <2>4. ASSUME NEW x \in Calls \cup Readers, x # c, NEW i \in 1..Len(line), line[i] = x
        PROVE  \E j \in 1..Len(shorter) : shorter[j] = x
    BY <2>1, <2>4, TailKeeps
  <2> HIDE DEF shorter
  <2>5. queue' \in [Processes -> Seq(Calls \cup Readers)]
    BY <2>2, <2>3
  <2>6. ASSUME NEW x \in Calls \cup Readers, pc'[x] \in {"queued", "body", "ending"}
        PROVE  InLine(x)' /\ (pc'[x] \in {"body", "ending"} => Head(Line(x)') = x)
    <3>1. x # c /\ pc'[x] = pc[x]
      BY <2>6
    <3>2. InLine(x) /\ (pc[x] \in {"body", "ending"} => Head(Line(x)) = x)
      BY <1>2, <2>6, <3>1
    <3>3. CASE Process[x] = Process[c]
      <4>1. pc[x] \notin {"body", "ending"}
        BY <2>1, <3>1, <3>2, <3>3 DEF Line
      <4>2. queue'[Process[x]] = shorter
        BY <2>2, <3>3
      <4>3. \E j \in 1..Len(shorter) : shorter[j] = x
        <5>1. PICK i \in 1..Len(line) : line[i] = x
          BY <3>2, <3>3 DEF InLine, Line
        <5> QED
          BY <2>4, <3>1, <5>1
      <4>4. InLine(x)' <=> \E j \in 1..Len(queue'[Process[x]]) : queue'[Process[x]][j] = x
        BY DEF InLine, Line
      <4>5. pc'[x] \notin {"body", "ending"}
        BY <3>1, <4>1
      <4> QED
        BY <4>2, <4>3, <4>4, <4>5
    <3>4. CASE Process[x] # Process[c]
      BY <2>2, <3>1, <3>2, <3>4 DEF InLine, Line
    <3> QED
      BY <3>3, <3>4
  <2> QED
    BY <1>2, <2>5, <2>6 DEF Line
<1> QED
  BY <1>1, <1>2

\* The head of the line begins, or ends its body, and stays the head.
LEMMA StayQueues ==
  ASSUME StoreShape, Queues, NEW c \in Calls, pc[c] \in {"queued", "body"},
         ~pooled => Head(Line(c)) = c,
         NEW to \in {"body", "ending"}, pc' = [pc EXCEPT ![c] = to],
         UNCHANGED <<pooled, queue, got>>
  PROVE  Queues'
  BY StoreAssumption DEF StoreShape, Queues, Line, InLine

LEMMA CrashQueues ==
  ASSUME StoreShape, Queues, NEW p \in Processes, CrashProcess(p)
  PROVE  Queues'
<1> DEFINE lost == {c \in DOMAIN pc : Process[c] = p /\ pc[c] \notin {"idle", "over"}}
<1>1. /\ pc' = [c \in Calls \cup Readers |-> IF c \in lost THEN "over" ELSE pc[c]]
      /\ queue' = [queue EXCEPT ![p] = <<>>]
      /\ UNCHANGED <<pooled, got>>
  BY DEF CrashProcess
<1>2. \A x \in Calls \cup Readers : Process[x] = p /\ x \notin lost => pc[x] \in {"idle", "over"}
  BY DEF StoreShape
<1> HIDE DEF lost
<1>3. queue' \in [Processes -> Seq(Calls \cup Readers)]
  <2>1. <<>> \in Seq(Calls \cup Readers)
    OBVIOUS
  <2> QED
    BY <1>1, <2>1 DEF Queues
<1>4. ASSUME NEW x \in Calls \cup Readers, ~pooled, pc'[x] \in {"queued", "body", "ending"}
      PROVE  InLine(x)' /\ (pc'[x] \in {"body", "ending"} => Head(Line(x)') = x)
  <2>1. pc'[x] = pc[x] /\ Process[x] # p
    BY <1>1, <1>2, <1>4
  <2>2. Line(x)' = Line(x)
    BY <1>1, <2>1, StoreAssumption DEF Line, Queues
  <2> QED
    BY <1>4, <2>1, <2>2 DEF Queues, InLine
<1> QED
  BY <1>1, <1>3, <1>4 DEF Queues, Line

LEMMA NextQueues ==
  ASSUME StoreShape, Queues, [StoreNext]_storeVars
  PROVE  Queues'
<1>1. ASSUME UNCHANGED <<pooled, queue, pc, got>> PROVE Queues'
  BY <1>1 DEF Queues, InLine, Line
<1>2. ASSUME NEW c \in Calls, Begin(c) PROVE Queues'
  <2>1. ~pooled => Head(Line(c)) = c
    BY <1>2 DEF Begin, Turn, Line
  <2> QED
    BY <1>2, <2>1, StayQueues DEF Begin
<1>3. ASSUME NEW c \in Calls, NEW result, pc[c] = "body", End(c, result) PROVE Queues'
  <2>1. ~pooled => Head(Line(c)) = c
    BY <1>3 DEF Queues
  <2> QED
    BY <1>3, <2>1, StayQueues DEF End
<1>4. ASSUME NEW c \in Calls, Ends(c) \/ Reenter(c) PROVE Queues'
  BY <1>3, <1>4 DEF Ends, Throw, Return, Reenter
<1>5. ASSUME NEW c \in Calls, BeginFails(c) PROVE Queues'
  <2>1. ~pooled => Head(Line(c)) = c
    BY <1>5 DEF BeginFails, Turn, Line
  <2>2. got' = [r \in Readers |-> got'[r]]
    BY <1>5 DEF BeginFails, Queues
  <2> QED
    BY <1>5, <2>1, <2>2, LeaveQueues DEF BeginFails
<1>6. ASSUME NEW c \in Calls, Release(c) PROVE Queues'
  <2>1. ~pooled => Head(Line(c)) = c
    BY <1>6 DEF Release, Queues
  <2>2. got' = [r \in Readers |-> got'[r]]
    BY <1>6 DEF Release, Queues
  <2> QED
    BY <1>6, <2>1, <2>2, LeaveQueues DEF Release
<1>7. ASSUME NEW r \in Readers, RootRead(r) PROVE Queues'
  <2>1. ~pooled => Head(Line(r)) = r
    BY <1>7 DEF RootRead, Turn, Line
  <2>2. got' = [q \in Readers |-> got'[q]]
    BY <1>7 DEF RootRead, Queues
  <2> QED
    BY <1>7, <2>1, <2>2, LeaveQueues DEF RootRead
<1>8. ASSUME NEW c \in Calls, Operation(c) PROVE UNCHANGED <<pooled, queue, pc, got>>
  BY <1>8 DEF Operation, Get, Put, Insert, Delete, Join, Leave, LeaveThrowing, Writes, Fails, control
<1>9. CASE UNCHANGED storeVars
  BY <1>1, <1>9 DEF storeVars, control
<1> QED
  BY <1>1, <1>2, <1>4, <1>5, <1>6, <1>7, <1>8, <1>9, ArriveQueues, CrashQueues DEF StoreNext, Call

ReadsCommitted == \A r \in Readers : got'[r] # got[r] => got'[r] = db

LEMMA RootReadCommitted ==
  ASSUME StoreInv, Queues, NEW r \in Readers, RootRead(r)
  PROVE  ReadsCommitted
<1>1. got' = [q \in Readers |-> IF q = r THEN Connection(Process[r]) ELSE got[q]]
  BY DEF RootRead, Queues
<1>2. Connection(Process[r]) = db
  <2> SUFFICES ASSUME ~pooled, lock # None, Process[lock] = Process[r] PROVE FALSE
    BY DEF Connection
  <2>1. lock \in Calls /\ pc[lock] = "body"
    BY DEF StoreInv, StoreShape, Exclusive
  <2>2. Head(Line(lock)) = lock
    BY <2>1 DEF Queues
  <2>3. Head(Line(r)) = r
    BY DEF RootRead, Turn, Line
  <2> QED
    BY <2>1, <2>2, <2>3, StoreAssumption DEF Line
<1> QED
  BY <1>1, <1>2 DEF ReadsCommitted

\* Nobody reads what is not committed, although on SQLite all of a process
\* share the connection of whoever has a transaction open.
THEOREM ReadsAreCommitted == StoreSpec => NoDirtyRead
<1>1. StoreInit => StoreInv /\ Queues
  <2> SUFFICES ASSUME StoreInit PROVE Queues
    BY StoreInitInv
  <2>1. <<>> \in Seq(Calls \cup Readers)
    OBVIOUS
  <2> QED
    BY <2>1 DEF StoreInit, Queues
<1>2. StoreInv /\ Queues /\ [StoreNext]_storeVars => (StoreInv /\ Queues)'
  BY NextInv, NextQueues DEF StoreInv
<1>3. StoreInv /\ Queues /\ [StoreNext]_storeVars => ReadsCommitted \/ UNCHANGED storeVars
  <2> SUFFICES ASSUME StoreInv, Queues, StoreNext, ~\E r \in Readers : RootRead(r) PROVE got' = got
    BY RootReadCommitted DEF ReadsCommitted
  <2> QED
    BY DEF StoreNext, Call, Arrive, Begin, BeginFails, Release, Reenter, Operation, Get, Put, Insert, Delete,
           Join, Leave, LeaveThrowing, Writes, Fails, Ends, Throw, Return, End, CrashProcess
<1> QED
  BY <1>1, <1>2, <1>3, PTL DEF StoreSpec, NoDirtyRead, ReadsCommitted

(***************************************************************************)
(* Runs of a workflow: each step is committed once and in order, a run     *)
(* that was cancelled is left alone, and people are acted on when due.     *)
(***************************************************************************)
RunsShaped ==
  /\ run \in [Runs -> Records \cup {Nothing}]
  /\ worker \in [Workers -> [run : Runs \cup {Nothing}, at : {"free", "step", "failing"}]]
  /\ \A w \in Workers :
       worker[w].at # "free" => worker[w].run \in Runs /\ run[worker[w].run] # Nothing
  /\ performed \in [Runs -> Nat]

\* A run that is carried out has waited, and one that is cancelled is nobody's.
Claims ==
  \A r \in Runs : run[r] # Nothing =>
    /\ run[r].status = "running" => run[r].dueIn = 0
    /\ run[r].status = "cancelled" => run[r].token = Nothing

ActsAmong(n) == {i \in 1..n : Steps[i] = "act"}

Progress ==
  /\ \A r \in Runs : IF run[r] = Nothing THEN performed[r] = 0
                     ELSE performed[r] = Cardinality(ActsAmong(run[r].step))
  /\ early = FALSE

LEMMA ActsFinite ==
  ASSUME NEW n \in Nat
  PROVE  IsFiniteSet(ActsAmong(n)) /\ Cardinality(ActsAmong(n)) \in Nat
<1>1. IsFiniteSet(1..n)
  BY FS_Interval
<1>2. IsFiniteSet(ActsAmong(n))
  BY <1>1, FS_Subset DEF ActsAmong
<1> QED
  BY <1>2, FS_CardinalityType

\* One more step is one more act, or none.
LEMMA OneMoreStep ==
  ASSUME NEW n \in Nat
  PROVE  Cardinality(ActsAmong(n + 1)) =
           IF Steps[n + 1] = "act" THEN Cardinality(ActsAmong(n)) + 1 ELSE Cardinality(ActsAmong(n))
<1>1. CASE Steps[n + 1] = "act"
  <2>1. ActsAmong(n + 1) = ActsAmong(n) \cup {n + 1}
    BY <1>1 DEF ActsAmong
  <2>2. n + 1 \notin ActsAmong(n)
    BY DEF ActsAmong
  <2> QED
    BY <1>1, <2>1, <2>2, ActsFinite, FS_AddElement
<1>2. CASE Steps[n + 1] # "act"
  <2>1. ActsAmong(n + 1) = ActsAmong(n)
    BY <1>2 DEF ActsAmong
  <2> QED
    BY <1>2, <2>1
<1> QED
  BY <1>1, <1>2

LEMMA NoActYet == Cardinality(ActsAmong(0)) = 0
<1>1. ActsAmong(0) = {}
  BY DEF ActsAmong
<1> QED
  BY <1>1, FS_EmptySet

RunsInv == RunsShaped /\ Claims /\ Progress

\* What runs and workers are made of is all the invariant is about.
runVars == <<run, worker, performed, early>>

LEMMA SameInv == ASSUME RunsInv, UNCHANGED runVars PROVE RunsInv'
  BY DEF RunsInv, runVars, RunsShaped, Claims, Progress

LEMMA PendingShaped ==
  Pending \in Records /\ Pending # Nothing
<1>1. Pending \in Records
  BY WorkflowsAssumption DEF Pending, Records, Statuses
<1> QED
  BY <1>1, WorkflowsAssumption

\* Runs that start are pending, whoever starts them.
LEMMA StartInv ==
  ASSUME RunsInv, NEW new \in SUBSET Runs, \A r \in new : run[r] = Nothing,
         run' = [r \in Runs |-> IF r \in new THEN Pending ELSE run[r]],
         UNCHANGED <<worker, performed, early>>
  PROVE  RunsInv'
<1> USE DEF RunsInv
<1>1. RunsShaped'
  BY PendingShaped DEF RunsShaped
<1>2. Claims'
  BY PendingShaped DEF Claims, RunsShaped, Pending
<1>3. Progress'
  <2>1. Pending.step = 0
    BY DEF Pending
  <2> QED
    BY <2>1, PendingShaped, NoActYet DEF Progress, RunsShaped
<1> QED
  BY <1>1, <1>2, <1>3

\* A run changes its status or times, and a worker what it is at.
LEMMA MoveInv ==
  ASSUME RunsInv, NEW r \in Runs, run[r] # Nothing, NEW record \in Records,
         run' = [run EXCEPT ![r] = record], record.step = run[r].step,
         record.status = "running" => record.dueIn = 0,
         record.status = "cancelled" => record.token = Nothing,
         UNCHANGED <<performed, early>>,
         RunsShaped => worker' \in [Workers -> [run : Runs \cup {Nothing}, at : {"free", "step", "failing"}]],
         \A w \in Workers : worker'[w].at # "free" =>
           \/ worker'[w].run = r
           \/ worker'[w] = worker[w]
           \/ worker'[w].run = worker[w].run /\ worker[w].at # "free"
  PROVE  RunsInv'
<1> USE DEF RunsInv
<1>1. record # Nothing
  BY WorkflowsAssumption
<1>2. RunsShaped'
  BY <1>1 DEF RunsShaped
<1>3. Claims'
  BY <1>1 DEF Claims, RunsShaped
<1>4. Progress'
  BY <1>1 DEF Progress, RunsShaped
<1> QED
  BY <1>2, <1>3, <1>4

(***************************************************************************)
(* The steps of workers.                                                   *)
(***************************************************************************)
LEMMA UnclaimedRecord ==
  ASSUME NEW record \in Records, NEW status \in Statuses
  PROVE  /\ Unclaimed(record, status) \in Records
         /\ Unclaimed(record, status).step = record.step
         /\ Unclaimed(record, status).status = status
         /\ Unclaimed(record, status).dueIn = record.dueIn
         /\ Unclaimed(record, status).token = Nothing
  BY WorkflowsAssumption DEF Unclaimed, Records

LEMMA BusyRecord ==
  ASSUME RunsInv, NEW w \in Workers, worker[w].at # "free"
  PROVE  worker[w].run \in Runs /\ run[worker[w].run] # Nothing /\ run[worker[w].run] \in Records
  BY DEF RunsInv, RunsShaped

LEMMA FreeWorker ==
  ASSUME RunsInv, NEW w \in Workers, GoesFree(w)
  PROVE  /\ worker' \in [Workers -> [run : Runs \cup {Nothing}, at : {"free", "step", "failing"}]]
         /\ \A v \in Workers : worker'[v].at # "free" => worker'[v] = worker[v]
  BY DEF RunsInv, RunsShaped, GoesFree, Free

LEMMA IdleInv ==
  ASSUME RunsInv, NEW w \in Workers, GoesFree(w), UNCHANGED <<run, performed, early>>
  PROVE  RunsInv'
<1>1. RunsShaped'
  BY FreeWorker DEF RunsInv, RunsShaped
<1>2. Claims' /\ Progress'
  BY DEF RunsInv, Claims, Progress
<1> QED
  BY <1>1, <1>2 DEF RunsInv

LEMMA LengthType == Len(Steps) \in Nat /\ Lease \in Nat /\ Wait \in Nat
<1>1. Steps \in Seq({"act", "wait"}) /\ Lease \in Nat /\ Wait \in Nat
  BY WorkflowsAssumption
<1> QED
  BY <1>1

LEMMA ClaimInv ==
  ASSUME RunsInv, NEW w \in Workers, NEW r \in Runs, Claim(w, r)
  PROVE  RunsInv'
<1> DEFINE record == [run[r] EXCEPT !.status = "running", !.token = w, !.leaseFor = Lease]
<1>1. run[r] \in Records /\ run[r] # Nothing /\ run[r].dueIn = 0
  BY DEF Claim, Claimable, Active, RunsInv, RunsShaped
<1>2. record \in Records /\ record.step = run[r].step /\ record.dueIn = 0 /\ record.status = "running"
  BY <1>1, LengthType DEF Records, Statuses
<1>3. /\ run' = [run EXCEPT ![r] = record]
      /\ worker' = [worker EXCEPT ![w] = [run |-> r, at |-> "step"]]
      /\ UNCHANGED <<performed, early>>
  BY DEF Claim
<1> HIDE DEF record
<1>4. RunsShaped => worker' \in [Workers -> [run : Runs \cup {Nothing}, at : {"free", "step", "failing"}]]
  BY <1>3 DEF RunsShaped
<1>5. \A v \in Workers : worker'[v].at # "free" =>
        worker'[v].run = r \/ worker'[v] = worker[v] \/ (worker'[v].run = worker[v].run /\ worker[v].at # "free")
  BY <1>3 DEF RunsInv, RunsShaped
<1>6. record.status = "cancelled" => record.token = Nothing
  BY <1>2
<1> QED
  BY <1>1, <1>2, <1>3, <1>4, <1>5, <1>6, MoveInv

LEMMA ActInv ==
  ASSUME RunsInv, NEW w \in Workers, Act(w)
  PROVE  RunsInv'
<1> DEFINE r == worker[w].run
           record == Advanced(run[r])
           n == run[r].step
<1>1. /\ worker[w].at = "step" /\ run[r].status = "running" /\ n < Len(Steps) /\ Steps[n + 1] = "act"
      /\ run' = [run EXCEPT ![r] = record]
      /\ performed' = [performed EXCEPT ![r] = @ + 1]
      /\ early' = (early \/ run[r].dueIn > 0)
      /\ worker' = worker \/ worker' = [worker EXCEPT ![w].at = "failing"]
  BY DEF Act, Mine
<1>2. r \in Runs /\ run[r] # Nothing /\ run[r] \in Records
  BY <1>1, BusyRecord
<1>3. run[r].dueIn = 0 /\ n \in Nat
  BY <1>1, <1>2 DEF RunsInv, Claims, Records
<1>4. record \in Records /\ record.step = n + 1 /\ record.status = "running" /\ record.dueIn = 0
  <2>1. record = [run[r] EXCEPT !.step = n + 1, !.leaseFor = Lease]
    BY DEF Advanced
  <2>2. n + 1 \in 0..Len(Steps)
    BY <1>1, <1>3, LengthType
  <2> HIDE DEF n, record
  <2> QED
    BY <1>1, <1>2, <1>3, <2>1, <2>2, LengthType DEF Records
<1>5. record # Nothing
  BY <1>4, WorkflowsAssumption
<1>6. early' = FALSE
  <2>1. ~(run[r].dueIn > 0)
    BY <1>3
  <2>2. early = FALSE
    BY DEF RunsInv, Progress
  <2>3. early' = (early \/ run[r].dueIn > 0)
    BY <1>1
  <2> HIDE DEF r
  <2> QED
    BY ONLY <2>1, <2>2, <2>3
<1> HIDE DEF record
<1>7. RunsShaped'
  <2>1. worker' \in [Workers -> [run : Runs \cup {Nothing}, at : {"free", "step", "failing"}]]
    BY <1>1 DEF RunsInv, RunsShaped
  <2>2. \A v \in Workers : worker'[v].run = worker[v].run /\ (worker'[v].at # "free" => worker[v].at # "free")
    <3>1. CASE worker' = worker
      BY <3>1
    <3>2. CASE worker' = [worker EXCEPT ![w].at = "failing"]
      BY <1>1, <3>2 DEF RunsInv, RunsShaped
    <3> QED
      BY <1>1, <3>1, <3>2
  <2>3. run' \in [Runs -> Records \cup {Nothing}] /\ \A q \in Runs : run[q] # Nothing => run'[q] # Nothing
    BY <1>1, <1>2, <1>4, <1>5 DEF RunsInv, RunsShaped
  <2>4. performed' \in [Runs -> Nat]
    BY <1>1, <1>2 DEF RunsInv, RunsShaped
  <2> QED
    BY <2>1, <2>2, <2>3, <2>4 DEF RunsInv, RunsShaped
<1>8. Claims'
  BY <1>1, <1>2, <1>4 DEF RunsInv, RunsShaped, Claims
<1>9. Progress'
  <2>1. performed[r] = Cardinality(ActsAmong(n))
    BY <1>2 DEF RunsInv, Progress
  <2>2. Cardinality(ActsAmong(n + 1)) = Cardinality(ActsAmong(n)) + 1
    BY <1>1, <1>3, OneMoreStep
  <2>3. performed'[r] = Cardinality(ActsAmong(n + 1))
    BY <1>1, <1>2, <2>1, <2>2 DEF RunsInv, RunsShaped
  <2>4. ASSUME NEW q \in Runs, q # r PROVE run'[q] = run[q] /\ performed'[q] = performed[q]
    BY <1>1, <2>4 DEF RunsInv, RunsShaped
  <2>5. run'[r] = record
    BY <1>1, <1>2 DEF RunsInv, RunsShaped
  <2> QED
    BY <1>4, <1>5, <1>6, <2>3, <2>4, <2>5 DEF RunsInv, Progress
<1> QED
  BY <1>7, <1>8, <1>9 DEF RunsInv

\* A wait is a step, but no act.
LEMMA WaitInv ==
  ASSUME RunsInv, NEW w \in Workers, WaitStep(w)
  PROVE  RunsInv'
<1> DEFINE r == worker[w].run
           n == run[r].step
           left == Unclaimed(run[r], "waiting")
           record == [left EXCEPT !.step = @ + 1, !.dueIn = Wait]
<1>1. /\ worker[w].at = "step" /\ n < Len(Steps) /\ Steps[n + 1] = "wait" /\ GoesFree(w)
      /\ run' = [run EXCEPT ![r] = record] /\ UNCHANGED <<performed, early>>
  BY DEF WaitStep, Mine
<1>2. r \in Runs /\ run[r] # Nothing /\ run[r] \in Records /\ n \in Nat
  BY <1>1, BusyRecord DEF Records
<1>3. left \in Records /\ left.step = n /\ left.status = "waiting"
  BY <1>2, UnclaimedRecord DEF Statuses
<1> HIDE DEF left
<1>4. record \in Records /\ record.step = n + 1 /\ record.status = "waiting"
  <2>1. record = [left EXCEPT !.step = n + 1, !.dueIn = Wait]
    BY <1>3 DEF Records
  <2>2. n + 1 \in 0..Len(Steps)
    BY <1>1, <1>2, LengthType
  <2> HIDE DEF n, record
  <2> QED
    BY <1>3, <2>1, <2>2, LengthType DEF Records
<1>5. record # Nothing
  BY <1>4, WorkflowsAssumption
<1> HIDE DEF record
<1>6. RunsShaped'
  BY <1>1, <1>2, <1>4, <1>5, FreeWorker DEF RunsInv, RunsShaped
<1>7. Claims'
  BY <1>1, <1>2, <1>4 DEF RunsInv, RunsShaped, Claims
<1>8. Progress'
  <2>1. Cardinality(ActsAmong(n + 1)) = Cardinality(ActsAmong(n))
    BY <1>1, <1>2, OneMoreStep
  <2>2. performed[r] = Cardinality(ActsAmong(n)) /\ early' = FALSE
    BY <1>1, <1>2 DEF RunsInv, Progress
  <2>3. run'[r] = record
    BY <1>1, <1>2 DEF RunsInv, RunsShaped
  <2>4. \A q \in Runs : q # r => run'[q] = run[q]
    BY <1>1 DEF RunsInv, RunsShaped
  <2> HIDE DEF n, r
  <2> QED
    BY <1>1, <1>4, <1>5, <2>1, <2>2, <2>3, <2>4 DEF RunsInv, Progress
<1> QED
  BY <1>6, <1>7, <1>8 DEF RunsInv

LEMMA DoneInv ==
  ASSUME RunsInv, NEW w \in Workers, Complete(w) \/ MarkFailed(w)
  PROVE  RunsInv'
<1> DEFINE r == worker[w].run
<1> USE DEF Complete, MarkFailed
<1>1. r \in Runs /\ run[r] # Nothing /\ run[r] \in Records
  BY BusyRecord
<1>2. GoesFree(w) /\ UNCHANGED <<performed, early>>
  OBVIOUS
<1>3. CASE run' = run
  BY <1>2, <1>3, IdleInv
<1>4. ASSUME NEW status \in {"completed", "failed"}, run' = [run EXCEPT ![r] = Unclaimed(run[r], status)]
      PROVE  RunsInv'
  <2> DEFINE record == Unclaimed(run[r], status)
  <2>1. record \in Records /\ record.step = run[r].step /\ record.status = status
    BY <1>1, UnclaimedRecord DEF Statuses
  <2> HIDE DEF record
  <2> QED
    BY <1>1, <1>2, <1>4, <2>1, FreeWorker, MoveInv DEF record
<1> QED
  BY <1>3, <1>4

LEMMA WorkerInv ==
  ASSUME RunsInv, NEW w \in Workers, Lost(w) \/ StepFails(w) \/ Stop(w)
  PROVE  RunsInv'
<1>1. CASE Lost(w) \/ Stop(w)
  BY <1>1, IdleInv DEF Lost, Stop
<1>2. CASE StepFails(w)
  <2>1. /\ worker' \in [Workers -> [run : Runs \cup {Nothing}, at : {"free", "step", "failing"}]]
        /\ \A v \in Workers : worker'[v].run = worker[v].run /\ (worker'[v].at # "free" => worker[v].at # "free")
    BY <1>2 DEF StepFails, RunsInv, RunsShaped
  <2> QED
    BY <1>2, <2>1 DEF StepFails, RunsInv, RunsShaped, Claims, Progress
<1> QED
  BY <1>1, <1>2

LEMMA EditInv ==
  ASSUME RunsInv, NEW r \in Runs, Cancel(r) \/ Retry(r)
  PROVE  RunsInv'
<1>1. run[r] # Nothing /\ run[r] \in Records /\ UNCHANGED <<worker, performed, early>>
  BY DEF Cancel, Retry, RunsInv, RunsShaped
<1>2. CASE Cancel(r)
  <2> DEFINE record == Unclaimed(run[r], "cancelled")
  <2>1. record \in Records /\ record.step = run[r].step /\ record.status = "cancelled" /\ record.token = Nothing
    BY <1>1, UnclaimedRecord DEF Statuses
  <2>2. run' = [run EXCEPT ![r] = record]
    BY <1>2 DEF Cancel
  <2> HIDE DEF record
  <2> QED
    BY <1>1, <2>1, <2>2, MoveInv DEF RunsShaped
<1>3. CASE Retry(r)
  <2> DEFINE record == [run[r] EXCEPT !.status = "pending", !.dueIn = 0]
  <2>1. record \in Records /\ record.step = run[r].step /\ record.status = "pending"
    BY <1>1 DEF Records, Statuses
  <2>2. run' = [run EXCEPT ![r] = record]
    BY <1>3 DEF Retry
  <2> HIDE DEF record
  <2> QED
    BY <1>1, <2>1, <2>2, MoveInv DEF RunsShaped
<1> QED
  BY <1>2, <1>3

LEMMA TickInv ==
  ASSUME RunsInv, Tick
  PROVE  RunsInv'
<1> DEFINE older(r) == [run[r] EXCEPT !.dueIn = Less(@), !.leaseFor = Less(@)]
<1>1. ASSUME NEW r \in Runs, Active(r)
      PROVE  /\ older(r) \in Records /\ older(r) # Nothing /\ older(r).step = run[r].step
             /\ older(r).status = run[r].status /\ older(r).token = run[r].token
             /\ run[r].dueIn = 0 => older(r).dueIn = 0
  <2>1. run[r] \in Records
    BY <1>1 DEF Active, RunsInv, RunsShaped
  <2>2. Less(run[r].dueIn) \in Nat /\ Less(run[r].leaseFor) \in Nat /\ Less(0) = 0
    BY <2>1 DEF Less, Records
  <2> QED
    BY <2>1, <2>2, WorkflowsAssumption DEF Records
<1>2. run' = [r \in Runs |-> IF ~Active(r) THEN run[r] ELSE older(r)] /\ UNCHANGED <<worker, performed, early>>
  BY DEF Tick
<1> HIDE DEF older
<1>3. ASSUME NEW r \in Runs PROVE run'[r] = run[r] \/ (Active(r) /\ run'[r] = older(r))
  <2>1. CASE Active(r)
    BY <1>2, <2>1
  <2>2. CASE ~Active(r)
    BY <1>2, <2>2
  <2> QED
    BY <2>1, <2>2
<1>4. \A r \in Runs : Active(r) => run[r] # Nothing
  BY DEF Active
<1>5. RunsShaped'
  BY <1>1, <1>2, <1>4 DEF RunsInv, RunsShaped
<1>6. Claims'
  BY <1>1, <1>3, <1>4 DEF RunsInv, Claims
<1>7. Progress'
  BY <1>1, <1>2, <1>3, <1>4 DEF RunsInv, Progress
<1> QED
  BY <1>5, <1>6, <1>7 DEF RunsInv

LEMMA StartingInv ==
  ASSUME RunsInv, Evaluate \/ \E r \in Runs : StartManual(r)
  PROVE  RunsInv'
<1>1. CASE Evaluate
  <2>1. PICK admitted \in SUBSET Candidates, id \in [People -> Runs] :
          /\ \A p \in admitted : run[id[p]] = Nothing
          /\ run' = [r \in Runs |-> IF \E p \in admitted : id[p] = r THEN Pending ELSE run[r]]
    <3>1. PICK admitted \in SUBSET Candidates, id \in [People -> Runs] : Admit(admitted, id)
      BY <1>1 DEF Evaluate
    <3>2. /\ \A p \in admitted : run[id[p]] = Nothing
          /\ run' = [r \in Runs |-> IF \E p \in admitted : id[p] = r THEN Pending ELSE run[r]]
      BY <3>1 DEF Admit
    <3> QED
      BY <3>2
  <2> DEFINE new == {r \in Runs : \E p \in admitted : id[p] = r}
  <2>2. run' = [r \in Runs |-> IF r \in new THEN Pending ELSE run[r]] /\ \A r \in new : run[r] = Nothing
    BY <2>1
  <2>3. UNCHANGED <<worker, performed, early>>
    BY <1>1 DEF Evaluate
  <2> HIDE DEF new
  <2>4. new \in SUBSET Runs
    BY DEF new
  <2> QED
    BY <2>2, <2>3, <2>4, StartInv
<1>2. ASSUME NEW r \in Runs, StartManual(r) PROVE RunsInv'
  <2>1. run' = [q \in Runs |-> IF q \in {r} THEN Pending ELSE run[q]]
    BY <1>2 DEF StartManual, RunsInv, RunsShaped
  <2>2. \A q \in {r} : run[q] = Nothing
    BY <1>2 DEF StartManual
  <2> QED
    BY <1>2, <2>1, <2>2, StartInv DEF StartManual
<1> QED
  BY <1>1, <1>2

LEMMA RunsNextInv ==
  ASSUME RunsInv, [Next]_vars
  PROVE  RunsInv'
<1>1. CASE (\E p \in People : Change(p)) \/ Disable \/ Enable \/ NextDay \/ UNCHANGED vars
  <2>1. UNCHANGED runVars
    BY <1>1 DEF Change, Disable, Enable, NextDay, runs, vars, runVars
  <2> QED
    BY <2>1, SameInv
<1> QED
  BY <1>1, StartingInv, ClaimInv, ActInv, WaitInv, DoneInv, WorkerInv, EditInv, TickInv
     DEF Next, RunDue, Advance

LEMMA RunsInitInv ==
  ASSUME Init
  PROVE  RunsInv
<1>1. RunsShaped
  BY DEF Init, RunsShaped, Free
<1>2. Claims /\ Progress
  BY DEF Init, Claims, Progress
<1> QED
  BY <1>1, <1>2 DEF RunsInv

\* Whatever stops, fails, loses its lease or is retried, a run has carried out
\* the acts before its place, each once, and none before its wait was over.
THEOREM StepsAreDoneOnce == Spec => []StepsOnceInOrder
<1>1. Init => RunsInv
  BY RunsInitInv
<1>2. RunsInv /\ [Next]_vars => RunsInv'
  BY RunsNextInv
<1>3. RunsInv => StepsOnceInOrder
  BY DEF RunsInv, Progress, ActsAmong, StepsOnceInOrder
<1> QED
  BY <1>1, <1>2, <1>3, PTL DEF Spec

(***************************************************************************)
(* A cancelled run is nobody's, so that even a worker that is about to     *)
(* mark it as failed finds that it is not the worker's any more.           *)
(***************************************************************************)
Ended(r) == run[r] # Nothing /\ run[r].status = "cancelled"

LEMMA CancelledIsLeft ==
  ASSUME RunsInv, [Next]_vars
  PROVE  CancelledStep
<1> SUFFICES ASSUME NEW r \in Runs, Ended(r) PROVE run'[r] = run[r] /\ performed'[r] = performed[r]
  BY DEF CancelledStep, Ended
<1>1. ~Active(r) /\ run[r].token = Nothing /\ run[r] # Nothing
  BY DEF Ended, Active, RunsInv, Claims
<1>2. ASSUME NEW q \in Runs, q # r, NEW record, run' = [run EXCEPT ![q] = record] PROVE run'[r] = run[r]
  BY <1>2 DEF RunsInv, RunsShaped
<1>3. ASSUME NEW w \in Workers, Mine(w) PROVE worker[w].run # r
  BY <1>3 DEF Mine, Ended
<1>4. CASE (\E p \in People : Change(p)) \/ Disable \/ Enable \/ NextDay \/ UNCHANGED vars
  BY <1>4 DEF Change, Disable, Enable, NextDay, runs, vars
<1>5. CASE Evaluate
  <2>1. PICK admitted \in SUBSET Candidates, id \in [People -> Runs] : Admit(admitted, id)
    BY <1>5 DEF Evaluate
  <2>2. /\ \A p \in admitted : run[id[p]] = Nothing
        /\ run' = [q \in Runs |-> IF \E p \in admitted : id[p] = q THEN Pending ELSE run[q]]
    BY <2>1 DEF Admit
  <2>3. ~\E p \in admitted : id[p] = r
    BY <1>1, <2>2
  <2>4. run'[r] = run[r]
    BY <2>2, <2>3
  <2> QED
    BY <1>5, <2>4 DEF Evaluate
<1>6. ASSUME NEW q \in Runs, StartManual(q) \/ Cancel(q) \/ Retry(q)
      PROVE  run'[r] = run[r] /\ performed'[r] = performed[r]
  <2>1. q # r /\ performed' = performed
    BY <1>1, <1>6 DEF StartManual, Cancel, Retry, Ended
  <2>2. run'[r] = run[r]
    BY <1>6, <2>1 DEF StartManual, Cancel, Retry, RunsInv, RunsShaped
  <2> QED
    BY <2>1, <2>2
<1>7. CASE RunDue
  <2>1. PICK w \in Workers, q \in Runs : Claim(w, q)
    BY <1>7 DEF RunDue
  <2>2. q # r
    BY <1>1, <2>1 DEF Claim, Claimable
  <2> QED
    BY <2>1, <2>2 DEF Claim, RunsInv, RunsShaped
<1>8. ASSUME NEW w \in Workers, Advance(w) PROVE run'[r] = run[r] /\ performed'[r] = performed[r]
  <2>1. Mine(w) /\ worker[w].at = "step"
    BY <1>8 DEF Advance, Act, WaitStep, Complete
  <2>2. worker[w].run # r /\ worker[w].run \in Runs
    BY <1>3, <2>1, BusyRecord
  <2>3. \E record : run' = [run EXCEPT ![worker[w].run] = record]
    BY <1>8 DEF Advance, Act, WaitStep, Complete
  <2>4. performed' = performed \/ performed' = [performed EXCEPT ![worker[w].run] = @ + 1]
    BY <1>8 DEF Advance, Act, WaitStep, Complete
  <2>5. run'[r] = run[r]
    BY <1>2, <2>2, <2>3
  <2> QED
    BY <2>2, <2>4, <2>5 DEF RunsInv, RunsShaped
<1>9. ASSUME NEW w \in Workers, MarkFailed(w) PROVE run'[r] = run[r] /\ performed'[r] = performed[r]
  <2>1. worker[w].run \in Runs /\ performed' = performed
    BY <1>9, BusyRecord DEF MarkFailed
  <2>2. CASE worker[w].run = r
    BY <1>1, <1>9, <2>1, <2>2, WorkflowsAssumption DEF MarkFailed
  <2>3. CASE worker[w].run # r
    BY <1>9, <2>1, <2>3 DEF MarkFailed, RunsInv, RunsShaped
  <2> QED
    BY <2>1, <2>2, <2>3
<1>10. ASSUME NEW w \in Workers, Lost(w) \/ StepFails(w) \/ Stop(w)
       PROVE  run'[r] = run[r] /\ performed'[r] = performed[r]
  BY <1>10 DEF Lost, StepFails, Stop
<1>11. CASE Tick
  BY <1>1, <1>11 DEF Tick
<1> QED
  BY <1>4, <1>5, <1>6, <1>7, <1>8, <1>9, <1>10, <1>11 DEF Next

\* Once cancelled, a run does nothing more, whoever was executing it.
THEOREM CancelledIsFinal == Spec => CancelledStops
<1>1. Init => RunsInv
  BY RunsInitInv
<1>2. RunsInv /\ [Next]_vars => RunsInv'
  BY RunsNextInv
<1>3. RunsInv /\ [Next]_vars => CancelledStep
  BY CancelledIsLeft
<1> QED
  BY <1>1, <1>2, <1>3, PTL DEF Spec, CancelledStops

(***************************************************************************)
(* What starts by itself: a change that was not answered yet shows as a    *)
(* value other than the baseline, and the counter of the brake is the one  *)
(* of the day it was last used on.                                         *)
(***************************************************************************)
PeopleShaped ==
  /\ changed \in [People -> Nat] /\ fired \in [People -> Nat]
  /\ value = [p \in People |-> value[p]] /\ baseline = [p \in People |-> baseline[p]]

Unanswered ==
  \A p \in People :
    /\ fired[p] <= changed[p]
    /\ value[p] # baseline[p] => fired[p] < changed[p]

Braked ==
  /\ today \in Days /\ startedOn \in Nat /\ startedOn <= today
  /\ startedToday \in Nat /\ startedToday <= Brake
  /\ startedOnDay \in [Days -> Nat]
  /\ \A d \in Days : startedOnDay[d] <= Brake
  /\ \A d \in Days : d > startedOn => startedOnDay[d] = 0
  /\ startedOn = today => startedOnDay[today] = startedToday

StartsInv == PeopleShaped /\ Unanswered /\ Braked

LEMMA AdmittedFit ==
  ASSUME Braked, NEW admitted \in SUBSET Candidates, NEW id, Admit(admitted, id)
  PROVE  Cardinality(admitted) \in Nat /\ Cardinality(admitted) <= Allowance
<1>1. IsFiniteSet(Candidates) /\ Cardinality(Candidates) \in Nat
  <2>1. IsFiniteSet(People) /\ Candidates \subseteq People
    BY WorkflowsAssumption DEF Candidates
  <2> QED
    BY <2>1, FS_Subset, FS_CardinalityType
<1>2. Allowance \in Nat
  BY WorkflowsAssumption DEF Allowance, Braked
<1>3. Cardinality(admitted) = (IF Cardinality(Candidates) < Allowance THEN Cardinality(Candidates) ELSE Allowance)
  BY DEF Admit
<1> QED
  BY <1>1, <1>2, <1>3

LEMMA EvaluateStarts ==
  ASSUME StartsInv, Evaluate
  PROVE  StartsInv'
<1>1. PICK admitted \in SUBSET Candidates, id \in [People -> Runs] : Admit(admitted, id)
  BY DEF Evaluate
<1> DEFINE n == Cardinality(admitted)
           before == IF startedOn = today THEN startedToday ELSE 0
<1>2. n \in Nat /\ n <= Allowance
  BY <1>1, AdmittedFit DEF StartsInv
<1>3. /\ baseline' = [p \in People |-> IF p \in admitted THEN value[p] ELSE baseline[p]]
      /\ fired' = [p \in People |-> IF p \in admitted THEN fired[p] + 1 ELSE fired[p]]
      /\ startedToday' = before + n /\ startedOn' = today
      /\ startedOnDay' = [startedOnDay EXCEPT ![today] = @ + n]
  BY <1>1 DEF Admit, Acted
<1>4. UNCHANGED <<today, value, changed>>
  BY DEF Evaluate
<1> HIDE DEF n
<1>5. PeopleShaped'
  BY <1>3, <1>4 DEF StartsInv, PeopleShaped
<1>6. Unanswered'
  <2>1. \A p \in admitted : value[p] # baseline[p]
    BY DEF Candidates
  <2> SUFFICES ASSUME NEW p \in People
               PROVE  /\ fired'[p] <= changed'[p]
                      /\ value'[p] # baseline'[p] => fired'[p] < changed'[p]
    BY DEF Unanswered
  <2>2. /\ changed[p] \in Nat /\ fired[p] \in Nat /\ fired[p] <= changed[p]
        /\ value[p] # baseline[p] => fired[p] < changed[p]
    BY DEF StartsInv, PeopleShaped, Unanswered
  <2>3. CASE p \in admitted
    BY <1>3, <1>4, <2>1, <2>2, <2>3
  <2>4. CASE p \notin admitted
    BY <1>3, <1>4, <2>2, <2>4
  <2> QED
    BY <2>3, <2>4
<1>7. Braked'
  <2>1. before \in Nat /\ before + n <= Brake /\ startedOnDay[today] = before
    <3>1. CASE startedOn = today
      BY <1>2, <3>1, WorkflowsAssumption DEF StartsInv, Braked, Allowance
    <3>2. CASE startedOn # today
      <4>1. today \in Days /\ startedOn < today
        BY <3>2 DEF StartsInv, Braked, Days
      <4>2. before = 0 /\ startedOnDay[today] = 0 /\ Allowance = Brake
        BY <3>2, <4>1 DEF StartsInv, Braked, Days, Allowance
      <4> QED
        BY <1>2, <4>2, WorkflowsAssumption
    <3> QED
      BY <3>1, <3>2
  <2> HIDE DEF before
  <2>2. today \in Days /\ today \in Nat
    BY DEF StartsInv, Braked, Days
  <2>3. startedOnDay' \in [Days -> Nat] /\ startedOnDay'[today] = before + n
    BY <1>2, <1>3, <2>1, <2>2 DEF StartsInv, Braked
  <2>4. ASSUME NEW d \in Days, d # today
        PROVE  startedOnDay'[d] <= Brake /\ (d > today => startedOnDay'[d] = 0)
    BY <1>3, <2>2, <2>4 DEF StartsInv, Braked, Days
  <2> QED
    BY <1>2, <1>3, <1>4, <2>1, <2>2, <2>3, <2>4 DEF Braked
<1> QED
  BY <1>5, <1>6, <1>7 DEF StartsInv

LEMMA OthersStart ==
  ASSUME StartsInv, [Next]_vars, ~Evaluate
  PROVE  StartsInv'
<1> USE DEF StartsInv
<1>1. ASSUME UNCHANGED <<today, people>> PROVE StartsInv'
  BY <1>1 DEF people, PeopleShaped, Unanswered, Braked
<1>2. ASSUME NEW p \in People, Change(p) PROVE StartsInv'
  <2>1. PICK v \in Values \ {value[p]} : value' = [value EXCEPT ![p] = v]
    BY <1>2 DEF Change
  <2>2. changed' = [changed EXCEPT ![p] = @ + 1] /\ UNCHANGED <<baseline, fired>>
    BY <1>2 DEF Change
  <2>3. PeopleShaped' /\ Unanswered'
    BY <2>1, <2>2 DEF PeopleShaped, Unanswered
  <2>4. Braked'
    BY <1>2 DEF Change, Braked
  <2> QED
    BY <2>3, <2>4
<1>3. CASE Enable
  BY <1>3 DEF Enable, PeopleShaped, Unanswered, Braked
<1>4. CASE NextDay
  BY <1>4, WorkflowsAssumption DEF NextDay, people, PeopleShaped, Unanswered, Braked, Days
<1>5. CASE Disable \/ Tick \/ RunDue \/ UNCHANGED vars
  BY <1>1, <1>5 DEF Disable, Tick, RunDue, Claim, vars, people
<1>6. ASSUME NEW r \in Runs, StartManual(r) \/ Cancel(r) \/ Retry(r) PROVE StartsInv'
  BY <1>1, <1>6 DEF StartManual, Cancel, Retry
<1>7. ASSUME NEW w \in Workers, Advance(w) \/ Lost(w) \/ StepFails(w) \/ MarkFailed(w) \/ Stop(w) PROVE StartsInv'
  BY <1>1, <1>7 DEF Advance, Act, WaitStep, Complete, Lost, StepFails, MarkFailed, Stop
<1> QED
  BY <1>2, <1>3, <1>4, <1>5, <1>6, <1>7 DEF Next

\* One run for a change, and no more in a day than the brake allows.
THEOREM AutomaticStartsAreDue == Spec => []StartsAreDue
<1>1. Init => StartsInv
  BY WorkflowsAssumption DEF Init, StartsInv, PeopleShaped, Unanswered, Braked, Days
<1>2. StartsInv /\ [Next]_vars => StartsInv'
  BY EvaluateStarts, OthersStart
<1>3. StartsInv => StartsAreDue
  BY DEF StartsInv, Unanswered, Braked, StartsAreDue, OneRunPerChange, BrakeHolds
<1> QED
  BY <1>1, <1>2, <1>3, PTL DEF Spec

(***************************************************************************)
(* At-least-once dispatch to the subscribers of the marking process.       *)
(*                                                                         *)
(* DeliveredMeansHandled is not inductive: a row is marked because of what *)
(* a dispatch remembers having called, and it may be one of several on the *)
(* same row.  The invariant adds that a memory is true (Remembered): a     *)
(* dispatch has called for its current row only subscribers that handled   *)
(* it.                                                                     *)
(***************************************************************************)
Remembered ==
  \A r \in Dispatches : todo[r] # {} =>
    called[r] \subseteq Audience(r) /\ \A s \in called[r] : <<Current(r), s>> \in handled

\* DispatchTypeOK without the memories of the runs.
DispatchShape ==
  /\ row \in [Events -> {"none", "queued", "delivered", "deleted"}]
  /\ recorded \subseteq Events
  /\ \A e \in Events \ recorded : row[e] = "none"
  /\ handled \subseteq recorded \X Subscribers
  /\ todo \in [Dispatches -> SUBSET recorded]
  /\ called \in [Dispatches -> SUBSET Subscribers]
  /\ throws \in 0..MaxThrows /\ crashes \in 0..MaxCrashes

DispatchInv == DispatchShape /\ Remembered /\ DeliveredMeansHandled

\* The current row is the first of the list.
LEMMA CurrentIsListed ==
  ASSUME DispatchInv, NEW r \in Dispatches, todo[r] # {}
  PROVE  Current(r) \in todo[r]
<1>1. todo[r] \subseteq Nat
  BY DispatchAssumption DEF DispatchInv, DispatchShape
<1>2. PICK e \in todo[r] : \A f \in todo[r] : ~(<<f, e>> \in OpToRel(<, Nat))
  BY <1>1, WFMin, NatLessThanWellFounded, Zenon
<1>3. \A f \in todo[r] : ~(f < e)
  BY <1>1, <1>2, Zenon DEF OpToRel
<1>4. \A f \in todo[r] : e <= f
  BY <1>1, <1>3
<1> QED BY <1>4 DEF Current

\* A step of one run leaves what the others remember.
LEMMA OthersRemember ==
  ASSUME DispatchInv, NEW r \in Dispatches, handled \subseteq handled',
         NEW T, NEW C, todo' = [todo EXCEPT ![r] = T], called' = [called EXCEPT ![r] = C],
         T # {} => C = {} \/ (/\ T = todo[r] /\ C \subseteq Audience(r)
                              /\ \A s \in C : <<Current(r), s>> \in handled')
  PROVE  Remembered'
<1> SUFFICES ASSUME NEW q \in Dispatches, todo'[q] # {}, NEW s \in called'[q]
             PROVE  s \in Audience(q)' /\ <<Current(q)', s>> \in handled'
  BY DEF Remembered
<1>1. CASE q # r
  <2>1. todo'[q] = todo[q] /\ called'[q] = called[q]
    BY <1>1 DEF DispatchInv, DispatchShape
  <2>2. Current(q)' = Current(q) /\ Audience(q)' = Audience(q)
    BY <2>1 DEF Current, Audience, Local
  <2> QED BY <2>1, <2>2 DEF DispatchInv, Remembered
<1>2. CASE q = r
  <2>1. todo'[r] = T /\ called'[r] = C /\ T = todo[r]
    BY <1>2 DEF DispatchInv, DispatchShape
  <2>2. Current(r)' = Current(r) /\ Audience(r)' = Audience(r)
    BY <2>1 DEF Current, Audience, Local
  <2> QED BY <1>2, <2>1, <2>2
<1> QED BY <1>1, <1>2

\* What is delivered stays handled when nothing else gets delivered.
LEMMA DeliveredStays ==
  ASSUME DispatchInv, handled \subseteq handled',
         \A e \in Events : row'[e] \in {"delivered", "deleted"} => row[e] \in {"delivered", "deleted"}
  PROVE  DeliveredMeansHandled'
  BY DEF DispatchInv, DeliveredMeansHandled

LEMMA DispatchInitInv == DispatchInit => DispatchInv
  BY DispatchAssumption DEF DispatchInit, DispatchInv, DispatchShape, Remembered, DeliveredMeansHandled

LEMMA DispatchNextInv ==
  ASSUME DispatchInv, [DispatchNext]_dispatchVars
  PROVE  DispatchInv'
<1>1. ASSUME NEW e \in Events, NEW p \in Hosts, Record(e, p) PROVE DispatchInv'
  <2>1. DispatchShape' /\ Remembered'
    BY <1>1 DEF Record, DispatchInv, DispatchShape, Remembered, Current, Audience, Local
  <2>2. \A f \in Events : row'[f] \in {"delivered", "deleted"} => row[f] \in {"delivered", "deleted"}
    BY <1>1 DEF Record, DispatchInv, DispatchShape
  <2> QED BY <1>1, <2>1, <2>2, DeliveredStays DEF Record, DispatchInv
<1>2. ASSUME NEW r \in Dispatches, Scan(r) PROVE DispatchInv'
  <2>1. DispatchShape' /\ Remembered'
    BY <1>2, OthersRemember DEF Scan, DispatchInv, DispatchShape
  <2> QED BY <1>2, <2>1, DeliveredStays DEF Scan, DispatchInv
<1>3. ASSUME NEW r \in Dispatches, Handle(r) PROVE DispatchInv'
  <2>1. PICK s \in Audience(r) \ called[r] :
          /\ handled' = handled \cup {<<Current(r), s>>}
          /\ called' = [called EXCEPT ![r] = @ \cup {s}]
    BY <1>3 DEF Handle
  <2>2. todo' = todo /\ row' = row /\ todo[r] # {} /\ s \in Subscribers
    BY <1>3, <2>1 DEF Handle, Audience, Local
  <2>3. DispatchShape'
    <3>1. Current(r) \in recorded
      BY <2>2, CurrentIsListed DEF DispatchInv, DispatchShape
    <3>2. UNCHANGED <<recorded, throws, crashes>>
      BY <1>3 DEF Handle
    <3> QED BY <2>1, <2>2, <3>1, <3>2 DEF DispatchInv, DispatchShape
  <2>4. todo' = [todo EXCEPT ![r] = todo[r]] /\ called' = [called EXCEPT ![r] = called[r] \cup {s}]
    BY <2>1, <2>2 DEF DispatchInv, DispatchShape
  <2>5. \A x \in called[r] \cup {s} : <<Current(r), x>> \in handled'
    BY <2>1, <2>2 DEF DispatchInv, Remembered
  <2>6. Remembered'
    <3>1. called[r] \cup {s} \subseteq Audience(r)
      BY <2>1, <2>2 DEF DispatchInv, Remembered
    <3> QED BY <2>1, <2>4, <2>5, <3>1, OthersRemember
  <2> QED BY <2>1, <2>2, <2>3, <2>6, DeliveredStays DEF DispatchInv
<1>4. ASSUME NEW r \in Dispatches, HandlerThrows(r) PROVE DispatchInv'
  <2>1. /\ todo' = [todo EXCEPT ![r] = {}] /\ called' = [called EXCEPT ![r] = {}]
        /\ UNCHANGED <<row, recorded, handled, crashes>>
        /\ throws' = throws \/ (throws < MaxThrows /\ throws' = throws + 1)
    BY <1>4 DEF HandlerThrows, Remaining
  <2>2. throws' \in 0..MaxThrows
    BY <2>1, DispatchAssumption DEF DispatchInv, DispatchShape
  <2>3. DispatchShape'
    BY <2>1, <2>2 DEF DispatchInv, DispatchShape
  <2>4. Remembered'
    BY <2>1, OthersRemember
  <2> QED BY <2>1, <2>3, <2>4, DeliveredStays DEF DispatchInv
<1>5. ASSUME NEW r \in Dispatches, Mark(r) PROVE DispatchInv'
  <2>1. /\ todo' = [todo EXCEPT ![r] = todo[r] \ {Current(r)}]
        /\ called' = [called EXCEPT ![r] = {}] /\ handled' = handled
        /\ todo[r] # {} /\ Audience(r) \subseteq called[r]
    BY <1>5 DEF Mark, CalledForNext, AllCalled
  <2>2. DispatchShape'
    BY <1>5, <2>1 DEF Mark, DispatchInv, DispatchShape
  <2>3. Remembered'
    BY <2>1, OthersRemember
  <2>4. \A s \in Matches[Current(r)] \cap Local(HostOf[r]) : <<Current(r), s>> \in handled
    BY <2>1 DEF Audience, DispatchInv, Remembered
  <2>5. \A e \in Events \ {Current(r)} : row'[e] = row[e]
    BY <1>5 DEF Mark, DispatchInv, DispatchShape
  <2>6. HostOf[r] \in Hosts
    BY DispatchAssumption
  <2>7. DeliveredMeansHandled'
    <3> SUFFICES ASSUME NEW e \in Events, row'[e] \in {"delivered", "deleted"}
                 PROVE  \E p \in Hosts : \A s \in Matches[e] \cap Local(p) : <<e, s>> \in handled'
      BY DEF DeliveredMeansHandled, Local
    <3>1. CASE e = Current(r)
      BY <2>1, <2>4, <2>6, <3>1
    <3>2. CASE e # Current(r)
      BY <2>1, <2>5, <3>2 DEF DispatchInv, DeliveredMeansHandled
    <3> QED BY <3>1, <3>2
  <2> QED BY <2>2, <2>3, <2>7 DEF DispatchInv
<1>6. ASSUME NEW e \in Events, Sweep(e) PROVE DispatchInv'
  <2>1. DispatchShape' /\ Remembered'
    BY <1>6 DEF Sweep, DispatchInv, DispatchShape, Remembered, Current, Audience, Local
  <2>2. \A f \in Events : row'[f] \in {"delivered", "deleted"} => row[f] \in {"delivered", "deleted"}
    BY <1>6 DEF Sweep, DispatchInv, DispatchShape
  <2> QED BY <1>6, <2>1, <2>2, DeliveredStays DEF Sweep, DispatchInv
<1>7. ASSUME NEW p \in Hosts, Crash(p) PROVE DispatchInv'
  <2>1. \A r \in Dispatches : todo'[r] = {} \/ (todo'[r] = todo[r] /\ called'[r] = called[r])
    BY <1>7 DEF Crash
  <2>2. DispatchShape'
    <3>1. todo' \in [Dispatches -> SUBSET recorded] /\ called' \in [Dispatches -> SUBSET Subscribers]
      BY <1>7 DEF Crash, DispatchInv, DispatchShape
    <3>2. crashes' \in 0..MaxCrashes
      BY <1>7, DispatchAssumption DEF Crash, DispatchInv, DispatchShape
    <3> QED BY <1>7, <3>1, <3>2 DEF Crash, DispatchInv, DispatchShape
  <2>3. Remembered'
    <3> SUFFICES ASSUME NEW q \in Dispatches, todo'[q] # {}, NEW s \in called'[q]
                 PROVE  s \in Audience(q)' /\ <<Current(q)', s>> \in handled'
      BY DEF Remembered
    <3>1. todo'[q] = todo[q] /\ called'[q] = called[q] /\ handled' = handled
      BY <1>7, <2>1 DEF Crash
    <3>2. Current(q)' = Current(q) /\ Audience(q)' = Audience(q)
      BY <3>1 DEF Current, Audience, Local
    <3> QED BY <3>1, <3>2 DEF DispatchInv, Remembered
  <2> QED BY <1>7, <2>2, <2>3, DeliveredStays DEF Crash, DispatchInv
<1>8. CASE UNCHANGED dispatchVars
  <2>1. UNCHANGED <<row, recorded, handled, todo, called, throws, crashes>>
    BY <1>8 DEF dispatchVars
  <2>2. DispatchShape' /\ DeliveredMeansHandled'
    BY <2>1, DeliveredStays DEF DispatchInv, DispatchShape
  <2>3. Remembered'
    BY <2>1 DEF DispatchInv, Remembered, Current, Audience, Local
  <2> QED BY <2>2, <2>3 DEF DispatchInv
<1> QED BY <1>1, <1>2, <1>3, <1>4, <1>5, <1>6, <1>7, <1>8 DEF DispatchNext, DispatchStep

(* Every variable keeps its shape, only recorded events have rows, and a    *)
(* run has called only those its current row is for.                        *)
THEOREM DispatchTypes == DispatchSpec => []DispatchTypeOK
<1>1. DispatchInv => DispatchTypeOK
  BY DEF DispatchInv, DispatchShape, Remembered, DispatchTypeOK
<1> QED BY DispatchInitInv, DispatchNextInv, <1>1, PTL DEF DispatchSpec

(* A row leaves the queue only after every subscriber of the process that  *)
(* marks it has handled the event (dispatch in events.ts), whatever other  *)
(* runs, throwing handlers, crashes and the sweep do meanwhile.            *)
THEOREM MarkedMeansHandled == DispatchSpec => []DeliveredMeansHandled
<1>1. DispatchInv => DeliveredMeansHandled
  BY DEF DispatchInv
<1> QED BY DispatchInitInv, DispatchNextInv, <1>1, PTL DEF DispatchSpec
=============================================================================
