------------------------------- MODULE Atomic -------------------------------
(***************************************************************************)
(* What IamStore.transaction promises its callers (docs/extensions.md, the *)
(* conformance suite in packages/core/src/conformance.ts): a call takes    *)
(* effect at one instant, on the rows of that instant, or not at all.      *)
(***************************************************************************)
EXTENDS Naturals

CONSTANTS Calls, Keys

VARIABLES
  db,       \* key -> its row's version, 0 for no row
  outcome,  \* call -> pending, committed or failed
  effect    \* call -> key -> what the call did to the row

Writes == {"keep", "put", "insert", "delete"}

NoEffect == [k \in Keys |-> "keep"]

\* A put is a read-modify-write: the next version of the row there is.
Written(how, version) ==
  CASE how = "keep"   -> version
    [] how = "put"    -> version + 1
    [] how = "insert" -> 1
    [] how = "delete" -> 0

Allowed(how, version) ==
  /\ how = "put" => version > 0
  /\ how = "insert" => version = 0

Init ==
  /\ db \in [Keys -> {0, 1}]
  /\ outcome = [c \in Calls |-> "pending"]
  /\ effect = [c \in Calls |-> NoEffect]

Commit(c) ==
  /\ outcome[c] = "pending"
  /\ outcome' = [outcome EXCEPT ![c] = "committed"]
  /\ \E how \in [Keys -> Writes] :
       /\ \A k \in Keys : Allowed(how[k], db[k])
       /\ effect' = [effect EXCEPT ![c] = how]
       /\ db' = [k \in Keys |-> Written(how[k], db[k])]

\* One call throws, or several go with their process.
Fail(cs) ==
  /\ \A c \in cs : outcome[c] = "pending"
  /\ outcome' = [c \in Calls |-> IF c \in cs THEN "failed" ELSE outcome[c]]
  /\ UNCHANGED <<db, effect>>

Next == (\E c \in Calls : Commit(c)) \/ (\E cs \in SUBSET Calls : Fail(cs))

Spec == Init /\ [][Next]_<<db, outcome, effect>>
=============================================================================
