--------------------------- MODULE EventDispatch ----------------------------
(***************************************************************************)
(* Dispatch of audit events to in-process subscribers, plugins and onEvent *)
(* (packages/server/src/events.ts, fanOut and dispatch): a row of          *)
(* auditHooks per event, written with it, worked off by dispatch runs of   *)
(* any process and removed by the retention sweep.                         *)
(***************************************************************************)
EXTENDS Naturals, FiniteSets

CONSTANTS
  Events,       \* 1..n, in the order of their random ids
  Poison,       \* events some subscriber always throws on
  Hosts,
  Subscribers,
  Registered,   \* subscriber -> the process it is registered in
  Matches,      \* event -> the subscribers whose patterns match it
  Dispatches,   \* calls of dispatch
  HostOf,       \* dispatch -> its process
  MaxThrows,    \* bound on other throws
  MaxCrashes    \* bound on crashes of a process

ASSUME DispatchAssumption ==
  /\ Events \subseteq Nat /\ HostOf \in [Dispatches -> Hosts]
  /\ MaxThrows \in Nat /\ MaxCrashes \in Nat

VARIABLES
  row,      \* event -> none, queued, delivered or deleted
  recorded, \* events whose audit record is committed
  handled,  \* pairs of an event and a subscriber that handled it
  todo,     \* run -> rows of its list it has not come to the end of
  called,   \* run -> subscribers it has called for the first of them
  throws, crashes

dispatchVars == <<row, recorded, handled, todo, called, throws, crashes>>

DispatchInit ==
  /\ row = [e \in Events |-> "none"]
  /\ recorded = {} /\ handled = {}
  /\ todo = [r \in Dispatches |-> {}]
  /\ called = [r \in Dispatches |-> {}]
  /\ throws = 0 /\ crashes = 0

Local(p) == {s \in Subscribers : Registered[s] = p}

\* find sorts by id.
Current(r) == CHOOSE e \in todo[r] : \A f \in todo[r] : e <= f

\* Those the run calls for its current row: everybody here whose patterns match.
Audience(r) == Matches[Current(r)] \cap Local(HostOf[r])

\* fanOut: a row only if this process has anybody to tell.
Record(e, p) ==
  /\ e \notin recorded
  /\ recorded' = recorded \cup {e}
  /\ row' = [row EXCEPT ![e] = IF Local(p) # {} THEN "queued" ELSE "none"]
  /\ UNCHANGED <<handled, todo, called, throws, crashes>>

Scan(r) ==
  /\ todo[r] = {}
  /\ \E e \in Events : row[e] = "queued"
  /\ todo' = [todo EXCEPT ![r] = {e \in Events : row[e] = "queued"}]
  /\ called' = [called EXCEPT ![r] = {}]
  /\ UNCHANGED <<row, recorded, handled, throws, crashes>>

Handle(r) ==
  /\ todo[r] # {}
  /\ \E s \in Audience(r) \ called[r] :
       /\ Current(r) \notin Poison
       /\ handled' = handled \cup {<<Current(r), s>>}
       /\ called' = [called EXCEPT ![r] = @ \cup {s}]
  /\ UNCHANGED <<row, recorded, todo, throws, crashes>>

\* Mutant of Remaining: the run goes on with the row it threw on.
RemainingAll(r) == todo[r]

\* The rest of the list is dropped with the run.
Remaining(r) == {}

HandlerThrows(r) ==
  /\ todo[r] # {} /\ Audience(r) \ called[r] # {}
  /\ \/ Current(r) \in Poison /\ UNCHANGED throws
     \/ Current(r) \notin Poison /\ throws < MaxThrows /\ throws' = throws + 1
  /\ todo' = [todo EXCEPT ![r] = Remaining(r)]
  /\ called' = [called EXCEPT ![r] = {}]
  /\ UNCHANGED <<row, recorded, handled, crashes>>

CalledForNext(r) == {}

\* Mutant of AllCalled: the row is marked before its subscribers ran.
AllCalledAtOnce(r) == TRUE

AllCalled(r) == Audience(r) \subseteq called[r]

\* Re-read: another run may have marked the row, and the sweep deleted it.
Mark(r) ==
  /\ todo[r] # {} /\ AllCalled(r)
  /\ row' = [row EXCEPT ![Current(r)] = IF @ = "queued" THEN "delivered" ELSE @]
  /\ todo' = [todo EXCEPT ![r] = @ \ {Current(r)}]
  /\ called' = [called EXCEPT ![r] = CalledForNext(r)]
  /\ UNCHANGED <<recorded, handled, throws, crashes>>

Sweep(e) ==
  /\ row[e] = "delivered"
  /\ row' = [row EXCEPT ![e] = "deleted"]
  /\ UNCHANGED <<recorded, handled, todo, called, throws, crashes>>

Crash(p) ==
  /\ crashes < MaxCrashes
  /\ crashes' = crashes + 1
  /\ todo' = [r \in Dispatches |-> IF HostOf[r] = p THEN {} ELSE todo[r]]
  /\ called' = [r \in Dispatches |-> IF HostOf[r] = p THEN {} ELSE called[r]]
  /\ UNCHANGED <<row, recorded, handled, throws>>

DispatchStep(r) == Scan(r) \/ Handle(r) \/ HandlerThrows(r) \/ Mark(r)

DispatchNext ==
  \/ \E e \in Events, p \in Hosts : Record(e, p)
  \/ \E r \in Dispatches : DispatchStep(r)
  \/ \E e \in Events : Sweep(e)
  \/ \E p \in Hosts : Crash(p)

DispatchSpec == DispatchInit /\ [][DispatchNext]_dispatchVars

\* dispatch is scheduled again and again, and its handlers return.
DispatchFairSpec == DispatchSpec /\ \A r \in Dispatches : WF_dispatchVars(DispatchStep(r))

-----------------------------------------------------------------------------

\* Every variable keeps its shape; only recorded events have rows, and a run
\* has called only those its current row is for.
DispatchTypeOK ==
  /\ row \in [Events -> {"none", "queued", "delivered", "deleted"}]
  /\ recorded \subseteq Events
  /\ \A e \in Events \ recorded : row[e] = "none"
  /\ handled \subseteq recorded \X Subscribers
  /\ todo \in [Dispatches -> SUBSET recorded]
  /\ called \in [Dispatches -> SUBSET Subscribers]
  /\ \A r \in Dispatches : todo[r] # {} => called[r] \subseteq Audience(r)
  /\ throws \in 0..MaxThrows /\ crashes \in 0..MaxCrashes

\* At least once: a row leaves the queue only after every subscriber of the
\* dispatching process was called for it and returned, whatever other runs,
\* crashes and the sweep do meanwhile.
DeliveredMeansHandled ==
  \A e \in Events : row[e] \in {"delivered", "deleted"} =>
    \E p \in Hosts : \A s \in Matches[e] \cap Local(p) : <<e, s>> \in handled

\* "A handler that throws leaves its row queued for the next run": every event
\* is handled in the end, unless one before it in the order of ids throws
\* every time.
EventuallyHandled ==
  \A e \in Events :
    (\A f \in Poison : e < f) /\ e \in recorded ~> \A s \in Matches[e] : <<e, s>> \in handled
=============================================================================
