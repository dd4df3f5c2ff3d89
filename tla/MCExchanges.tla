---------------------------- MODULE MCExchanges ----------------------------
(***************************************************************************)
(* Instances of the exchanges between processes that must come to an end,  *)
(* for one run of TLC: transactions on the store, the dispatch of events,  *)
(* and the runs of a workflow: once their execution, once their start.     *)
(* They share no state, so a behaviour follows one of them and leaves the  *)
(* others alone.                                                           *)
(***************************************************************************)
EXTENDS Store, Workflows, EventDispatch, TLC

CONSTANTS
  Executed,       \* the runs where their execution is checked
  MaxStartEdits   \* MaxEdits where their start is checked

\* The last call has a process of its own; everybody else shares the other.
ProcessOf ==
  LET apart == CHOOSE p \in Processes : TRUE
      shared == CHOOSE p \in Processes : p # apart
  IN  [c \in Calls \cup Readers |-> IF ToString(c) = "c3" THEN apart ELSE shared]

\* Every subscriber, and every dispatch, is in the one process.
Home == CHOOSE p \in Hosts : TRUE
SubscribedAtHome == [s \in Subscribers |-> Home]
DispatchedAtHome == [r \in Dispatches |-> Home]

\* The last event matches only one subscriber.
LastMatchesOne == [e \in Events |-> IF e = 3 THEN {CHOOSE s \in Subscribers : TRUE} ELSE Subscribers]

ActWaitAct == <<"act", "wait", "act">>

ASSUME ExchangesAssumption ==
  /\ None \notin Nat /\ MaxDepth \in Nat
  /\ Poison \subseteq Events /\ Executed \subseteq Runs /\ Lease > 0
  /\ \A n \in {MaxFaults, MaxEdits, MaxChanges, MaxStartEdits} : n \in Nat

VARIABLE exchange  \* the one this behaviour is about

\* Those a behaviour is not about stay in one of their initial states.
ExchangeInit ==
  /\ exchange \in {"store", "dispatch", "work", "starts"}
  /\ StoreInit /\ DispatchInit /\ Init
  /\ exchange # "store" => ~pooled /\ \A k \in Keys : db[k] = 0
  /\ exchange # "starts" => value = [p \in People |-> CHOOSE v \in Values : TRUE]

\* Nobody's values change: the runs are started by hand.
WorkNext ==
  /\ Next
  /\ value' = value /\ today' = today
  /\ \A r \in Runs \ Executed : run'[r] = Nothing

\* Nobody executes what starts.
StartsNext == Next /\ worker' = worker /\ edits' <= MaxStartEdits

ExchangeNext ==
  \/ exchange = "store" /\ StoreNext /\ UNCHANGED <<exchange, dispatchVars, vars>>
  \/ exchange = "dispatch" /\ DispatchNext /\ UNCHANGED <<exchange, storeVars, vars>>
  \/ exchange = "work" /\ WorkNext /\ UNCHANGED <<exchange, storeVars, dispatchVars>>
  \/ exchange = "starts" /\ StartsNext /\ UNCHANGED <<exchange, storeVars, dispatchVars>>

\* The fairness each of the modules states, for behaviours that are about it.
ExchangeFairness ==
  /\ StoreFairness
  /\ \A r \in Dispatches : WF_dispatchVars(exchange = "dispatch" /\ DispatchStep(r))
  /\ WF_vars(exchange = "work" /\ Tick) /\ WF_vars(exchange = "work" /\ RunDue)
  /\ SF_vars(exchange = "work" /\ \E w \in Workers : Advance(w))
  /\ \A w \in Workers : WF_vars(exchange = "work" /\ (Lost(w) \/ MarkFailed(w)))

ExchangeSpec == ExchangeInit /\ [][ExchangeNext]_<<exchange, storeVars, dispatchVars, vars>> /\ ExchangeFairness

\* Every transaction ends, every event is handled, every run is executed.
EverythingEnds == EveryCallEnds /\ EventuallyHandled /\ (exchange = "work" => RunsEnd)
=============================================================================
