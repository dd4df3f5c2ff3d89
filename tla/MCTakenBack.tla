---------------------------- MODULE MCTakenBack ----------------------------
(***************************************************************************)
(* Instances of what is handed out and has to be taken back, for one run   *)
(* of TLC: the tokens of the OAuth provider when their session ends, and   *)
(* the credentials of a dynamic secret when their lease does.  They share  *)
(* no state, so a behaviour follows one of them and leaves the other alone.*)
(***************************************************************************)
EXTENDS OAuthGrants, VaultLeases

VARIABLE thing  \* the one this behaviour is about

TakenBackInit ==
  /\ thing \in {"tokens", "credentials"}
  /\ Init /\ LeasesInit
  /\ thing # "tokens" => binding = CHOOSE s \in Sessions : TRUE

TakenBackNext ==
  \/ thing = "tokens" /\ Next /\ UNCHANGED <<thing, leaseVars>>
  \/ thing = "credentials" /\ LeasesNext /\ UNCHANGED <<thing, vars>>

\* The fairness of the modules, for behaviours that are about them.
TakenBackFairness ==
  /\ WF_vars(thing = "tokens" /\ Logout)
  /\ \A l \in Leases :
       /\ WF_leaseVars(thing = "credentials" /\ CallGoesOn(l))
       /\ WF_leaseVars(thing = "credentials" /\ TimePasses(l))
       /\ WF_leaseVars(thing = "credentials" /\ Expiring(l))
  /\ \A w \in Workers : WF_leaseVars(thing = "credentials" /\ WorkerGoesOn(w))

TakenBackSpec ==
  /\ TakenBackInit /\ [][TakenBackNext]_<<thing, vars, leaseVars>>
  /\ TakenBackFairness
=============================================================================
