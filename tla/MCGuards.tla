------------------------------ MODULE MCGuards ------------------------------
(***************************************************************************)
(* Instances of what stands in front of a call, for one run of TLC: the    *)
(* durable rate limiter, the one in memory that a host may configure       *)
(* instead, the network blocks, the seats of licensed products, the quotas *)
(* of tenants, the token budgets of the inference gateway, and the secret  *)
(* that a call checks out of the vault.  They share nothing but the clock, *)
(* so a behaviour follows one of them and leaves the others alone.         *)
(***************************************************************************)
EXTENDS Limits, NetworkBlocks, InferenceBudgets, VaultRotation, TLC

\* A steady plan, and a slow one with room for a larger burst.
TwoPlans == {[rate |-> 2, burst |-> 2, limit |-> 4], [rate |-> 1, burst |-> 3, limit |-> 3]}

\* Windows of different lengths.
ThreeWindows == {0, 2, 5}

\* Everybody checks in one of the processes; the blocks change in both.
OneProcess == [c \in Checks |-> CHOOSE p \in Processes : TRUE]

VARIABLE guard  \* the one this behaviour is about

vars == <<guard, ratesVars, memoryVars, networkVars, licenseVars, quotaVars, budgetVars, rotationVars>>

Init ==
  /\ guard \in {"rates", "memory", "blocks", "seats", "quota", "budget", "secret"}
  /\ RatesInit /\ MemoryInit /\ BlocksInit /\ LicensesInit /\ QuotasInit /\ BudgetsInit
  /\ RotationInit
  \* Those a behaviour is not about stay in one of their initial states.
  /\ guard # "seats" => ~group
  /\ guard # "quota" => plan = CHOOSE p \in Plans : TRUE

Next ==
  \/ /\ guard = "rates" /\ RatesNext
     /\ UNCHANGED <<guard, memoryVars, networkVars, licenseVars, quotaVars, budgetVars, rotationVars>>
  \/ /\ guard = "memory" /\ MemoryNext
     /\ UNCHANGED <<guard, ratesVars, networkVars, licenseVars, quotaVars, budgetVars, rotationVars>>
  \/ /\ guard = "blocks" /\ BlocksNext
     /\ UNCHANGED <<guard, ratesVars, memoryVars, licenseVars, quotaVars, budgetVars, rotationVars>>
  \/ /\ guard = "seats" /\ LicensesNext
     /\ UNCHANGED <<guard, ratesVars, memoryVars, networkVars, quotaVars, budgetVars, rotationVars>>
  \/ /\ guard = "quota" /\ QuotasNext
     /\ UNCHANGED <<guard, ratesVars, memoryVars, networkVars, licenseVars, budgetVars, rotationVars>>
  \/ /\ guard = "budget" /\ BudgetsNext
     /\ UNCHANGED <<guard, ratesVars, memoryVars, networkVars, licenseVars, quotaVars, rotationVars>>
  \/ /\ guard = "secret" /\ RotationNext
     /\ UNCHANGED <<guard, ratesVars, memoryVars, networkVars, licenseVars, quotaVars, budgetVars>>

Spec == Init /\ [][Next]_vars
=============================================================================
