------------------------------- MODULE Limits -------------------------------
(***************************************************************************)
(* What is counted before a call is let through: its attempts, by the      *)
(* durable limiter or the one in memory that a host may configure instead, *)
(* the quota of its plan, and the seats of licensed products.  The four    *)
(* share nothing.                                                          *)
(***************************************************************************)
EXTENDS RateLimits, MemoryLimiter, Quotas, Licenses

LimitsSpec == RatesSpec /\ MemorySpec /\ QuotasSpec /\ LicensesSpec

\* Nobody gets past a limit: not of attempts, by either of the limiters, and
\* not of a quota; the right people have the seats, and who has one keeps it.
LimitsHold ==
  /\ []BurstBounded /\ LiveDroppedOnlyWhenFull
  /\ []WithinQuota
  /\ []SeatsRight /\ HoldersKeep
=============================================================================
