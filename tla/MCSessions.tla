----------------------------- MODULE MCSessions -----------------------------
(* Instances of Sessions for TLC. *)
EXTENDS SessionProperties, TLC

Symmetry == Permutations(Sessions)

\* A root administrator, and everybody else in the tenant that is neither the
\* root nor the role's, where there is one.
MCHome ==
  LET elsewhere == Tenants \ {Root, RoleTenant}
      home == CHOOSE t \in (IF elsewhere = {} THEN {RoleTenant} ELSE elsewhere) : TRUE
  IN  [i \in Identities |-> IF ToString(i) = "admin" THEN Root ELSE home]
=============================================================================
