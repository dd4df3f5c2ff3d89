------------------------------ MODULE MCAudit -------------------------------
(* Instances of AuditLog for TLC. *)
EXTENDS AuditProperties, TLC

Symmetry == Permutations(Archivers)
=============================================================================
