------------------------------ MODULE MCOutbox ------------------------------
(* Instances of Outbox for TLC. *)
EXTENDS OutboxProperties, TLC

\* Messages are told apart only by their place in `order`, workers not at all.
Symmetry == Permutations(Messages) \cup Permutations(Workers)
=============================================================================
