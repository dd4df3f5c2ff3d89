--------------------------- MODULE MCDelegations ---------------------------
EXTENDS Delegations, TLC
Expiry == [a \in Agents |-> 3]
Symmetry == Permutations(Ids) \cup Permutations(SessionIds) \cup Permutations(Agents)
=============================================================================
