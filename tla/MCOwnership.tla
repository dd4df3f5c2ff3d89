---------------------------- MODULE MCOwnership ----------------------------
EXTENDS Ownership
=============================================================================
