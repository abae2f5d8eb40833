--------------------------- MODULE MCDirectUpload ---------------------------
EXTENDS DirectUpload, TLC

CONSTANTS a1, Limit

\* An empty Primary.
MCRows ==
  a1 :> [active |-> TRUE, role |-> Primary, slot |-> NullSlot, used |-> 0, limit |-> Limit]

BothSymmetry == Permutations(Requests) \cup Permutations(Uploads)
=============================================================================
