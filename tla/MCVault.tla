------------------------------ MODULE MCVault ------------------------------
EXTENDS VaultPage, TLC

CONSTANTS a1, a2, a3

Row(role, slot) ==
  [active |-> TRUE, role |-> role, slot |-> slot, used |-> 0, limit |-> DefaultLimit]

\* A vault with a Primary smaller than the accounts that may be added, so that
\* the larger files go past it.
MCOneAccount ==
  (a1 :> [Row(Primary, NullSlot) EXCEPT !.limit = DefaultLimit - 1])
    @@ [a \in Accounts |-> AbsentAccount]

\* A vault with a Primary and Secondary-1; a third account may be added.
MCTwoAccounts ==
  (a1 :> Row(Primary, NullSlot)) @@ (a2 :> Row(Secondary, 1))
    @@ [a \in Accounts |-> AbsentAccount]

\* A vault with all three.
MCThreeAccounts ==
  (a1 :> Row(Primary, NullSlot)) @@ (a2 :> Row(Secondary, 1)) @@ (a3 :> Row(Secondary, 2))

RequestSymmetry == Permutations(Requests)
MediaSymmetry   == Permutations(MediaIds)
BothSymmetry    == RequestSymmetry \cup MediaSymmetry
=============================================================================
