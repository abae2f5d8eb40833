---------------------------- MODULE SelectorLoop ----------------------------
(***************************************************************************)
(* selectAccountForUpload as it is written: sort the rows, add up the free *)
(* bytes in one loop, take the first row that fits in a second.  The other *)
(* modules use the set definitions of VaultSelector instead.               *)
(***************************************************************************)
EXTENDS VaultSelector, Sequences

RoleWeight(row) == IF row.role = Primary THEN 0 ELSE 1

\* The comparator of orderAccountsForFill, as "sorts before".
SortsBefore(x, y) ==
  \/ RoleWeight(x) < RoleWeight(y)
  \/ /\ RoleWeight(x) = RoleWeight(y)
     /\ x.slot # NullSlot
     /\ y.slot = NullSlot \/ x.slot < y.slot

\* s lists each account in use once, and none before one that sorts before it.
IsSorted(s, rows) ==
  \A i, j \in DOMAIN s :
    i < j => s[i] # s[j] /\ ~SortsBefore(rows[s[j]], rows[s[i]])

OrderAccounts(rows) ==
  LET A == ActiveAccounts(rows)
  IN  CHOOSE s \in [1 .. Cardinality(A) -> A] : IsSorted(s, rows)

\* The sums of the first loop, after each row.
Hints(rows, ordered) ==
  LET upTo[i \in 0 .. Len(ordered)] ==
        IF i = 0 THEN [vaultFree |-> 0, largestFree |-> 0]
        ELSE LET hints == upTo[i - 1]
                 free  == FreeBytes(rows[ordered[i]])
             IN  [vaultFree   |-> hints.vaultFree + free,
                  largestFree |-> IF free > hints.largestFree THEN free
                                  ELSE hints.largestFree]
  IN  upTo[Len(ordered)]

\* Mutant of VaultIsFull: a file that fills the vault to the last byte is refused.
VaultIsFullAtLast(size, hints) == size >= hints.vaultFree

VaultIsFull(size, hints) == size > hints.vaultFree

SelectInLoop(rows, ordered, hints, size) ==
  LET fits == {i \in DOMAIN ordered : FreeBytes(rows[ordered[i]]) >= size}
  IN  IF VaultIsFull(size, hints)
        THEN [account |-> None, reason |-> "VAULT_FULL"]
      ELSE IF fits # {}
        THEN [account |-> ordered[Min(fits)], reason |-> "none"]
      ELSE [account |-> None, reason |-> "FILE_TOO_LARGE_FOR_ANY_ACCOUNT"]
=============================================================================
