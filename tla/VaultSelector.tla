--------------------------- MODULE VaultSelector ---------------------------
(***************************************************************************)
(* Which of a user's Cloudinary accounts receives a file: the pure         *)
(* selection of cloudinary-account-selector.ts, and the figures of the     *)
(* vault page that restate the same capacity (vault.service.ts).           *)
(*                                                                         *)
(* `rows` is the account table of one user: a function from account ids    *)
(* to records [active, role, slot, used, limit].  The slot 0 is SQL NULL.  *)
(***************************************************************************)
EXTENDS Integers, FiniteSets, FiniteSetsExt

CONSTANT None       \* "no account": the null of SelectionOutcome.account

Primary   == "primary"
Secondary == "secondary"
NullSlot  == 0

(***************************************************************************)
(* The sort key of orderAccountsForFill: the Primary, then the secondaries *)
(* by slot, a missing slot last.                                           *)
(***************************************************************************)
FillRank(row) ==
  CASE row.role = Primary                         -> 0
    [] row.role # Primary /\ row.slot # NullSlot  -> row.slot
    [] OTHER                                      -> 3

\* Free bytes on a single account, floored at zero.
FreeBytes(row) == IF row.limit > row.used THEN row.limit - row.used ELSE 0

\* The caller filters on is_active.
ActiveAccounts(rows) == {a \in DOMAIN rows : rows[a].active}

VaultFreeBytes(rows) ==
  MapThenSumSet(LAMBDA a : FreeBytes(rows[a]), ActiveAccounts(rows))

LargestFreeSlot(rows) ==
  Max({FreeBytes(rows[a]) : a \in ActiveAccounts(rows)} \cup {0})

Fitting(rows, size) ==
  {a \in ActiveAccounts(rows) : FreeBytes(rows[a]) >= size}

FirstInFillOrder(rows, S) ==
  CHOOSE a \in S : \A b \in S : FillRank(rows[a]) <= FillRank(rows[b])

(***************************************************************************)
(* selectAccountForUpload: the account, or None and a reason.              *)
(***************************************************************************)
SelectAccount(rows, size) ==
  IF size > VaultFreeBytes(rows) \/ Fitting(rows, size) = {}
    THEN None
    ELSE FirstInFillOrder(rows, Fitting(rows, size))

RejectReason(rows, size) ==
  IF size > VaultFreeBytes(rows)
    THEN "VAULT_FULL"
    ELSE "FILE_TOO_LARGE_FOR_ANY_ACCOUNT"

(***************************************************************************)
(* The aggregate of getVault: it subtracts the totals and floors once,     *)
(* where the selector floors each account and adds.                        *)
(***************************************************************************)
VaultPageFree(rows) ==
  LET totalLimit == MapThenSumSet(LAMBDA a : rows[a].limit, ActiveAccounts(rows))
      totalUsed  == MapThenSumSet(LAMBDA a : rows[a].used, ActiveAccounts(rows))
  IN  IF totalLimit > totalUsed THEN totalLimit - totalUsed ELSE 0
=============================================================================
