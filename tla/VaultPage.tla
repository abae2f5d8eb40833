----------------------------- MODULE VaultPage -----------------------------
(***************************************************************************)
(* The vault beside its readers: what the selector answers and the vault   *)
(* page shows for every table of accounts that uploads, deletions and      *)
(* account requests lead to, and for that table with one account above its *)
(* limit: the recalculation stores whatever Cloudinary reports.            *)
(***************************************************************************)
EXTENDS Vault, SelectorLoop

\* Up to a byte more than three empty accounts hold: the rank of an account
\* in use is its own, and three ranks can be given.
FileSizes == 1 .. (3 * DefaultLimit + 1)

\* applyStorageReconciliation of account a, which stores more than its limit.
Overdrawn(a) == [acct EXCEPT ![a].used = DefaultLimit + 1]

Tables == {acct} \cup {Overdrawn(a) : a \in ActiveAccounts(acct)}

\* The loops take the account, and give the reason and the hints, that the set
\* definitions name, and refuse a file exactly when it exceeds the largest
\* free slot the answer reports, although the refusal is decided on the
\* aggregate first.  And the vault page, which floors once, never shows more
\* free bytes than the selector has, which floors each account: what it
\* promises in total is not refused as VAULT_FULL.
ReadersAgree ==
  \A rows \in Tables :
    LET ordered == OrderAccounts(rows)
        hints   == Hints(rows, ordered)
    IN  /\ hints.vaultFree = VaultFreeBytes(rows)
        /\ hints.largestFree = LargestFreeSlot(rows)
        /\ \A size \in FileSizes :
             LET answer == SelectInLoop(rows, ordered, hints, size)
             IN  /\ answer.account = SelectAccount(rows, size)
                 /\ answer.account = None => answer.reason = RejectReason(rows, size)
                 /\ answer.account = None <=> size > hints.largestFree
                 /\ answer.reason = "VAULT_FULL" => size > VaultPageFree(rows)
=============================================================================
