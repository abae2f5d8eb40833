---------------------------- MODULE VaultLedger ----------------------------
(***************************************************************************)
(* What the storage accounting of a vault promises: bytes are charged to   *)
(* one account when a file is announced, only while they fit, reduced when *)
(* the file turns out smaller, given back once, and written off with the   *)
(* account.  MediaUpload and CloudinaryAccounts implement it when requests *)
(* do not overlap.                                                         *)
(***************************************************************************)
EXTENDS Integers

CONSTANTS Accounts, Files, None, Limit

VARIABLES
  used,     \* bytes charged to each account
  held      \* for each file [account, bytes], or NotHeld

ledgerVars == <<used, held>>

NotHeld == [account |-> None, bytes |-> 0]

LedgerInit ==
  /\ used = [a \in Accounts |-> 0]
  /\ held = [f \in Files |-> NotHeld]

Charge(f, a, bytes) ==
  /\ held[f] = NotHeld
  /\ bytes > 0 /\ used[a] + bytes <= Limit
  /\ used' = [used EXCEPT ![a] = @ + bytes]
  /\ held' = [held EXCEPT ![f] = [account |-> a, bytes |-> bytes]]

Shrink(f, bytes) ==
  /\ bytes > 0 /\ bytes < held[f].bytes
  /\ used' = [used EXCEPT ![held[f].account] = @ - (held[f].bytes - bytes)]
  /\ held' = [held EXCEPT ![f].bytes = bytes]

Release(f) ==
  /\ held[f] # NotHeld
  /\ used' = [used EXCEPT ![held[f].account] = @ - held[f].bytes]
  /\ held' = [held EXCEPT ![f] = NotHeld]

\* Deactivating an account closes its books.
WriteOff(a) ==
  /\ used' = [used EXCEPT ![a] = 0]
  /\ held' = [f \in Files |-> IF held[f].account = a THEN NotHeld ELSE held[f]]

LedgerNext ==
  \/ \E f \in Files, a \in Accounts, bytes \in 1..Limit : Charge(f, a, bytes)
  \/ \E f \in Files, bytes \in 1..Limit : Shrink(f, bytes)
  \/ \E f \in Files : Release(f)
  \/ \E a \in Accounts : WriteOff(a)

LedgerSpec == LedgerInit /\ [][LedgerNext]_ledgerVars
=============================================================================
