------------------------------- MODULE Vault -------------------------------
(***************************************************************************)
(* The vault of one user: uploads and deletions of MediaService beside the *)
(* account requests of CloudinaryAccountsService, on the same rows.        *)
(***************************************************************************)
EXTENDS MediaUpload, CloudinaryAccounts

CONSTANT ForceChoices   \* values of ?force= in the deactivate requests sent

ASSUME ForceIsBoolean == ForceChoices \subseteq BOOLEAN

AccountsNext(r) ==
  \/ CreateReadPrimary(r)
  \/ CreateReadSlots(r)
  \/ \E a \in Accounts : CreateInsert(r, a)
  \/ SwapRead(r)
  \/ SwapWrite(r)
  \/ \E a \in Accounts : PromoteRead(r, a)
  \/ PromoteReadPrimary(r)
  \/ PromoteWrite(r)
  \/ \E a \in Accounts, force \in ForceChoices : DeactivateRead(r, a, force)
  \/ DeactivateCount(r)
  \/ DeactivateOrphan(r)
  \/ DeactivateWrite(r)

Next == \E r \in Requests : MediaNext(r) \/ AccountsNext(r) \/ Fail(r)

Spec == VaultInit /\ [][Next]_vaultVars

-----------------------------------------------------------------------------
\* The rows and the locals of the requests have the shape the entities give
\* them (cloudinary-account.entity.ts, media.entity.ts).
TypeOK ==
  /\ acct  \in [Accounts -> AccountRow]
  /\ media \in [MediaIds -> MediaRow]
  /\ parts \in [MediaIds -> SUBSET PartIndices]
  /\ req   \in [Requests -> Request]

\* These services charge no account more than its limit, whatever overlaps: the
\* capacity a reservation saw under its lock is still there when it commits, and
\* no release that lost an update brings back more than was there.  (The final
\* size of a direct upload and a reconciliation, which are not in this module, may.)
UsedWithinLimit == \A a \in Accounts : acct[a].used <= acct[a].limit

\* An item that is listed (status ready) has a part row for every index of
\* the file that was announced, although completes, aborts, deletions and new
\* inits of one media id may overlap.
ReadyHasAllParts ==
  \A m \in MediaIds : media[m].status = "ready" => parts[m] = 0 .. (media[m].total - 1)

\* A user who has an active account has an active Primary; without one the
\* fill order has no first account and the next account added becomes it.
HasPrimary == ActiveAccounts(acct) # {} => ActivePrimaries # {}

-----------------------------------------------------------------------------
(***************************************************************************)
(* The inductive invariant behind TypeOK, UsedWithinLimit and              *)
(* ReadyHasAllParts: what a request carries from one step to the next.     *)
(***************************************************************************)
MediaHasAccount(row) ==
  row = AbsentMedia \/ (row.account \in Accounts /\ row.status # "absent")

Completing == {"complete_load", "complete_commit"}
Announcing == {"preflight", "reserve"}
Aborting   == {"abort_load", "abort_commit"}
Removing   == {"remove_destroy", "remove_load", "remove_commit"}
Settling   == {"complete_commit", "abort_commit", "remove_commit"}

LocalsOK(q) ==
  /\ q.snap.used <= q.snap.limit
  /\ q.pc \in UploadPcs => q.m \in MediaIds
  /\ q.pc \in Announcing => /\ q.entity.status = "uploading" /\ ~q.entity.orphaned
                            /\ q.entity.size > 0
  /\ q.pc = "reserve" => q.target \in Accounts
  /\ q.pc \in UploadPcs \ Announcing => q.entity.account \in Accounts
  /\ q.pc \in Completing => /\ q.entity.status = "uploading"
                            /\ q.delta < q.entity.size
                            /\ q.parts = 0 .. (q.entity.total - 1)
  /\ q.pc \in Aborting => q.entity.status = "uploading" /\ q.delta = q.entity.size
  /\ q.pc \in Removing => q.delta = Releasable(q.entity)
  /\ q.pc \in {"promote_primary", "promote_write", "deactivate_count",
               "deactivate_orphan", "deactivate_write"} => q.target \in Accounts

\* The foreign key of media: no row, and no request that will write one,
\* names an account that was never added.
Refers(q) ==
  /\ q.pc \in UploadPcs \ Announcing => Exists(acct[q.entity.account])
  /\ q.pc \in Settling /\ q.delta > 0 => Exists(q.snap)

AccountsExist ==
  /\ \A m \in MediaIds : media[m] # AbsentMedia => Exists(acct[media[m].account])
  /\ \A r \in Requests : Refers(req[r])

\* The rows an uncommitted deactivation has marked stay as it found them, and
\* no other deactivation has marked one of them.
OrphansHeld ==
  \A r \in Requests : req[r].pc = "deactivate_write" =>
     \A m \in req[r].orphans : m \in LinkedMedia(req[r].target) /\ ~MediaLocked(r, m)

RowsInv ==
  /\ TypeOK
  /\ UsedWithinLimit
  /\ ReadyHasAllParts
  /\ DatabaseAccepts(acct)
  /\ AccountsExist
  /\ \A m \in MediaIds : MediaHasAccount(media[m])
  /\ \A r \in Requests : LocalsOK(req[r])

VaultInv == RowsInv /\ OrphansHeld

-----------------------------------------------------------------------------
\* The bytes of a media item that its account should be charged for.
Holding(m) == media[m].status \in {"uploading", "ready"} /\ ~media[m].orphaned

BytesHeld(a) ==
  MapThenSumSet(LAMBDA m : media[m].size,
                {m \in MediaIds : Holding(m) /\ media[m].account = a})

\* storage_used_bytes of an active account is the sum of the sizes of the
\* items reserved or stored on it: nothing leaks and nothing is given back
\* twice.
BooksBalance ==
  \A a \in ActiveAccounts(acct) : acct[a].used = BytesHeld(a)

\* An item is orphaned exactly when its account has been deactivated, so no
\* deletion asks a deactivated account to destroy a file, or skips one that
\* can still be destroyed.
LiveMediaOnActiveAccount ==
  \A m \in MediaIds :
     media[m] # AbsentMedia => (media[m].orphaned <=> ~acct[media[m].account].active)

\* When requests do not overlap, the vault is as its readers take it to be: it
\* has a Primary, its books balance and its live items can be reached.
VaultSound == HasPrimary /\ BooksBalance /\ LiveMediaOnActiveAccount

Ledger == INSTANCE VaultLedger WITH
  Files <- MediaIds, Limit <- DefaultLimit,
  used <- [a \in Accounts |-> IF acct[a].active THEN acct[a].used ELSE 0],
  held <- [m \in MediaIds |-> IF Holding(m)
             THEN [account |-> media[m].account, bytes |-> media[m].size]
             ELSE [account |-> None, bytes |-> 0]]

\* When requests do not overlap, every step of the vault is a step of the
\* ledger or leaves it alone: init charges one account, complete shrinks,
\* abort and delete release exactly once, deactivate writes off.
KeepsLedger == Ledger!LedgerSpec

-----------------------------------------------------------------------------
(***************************************************************************)
(* What request r read before its last step and still relies on in it is   *)
(* as r read it.                                                           *)
(***************************************************************************)
MediaAsRead(r) == media[req[r].m] = req[r].entity

UsageAsRead(r) == req[r].delta > 0 => acct[req[r].entity.account] = req[r].snap

StillAsRead(r) ==
  CASE req[r].pc = "reserve" -> media[req[r].m] = AbsentMedia
    [] req[r].pc \in {"complete_commit", "abort_commit", "remove_commit"} ->
         MediaAsRead(r) /\ UsageAsRead(r)
    [] req[r].pc = "create_insert" -> (req[r].slot = NullSlot <=> ActivePrimaries = {})
    [] req[r].pc = "promote_write" -> acct[req[r].target].active
    [] req[r].pc = "deactivate_write" ->
         /\ acct[req[r].target].role # Primary
         /\ LinkedMedia(req[r].target) \subseteq req[r].orphans
    [] OTHER -> TRUE

StepIsFresh == \A r \in Requests : StillAsRead(r) \/ req'[r] = req[r]

\* Stale reads are the only way the books go wrong: a step of any handler
\* whose earlier reads still hold keeps used = bytes held, whatever the other
\* requests are in the middle of.  (Once a stale write has left an orphaned
\* item on an active account, a fresh abort of that item releases bytes the
\* account was never charged: abort does not look at the orphan mark.)
FreshStepsKeepBooks ==
  [][StepIsFresh /\ BooksBalance /\ LiveMediaOnActiveAccount => BooksBalance']_vaultVars

\* Likewise only a step that acts on a stale read (a deactivation whose target
\* has been promoted, a usage update that writes an old role back, a Secondary
\* added after the Primary it was added beside has gone) can leave active
\* accounts without a Primary.
FreshStepsKeepPrimary == [][StepIsFresh /\ HasPrimary => HasPrimary']_vaultVars

\* And only such a step (an account deactivated although an upload has been
\* reserved on it since its media were counted, or since they were orphaned; an
\* orphan mark or an active flag written back) leaves a live item on a
\* deactivated account or an orphaned one on an active account.
FreshStepsKeepMediaLive ==
  [][StepIsFresh /\ LiveMediaOnActiveAccount => LiveMediaOnActiveAccount']_vaultVars

-----------------------------------------------------------------------------
(***************************************************************************)
(* A request that runs alone finds at every step what it has read.         *)
(***************************************************************************)
NothingChanged(r) ==
  /\ req[r].pc \in Announcing => media[req[r].m] = AbsentMedia
  /\ req[r].pc \in UploadPcs \ Announcing => MediaAsRead(r)
  /\ req[r].pc \in Settling => UsageAsRead(r)
  /\ req[r].pc = "create_slots" => ActivePrimaries # {}
  /\ req[r].pc \in {"promote_primary", "deactivate_count", "deactivate_orphan"} =>
       acct[req[r].target].active /\ acct[req[r].target].role # Primary
  /\ StillAsRead(r)

SerialInv == VaultSound /\ \A r \in Requests : NothingChanged(r)

-----------------------------------------------------------------------------
FreshPromote(r) ==
  /\ req[r].pc = "promote_write"
  /\ req[r].other # None
  /\ acct[req[r].target].active
  /\ acct[req[r].target].role = Secondary
  /\ acct[req[r].target].slot = req[r].slot
  /\ req[r].other \in ActivePrimaries

\* promote exchanges the two accounts, the old Primary taking the slot of the
\* new one, and is not refused half-way by the unique indexes.
PromoteTakesEffect ==
  [][\A r \in Requests : FreshPromote(r) /\ PromoteWrite(r) =>
        LET t == req[r].target
            p == req[r].other
        IN  acct' = [acct EXCEPT
                       ![t].role = Primary, ![t].slot = NullSlot,
                       ![p].role = Secondary, ![p].slot = acct[t].slot]]_vaultVars

-----------------------------------------------------------------------------
\* "Swaps the display order of the user's two active Secondary accounts" and
\* "Returns the full ordered account list reflecting the new state" (the
\* comment on PATCH swap-order in cloudinary-accounts.controller.ts): a swap
\* whose two accounts still hold the slots it read takes effect.
SwapTakesEffect ==
  [][\A r \in Requests :
        /\ SwapWrite(r)
        /\ InSlot(1) = {req[r].target} /\ InSlot(2) = {req[r].other}
        => acct' # acct]_vaultVars
=============================================================================
