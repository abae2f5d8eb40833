----------------------------- MODULE VaultState -----------------------------
(***************************************************************************)
(* The rows that the upload and the account requests of one user share in  *)
(* Postgres, the constraints the database enforces on them, and the local  *)
(* state of a request between two awaits.                                  *)
(*                                                                         *)
(* A row that is not in its table is AbsentAccount or AbsentMedia.  Every  *)
(* query is a step.  The writes of a transaction take effect at its        *)
(* commit, in one step: from its first write to COMMIT the rows it wrote   *)
(* are locked and its writes are invisible (READ COMMITTED, the Postgres   *)
(* default).  What it has read before a write can be stale by then, the    *)
(* rows chosen by the WHERE of an earlier statement included: deactivate,  *)
(* whose two statements depend on each other, is two steps.                *)
(***************************************************************************)
EXTENDS VaultSelector

CONSTANTS
  Accounts,         \* ids the accounts of the user may take
  MediaIds,         \* ids of media, chosen by the client
  Requests,         \* slots for requests in flight; each runs one at a time
  Sizes,            \* file sizes a client may announce
  MaxParts,         \* most parts of a file
  DefaultLimit,     \* DEFAULT_STORAGE_LIMIT_BYTES
  InitialAccounts   \* the account table at the start

VARIABLES
  acct,             \* cloudinary_accounts
  media,            \* media
  parts,            \* media_parts: the indices stored for each media id
  req               \* the local variables of the requests in flight

vaultVars == <<acct, media, parts, req>>

PartIndices == 0 .. MaxParts

AccountRow ==
  [active: BOOLEAN, role: {Primary, Secondary, "absent"}, slot: 0..2,
   used: Nat, limit: Nat]

AbsentAccount ==
  [active |-> FALSE, role |-> "absent", slot |-> NullSlot, used |-> 0, limit |-> 0]

MediaRow ==
  [status: {"uploading", "ready", "failed", "absent"},
   account: Accounts \cup {None}, size: Nat, total: 0..MaxParts,
   orphaned: BOOLEAN]

AbsentMedia ==
  [status |-> "absent", account |-> None, size |-> 0, total |-> 0,
   orphaned |-> FALSE]

UploadPcs ==
  {"preflight", "reserve", "complete_load", "complete_commit", "abort_load",
   "abort_commit", "remove_destroy", "remove_load", "remove_commit"}

AccountPcs ==
  {"create_slots", "create_insert", "swap_write", "promote_primary",
   "promote_write", "deactivate_count", "deactivate_orphan", "deactivate_write"}

\* One record for every handler; a handler leaves the fields it has no use
\* for at their value in Idle.
Request ==
  [pc: UploadPcs \cup AccountPcs \cup {"idle"},
   m: MediaIds \cup {None}, entity: MediaRow, parts: SUBSET PartIndices,
   delta: Nat, snap: AccountRow,
   target: Accounts \cup {None}, other: Accounts \cup {None},
   slot: 0..2, flag: BOOLEAN, orphans: SUBSET MediaIds]

Idle ==
  [pc |-> "idle", m |-> None, entity |-> AbsentMedia, parts |-> {},
   delta |-> 0, snap |-> AbsentAccount, target |-> None, other |-> None,
   slot |-> 0, flag |-> FALSE, orphans |-> {}]

Start(r, local) == req[r] = Idle /\ req' = [req EXCEPT ![r] = local]
Goto(r, local)  == req' = [req EXCEPT ![r] = local]
Finish(r)       == req' = [req EXCEPT ![r] = Idle]

Exists(row) == row.role # "absent"

\* Another transaction has marked the row of m and has not committed: a write
\* of m waits for it.  (When that transaction in turn waits for an account row
\* the writer holds, Postgres ends one of the two: Fail.)
MediaLocked(r, m) ==
  \E q \in Requests \ {r} : req[q].pc = "deactivate_write" /\ m \in req[q].orphans

(***************************************************************************)
(* The CHECK constraint, and the two partial unique indexes (one active    *)
(* primary, one active secondary per slot), which give every active        *)
(* account of the user a fill rank of its own.                             *)
(***************************************************************************)
RoleSlotCheck(row) ==
  \/ row = AbsentAccount
  \/ row.role = Primary /\ row.slot = NullSlot
  \/ row.role = Secondary /\ row.slot \in {1, 2}

UniqueIndexes(rows) ==
  \A a, b \in ActiveAccounts(rows) : FillRank(rows[a]) = FillRank(rows[b]) => a = b

DatabaseAccepts(rows) ==
  /\ UniqueIndexes(rows)
  /\ \A a \in DOMAIN rows : RoleSlotCheck(rows[a])

(***************************************************************************)
(* adjustAccountUsage writes back the row it loaded, every column of it:   *)
(* Repository.save compares the loaded entity with the row as it is now    *)
(* and updates each column that differs.                                   *)
(***************************************************************************)
AdjustedRow(row, delta) ==
  [row EXCEPT !.used = IF row.used + delta > 0 THEN row.used + delta ELSE 0]

ASSUME VaultConstants ==
  /\ None \notin Accounts /\ None \notin MediaIds
  /\ Sizes \subseteq Nat \ {0}
  /\ MaxParts \in Nat \ {0}
  /\ DefaultLimit \in Nat
  /\ InitialAccounts \in [Accounts -> AccountRow]
  /\ DatabaseAccepts(InitialAccounts)
  /\ \A a \in Accounts : InitialAccounts[a].used <= InitialAccounts[a].limit

\* A media id is a UUID.
ASSUME FiniteIds == IsFiniteSet(MediaIds)

VaultInit ==
  /\ acct  = InitialAccounts
  /\ media = [m \in MediaIds |-> AbsentMedia]
  /\ parts = [m \in MediaIds |-> {}]
  /\ req   = [r \in Requests |-> Idle]

\* A request may end with an error at any await: a failed query, a
\* deadlock, a lost connection, the process stopping.  What it had not
\* committed is rolled back.
Fail(r) ==
  /\ req[r] # Idle
  /\ Finish(r)
  /\ UNCHANGED <<acct, media, parts>>
=============================================================================
