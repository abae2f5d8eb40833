---------------------------- MODULE VaultProofs ----------------------------
(***************************************************************************)
(* Theorems about Vault and VaultPage, for any number of requests in       *)
(* flight, accounts, media, parts and bytes.                               *)
(***************************************************************************)
EXTENDS VaultPage, SelectorProofs

LEMMA SelectionFits ==
  ASSUME NEW rows \in [Accounts -> AccountRow], NEW size \in Nat,
         SelectAccount(rows, size) # None
  PROVE  /\ SelectAccount(rows, size) \in Accounts
         /\ rows[SelectAccount(rows, size)].active
         /\ FreeBytes(rows[SelectAccount(rows, size)]) >= size
<1>1. \A a \in ActiveAccounts(rows) : rows[a].slot \in 0..2
  BY DEF ActiveAccounts, AccountRow
<1>2. SelectAccount(rows, size) \in Fitting(rows, size)
  BY <1>1, SelectionIsFirstFit
<1> QED  BY <1>2 DEF Fitting, ActiveAccounts
-----------------------------------------------------------------------------
(***************************************************************************)
(* Steps of two shapes: one only changes the locals of a request, the      *)
(* other writes the tables and ends the request.                           *)
(***************************************************************************)
LEMMA IdleOK == Idle \in Request /\ LocalsOK(Idle) /\ Refers(Idle)
BY VaultConstants
DEF Idle, Request, LocalsOK, Refers, AbsentMedia, AbsentAccount, MediaRow, AccountRow,
    UploadPcs, AccountPcs, PartIndices, Announcing, Completing, Aborting, Removing, Settling,
    NullSlot

\* An account table the database may hold next: valid, and with every account
\* there was.
GoodTable(rows) ==
  /\ rows \in [Accounts -> AccountRow]
  /\ \A a \in Accounts : rows[a].used <= rows[a].limit
  /\ DatabaseAccepts(rows)
  /\ \A a \in Accounts : Exists(acct[a]) => Exists(rows[a])

LEMMA TableIsGood == ASSUME RowsInv PROVE GoodTable(acct)
BY DEF GoodTable, RowsInv, TypeOK, UsedWithinLimit

LEMMA LocalStep ==
  ASSUME RowsInv, NEW r \in Requests,
         NEW local \in Request, LocalsOK(local), Refers(local),
         req' = [req EXCEPT ![r] = local], UNCHANGED <<acct, media, parts>>
  PROVE  RowsInv'
<1>1. /\ req' \in [Requests -> Request]
      /\ \A q \in Requests : LocalsOK(req'[q]) /\ Refers(req'[q])
  BY DEF RowsInv, TypeOK, AccountsExist
<1>2. \A q \in Requests : LocalsOK(req[q])'
  BY <1>1 DEF LocalsOK
<1>3. \A q \in Requests : Refers(req[q])'
  BY <1>1 DEF Refers
<1>4. DatabaseAccepts(acct)' /\ UsedWithinLimit'
  BY DEF RowsInv, UsedWithinLimit, DatabaseAccepts, UniqueIndexes, ActiveAccounts
<1>5. \A m \in MediaIds : /\ MediaHasAccount(media'[m])
                          /\ media'[m] # AbsentMedia => Exists(acct'[media'[m].account])
  BY DEF RowsInv, AccountsExist
<1> QED
  BY <1>1, <1>2, <1>3, <1>4, <1>5
  DEF RowsInv, TypeOK, ReadyHasAllParts, MediaHasAccount, AccountsExist

\* A request that ends without a write.
LEMMA EndStep ==
  ASSUME RowsInv, NEW r \in Requests, Finish(r), UNCHANGED <<acct, media, parts>>
  PROVE  RowsInv'
BY IdleOK, LocalStep DEF Finish

LEMMA WriteStep ==
  ASSUME RowsInv, NEW r \in Requests, Finish(r), GoodTable(acct'),
         media' \in [MediaIds -> MediaRow],
         \A m \in MediaIds :
            /\ MediaHasAccount(media'[m])
            /\ media'[m] # AbsentMedia => Exists(acct'[media'[m].account]),
         parts' \in [MediaIds -> SUBSET PartIndices],
         \A m \in MediaIds :
            media'[m].status = "ready" => parts'[m] = 0 .. (media'[m].total - 1)
  PROVE  RowsInv'
<1>1. req' \in [Requests -> Request] /\ \A q \in Requests : LocalsOK(req'[q])
  BY IdleOK DEF RowsInv, TypeOK, Finish
<1>2. \A q \in Requests : LocalsOK(req[q])'
  BY <1>1 DEF LocalsOK
<1>3. ASSUME NEW q \in Requests  PROVE Refers(req[q])'
  <2>1. CASE q = r
    BY <2>1 DEF Finish, RowsInv, TypeOK, Refers, Idle, UploadPcs, Settling
  <2>2. CASE q # r
    BY <2>2 DEF Finish, RowsInv, TypeOK, Refers, AccountsExist, LocalsOK, GoodTable
  <2> QED  BY <2>1, <2>2
<1>4. DatabaseAccepts(acct)' /\ UsedWithinLimit'
  BY DEF GoodTable, UsedWithinLimit, DatabaseAccepts, UniqueIndexes, ActiveAccounts
<1> QED
  BY <1>1, <1>2, <1>3, <1>4
  DEF RowsInv, TypeOK, ReadyHasAllParts, MediaHasAccount, AccountsExist, GoodTable

\* Rows keep an account that exists when they keep their account.
LEMMA AccountKept ==
  ASSUME RowsInv, NEW rows, GoodTable(rows), NEW m \in MediaIds, media[m] # AbsentMedia
  PROVE  media[m].account \in Accounts /\ Exists(rows[media[m].account])
BY DEF RowsInv, MediaHasAccount, AccountsExist, GoodTable

\* One media row written, or deleted.
LEMMA RowWriteOK ==
  ASSUME RowsInv, NEW rows, GoodTable(rows), NEW m \in MediaIds, NEW row \in MediaRow,
         \/ row = AbsentMedia
         \/ row.account \in Accounts /\ row.status # "absent" /\ Exists(rows[row.account]),
         NEW items, items = [media EXCEPT ![m] = row]
  PROVE  /\ items \in [MediaIds -> MediaRow]
         /\ \A n \in MediaIds : /\ MediaHasAccount(items[n])
                                /\ items[n] # AbsentMedia => Exists(rows[items[n].account])
<1>1. media \in [MediaIds -> MediaRow] /\ \A n \in MediaIds : MediaHasAccount(media[n])
  BY DEF RowsInv, TypeOK
<1>2. MediaHasAccount(row) /\ (row # AbsentMedia => Exists(rows[row.account]))
  BY DEF MediaHasAccount
<1>3. \A n \in MediaIds : media[n] # AbsentMedia => Exists(rows[media[n].account])
  BY AccountKept
<1>4. \A n \in MediaIds : items[n] = IF n = m THEN row ELSE media[n]
  BY <1>1
<1> QED  BY <1>1, <1>2, <1>3, <1>4

\* A write of the accounts alone.
LEMMA AccountWriteStep ==
  ASSUME RowsInv, NEW r \in Requests, Finish(r), GoodTable(acct'), UNCHANGED <<media, parts>>
  PROVE  RowsInv'
<1>1. \A m \in MediaIds :
         /\ MediaHasAccount(media'[m])
         /\ media'[m] # AbsentMedia => Exists(acct'[media'[m].account])
  BY AccountKept DEF RowsInv
<1> QED  BY <1>1, WriteStep DEF RowsInv, TypeOK, ReadyHasAllParts

\* The locals of r have a type that the action's first step gave them.
LEMMA LocalsType ==
  ASSUME RowsInv, NEW r \in Requests
  PROVE  req[r] \in Request /\ LocalsOK(req[r]) /\ Refers(req[r])
BY DEF RowsInv, TypeOK, AccountsExist
-----------------------------------------------------------------------------
\* What a settling transaction knows of the row it loaded.
LEMMA CommitLocals ==
  ASSUME RowsInv, NEW r \in Requests, req[r].pc \in Settling
  PROVE  /\ req[r] \in Request /\ LocalsOK(req[r])
         /\ req[r].m \in MediaIds /\ req[r].entity \in MediaRow
         /\ req[r].entity.account \in Accounts /\ Exists(acct[req[r].entity.account])
         /\ req[r].pc = "complete_commit" =>
               /\ req[r].delta < req[r].entity.size
               /\ req[r].parts = 0 .. (req[r].entity.total - 1)
<1>1. req[r] \in Request /\ LocalsOK(req[r]) /\ Refers(req[r])
  BY LocalsType
<1>2. req[r].pc \in UploadPcs \ Announcing
  BY DEF Settling, UploadPcs, Announcing
<1>3. req[r].entity \in MediaRow
  BY <1>1 DEF Request
<1>4. req[r].pc = "complete_commit" => req[r].pc \in Completing
  BY DEF Completing
<1> QED  BY <1>1, <1>2, <1>3, <1>4 DEF LocalsOK, Refers

LEMMA AdjustedRowOK ==
  ASSUME NEW row \in AccountRow, NEW delta \in Int, row.used + delta <= row.limit
  PROVE  /\ AdjustedRow(row, delta) \in AccountRow
         /\ AdjustedRow(row, delta).used <= AdjustedRow(row, delta).limit
<1>1. row.used \in Nat /\ row.limit \in Nat
  BY DEF AccountRow
<1>2. PICK used \in Nat : /\ used = IF row.used + delta > 0 THEN row.used + delta ELSE 0
                          /\ used <= row.limit
  BY <1>1
<1>3. AdjustedRow(row, delta) = [row EXCEPT !.used = used]
  BY <1>2 DEF AdjustedRow
<1> QED  BY <1>2, <1>3 DEF AccountRow

\* A release brings no account above its limit, however old the row it was
\* computed from.
LEMMA SettledOK ==
  ASSUME RowsInv, NEW r \in Requests, req[r].pc \in Settling, DatabaseAccepts(Settled(r))
  PROVE  GoodTable(Settled(r))
<1> DEFINE q   == req[r]
           row == AdjustedRow(q.snap, -q.delta)
<1>1. /\ q.snap \in AccountRow /\ q.delta \in Nat /\ q.snap.used <= q.snap.limit
      /\ q.entity.account \in Accounts
      /\ q.delta > 0 => Exists(q.snap)
  BY LocalsType DEF Request, LocalsOK, Refers, UploadPcs, Announcing, Settling
<1>2. /\ row \in AccountRow /\ row.used <= row.limit
      /\ q.delta > 0 => Exists(row)
  <2>1. -q.delta \in Int /\ q.snap.used + (-q.delta) <= q.snap.limit
    BY <1>1 DEF AccountRow
  <2>2. row.role = q.snap.role
    BY <1>1 DEF AdjustedRow, AccountRow
  <2> QED  BY <1>1, <2>1, <2>2, AdjustedRowOK DEF Exists
<1> HIDE DEF row
<1>3. Settled(r) = IF q.delta = 0 THEN acct ELSE [acct EXCEPT ![q.entity.account] = row]
  BY DEF Settled, row
<1>4. CASE q.delta = 0
  BY <1>3, <1>4, TableIsGood
<1>5. CASE q.delta # 0
  BY <1>1, <1>2, <1>3, <1>5, TableIsGood DEF GoodTable
<1> QED  BY <1>4, <1>5

\* Nor do the indexes and the CHECK constraint look at the bytes.
LEMMA UsageChangeOK ==
  ASSUME RowsInv, NEW a \in Accounts, acct[a].active,
         NEW row \in AccountRow, row.used <= row.limit,
         row.active = acct[a].active, row.role = acct[a].role, row.slot = acct[a].slot,
         NEW rows, rows = [acct EXCEPT ![a] = row]
  PROVE  GoodTable(rows) /\ Exists(rows[a])
<1>1. /\ acct \in [Accounts -> AccountRow] /\ DatabaseAccepts(acct)
      /\ \A b \in Accounts : acct[b].used <= acct[b].limit
  BY DEF RowsInv, TypeOK, UsedWithinLimit
<1>2. /\ rows \in [Accounts -> AccountRow]
      /\ \A b \in Accounts : rows[b].used <= rows[b].limit
      /\ \A b \in Accounts : /\ rows[b].active = acct[b].active
                             /\ rows[b].role = acct[b].role /\ rows[b].slot = acct[b].slot
  BY <1>1
<1>3. ActiveAccounts(rows) = ActiveAccounts(acct)
  BY <1>1, <1>2 DEF ActiveAccounts
<1>4. UniqueIndexes(rows)
  BY <1>1, <1>2, <1>3 DEF DatabaseAccepts, UniqueIndexes, FillRank, ActiveAccounts
<1>5. \A b \in Accounts : RoleSlotCheck(acct[b])
  BY <1>1 DEF DatabaseAccepts
<1>6. ~ AbsentAccount.active
  BY DEF AbsentAccount
<1>7. \A b \in Accounts : RoleSlotCheck(rows[b])
  <2>1. RoleSlotCheck(row) /\ Exists(row)
    BY <1>5, <1>6 DEF RoleSlotCheck, Exists, Primary, Secondary
  <2> QED  BY <1>1, <1>5, <2>1
<1>8. Exists(rows[a])
  BY <1>1, <1>7, <1>2, <1>6 DEF RoleSlotCheck, Exists, Primary, Secondary
<1> QED  BY <1>1, <1>2, <1>4, <1>7, <1>8 DEF GoodTable, DatabaseAccepts, Exists

(***************************************************************************)
(* directUploadInit.                                                       *)
(***************************************************************************)
LEMMA InitKeepsInv ==
  ASSUME RowsInv, NEW r \in Requests
  PROVE  /\ \A m \in MediaIds, size \in Sizes, total \in 1..MaxParts :
               InitCheckExisting(r, m, size, total) => RowsInv'
         /\ InitPreflight(r) => RowsInv'
         /\ InitReserve(r) => RowsInv'
<1> USE VaultConstants
<1>1. ASSUME NEW m \in MediaIds, NEW size \in Sizes, NEW total \in 1..MaxParts,
             InitCheckExisting(r, m, size, total)
      PROVE  RowsInv'
  <2> DEFINE entity == [status |-> "uploading", account |-> None, size |-> size,
                        total |-> total, orphaned |-> FALSE]
             local  == [Idle EXCEPT !.pc = "preflight", !.m = m, !.entity = entity]
  <2>1. entity \in MediaRow
    BY DEF MediaRow
  <2>2. /\ local \in Request /\ local.pc = "preflight" /\ local.m = m
        /\ local.entity = entity /\ local.snap = Idle.snap
    BY <2>1, IdleOK DEF Idle, Request, UploadPcs
  <2>3. req' = [req EXCEPT ![r] = local] /\ UNCHANGED <<acct, media, parts>>
    BY <1>1 DEF InitCheckExisting, Start
  <2>4. entity.status = "uploading" /\ ~entity.orphaned /\ entity.size > 0
    OBVIOUS
  <2> HIDE DEF local, entity
  <2>5. LocalsOK(local) /\ Refers(local)
    BY <2>2, <2>4, IdleOK
    DEF LocalsOK, Refers, Announcing, Completing, Aborting, Removing, Settling
  <2> QED  BY ONLY RowsInv, <2>2, <2>3, <2>5, LocalStep
<1>2. ASSUME InitPreflight(r)  PROVE RowsInv'
  <2> DEFINE a     == SelectAccount(acct, req[r].entity.size)
             local == [req[r] EXCEPT !.pc = "reserve", !.target = a]
  <2>1. CASE a = None
    BY <1>2, <2>1, EndStep DEF InitPreflight
  <2>2. CASE a # None
    <3>1. a \in Accounts
      BY <2>2, SelectionFits, LocalsType DEF RowsInv, TypeOK, Request, MediaRow
    <3>2. local \in Request /\ LocalsOK(local) /\ Refers(local)
      BY <1>2, <3>1, LocalsType
      DEF InitPreflight, Request, LocalsOK, Refers, UploadPcs, Announcing, Completing,
          Aborting, Removing, Settling
    <3>3. req' = [req EXCEPT ![r] = local] /\ UNCHANGED <<acct, media, parts>>
      BY <1>2, <2>2 DEF InitPreflight, Goto
    <3> QED  BY ONLY RowsInv, <3>2, <3>3, LocalStep
  <2> QED  BY <2>1, <2>2
<1>3. ASSUME InitReserve(r)  PROVE RowsInv'
  <2> DEFINE a == req[r].target
             e == req[r].entity
             row == AdjustedRow(acct[a], e.size)
  <2>1. CASE SelectAccount(acct, e.size) # a
    BY <1>3, <2>1, EndStep DEF InitReserve
  <2>2. CASE SelectAccount(acct, e.size) = a
    <3>1. /\ a \in Accounts /\ e \in MediaRow /\ e.status = "uploading"
          /\ req[r].m \in MediaIds
      BY <1>3, LocalsType DEF InitReserve, LocalsOK, Request, UploadPcs, Announcing
    <3>2. /\ e.size \in Nat /\ acct[a] \in AccountRow /\ FreeBytes(acct[a]) >= e.size
          /\ acct[a].active
      BY <2>2, <3>1, SelectionFits DEF RowsInv, TypeOK, MediaRow
    <3>3. row \in AccountRow /\ row.used <= row.limit
      <4>1. acct[a].used \in Nat /\ acct[a].limit \in Nat /\ acct[a].used <= acct[a].limit
        BY <3>1, <3>2 DEF AccountRow, RowsInv, UsedWithinLimit
      <4>2. acct[a].used + e.size <= acct[a].limit
        BY <3>2, <4>1 DEF FreeBytes
      <4> QED  BY <3>2, <4>2, AdjustedRowOK
    <3>4. acct' = [acct EXCEPT ![a] = row] /\ Finish(r) /\ parts' = parts
          /\ media' = [media EXCEPT ![req[r].m] = [e EXCEPT !.account = a]]
      BY <1>3, <2>2 DEF InitReserve
    <3> HIDE DEF row
    <3>5. GoodTable(acct') /\ Exists(acct'[a])
      <4>1. /\ row.active = acct[a].active /\ row.role = acct[a].role
            /\ row.slot = acct[a].slot
        BY <3>2 DEF AdjustedRow, AccountRow, row
      <4> QED  BY <3>1, <3>2, <3>3, <3>4, <4>1, UsageChangeOK
    <3>6. [e EXCEPT !.account = a] \in MediaRow /\ [e EXCEPT !.account = a].account = a
          /\ [e EXCEPT !.account = a].status = "uploading"
      BY <3>1 DEF MediaRow
    <3>7. /\ media' \in [MediaIds -> MediaRow]
          /\ \A m \in MediaIds : /\ MediaHasAccount(media'[m])
                                 /\ media'[m] # AbsentMedia => Exists(acct'[media'[m].account])
      BY <3>1, <3>4, <3>5, <3>6, RowWriteOK
    <3>8. \A m \in MediaIds : media'[m].status = "ready" => parts'[m] = 0 .. (media'[m].total - 1)
      BY <3>1, <3>4, <3>6 DEF RowsInv, TypeOK, ReadyHasAllParts
    <3> QED  BY <3>4, <3>5, <3>7, <3>8, WriteStep DEF RowsInv, TypeOK
  <2> QED  BY <2>1, <2>2
<1> QED  BY <1>1, <1>2, <1>3
(***************************************************************************)
(* directUploadComplete.                                                   *)
(***************************************************************************)
LEMMA LoadAccountKeepsInv ==
  ASSUME RowsInv, NEW r \in Requests, NEW from, NEW to, LoadAccount(r, from, to),
         \/ from = "complete_load" /\ to = "complete_commit"
         \/ from = "abort_load" /\ to = "abort_commit"
         \/ from = "remove_load" /\ to = "remove_commit"
  PROVE  RowsInv'
<1> DEFINE local == [req[r] EXCEPT !.pc = to, !.snap = acct[req[r].entity.account]]
<1>1. req[r] \in Request /\ LocalsOK(req[r]) /\ req[r].pc = from
  BY LocalsType DEF LoadAccount
<1>2. req[r].entity.account \in Accounts /\ Exists(acct[req[r].entity.account])
  <2>1. req[r].pc \in UploadPcs \ Announcing
    BY <1>1 DEF UploadPcs, Announcing
  <2> QED  BY <2>1, LocalsType DEF LocalsOK, Refers
<1>3. /\ acct[req[r].entity.account] \in AccountRow
      /\ acct[req[r].entity.account].used <= acct[req[r].entity.account].limit
  BY <1>2 DEF RowsInv, TypeOK, UsedWithinLimit
<1>4. /\ local \in Request /\ local.pc = to /\ local.snap = acct[req[r].entity.account]
      /\ local.m = req[r].m /\ local.entity = req[r].entity
      /\ local.delta = req[r].delta /\ local.parts = req[r].parts
  BY <1>1, <1>3 DEF Request, UploadPcs
<1>5. req' = [req EXCEPT ![r] = local] /\ UNCHANGED <<acct, media, parts>>
  BY DEF LoadAccount, Goto
<1> HIDE DEF local
<1>6. LocalsOK(local) /\ Refers(local)
  BY <1>1, <1>2, <1>3, <1>4
  DEF LocalsOK, Refers, UploadPcs, Announcing, Completing, Aborting, Removing, Settling
<1> QED  BY ONLY RowsInv, <1>4, <1>5, <1>6, LocalStep

\* The locals of a request that has read the media row.
LEMMA MediaReadOK ==
  ASSUME NEW local \in Request, local.snap = Idle.snap, local.m \in MediaIds,
         local.entity.account \in Accounts, Exists(acct[local.entity.account]),
         \/ /\ local.pc \in Completing /\ local.entity.status = "uploading"
            /\ local.delta < local.entity.size
            /\ local.parts = 0 .. (local.entity.total - 1)
         \/ /\ local.pc \in Aborting /\ local.entity.status = "uploading"
            /\ local.delta = local.entity.size
         \/ local.pc \in Removing /\ local.delta = Releasable(local.entity),
         local.pc \in Settling => local.delta = 0
  PROVE  LocalsOK(local) /\ Refers(local)
<1>1. local.pc \in UploadPcs \ Announcing
  BY DEF UploadPcs, Announcing, Completing, Aborting, Removing
<1> QED
  BY <1>1, IdleOK
  DEF LocalsOK, Refers, UploadPcs, Announcing, Completing, Aborting, Removing, Settling

LEMMA CompleteKeepsInv ==
  ASSUME RowsInv, NEW r \in Requests
  PROVE  /\ \A m \in MediaIds, indices \in SUBSET PartIndices, compressed \in Sizes :
               CompleteRead(r, m, indices, compressed) => RowsInv'
         /\ CompleteLoad(r) => RowsInv'
         /\ CompleteCommit(r) => RowsInv'
<1> USE VaultConstants
<1>1. ASSUME NEW m \in MediaIds, NEW indices \in SUBSET PartIndices,
             NEW compressed \in Sizes, CompleteRead(r, m, indices, compressed)
      PROVE  RowsInv'
  <2> DEFINE delta == media[m].size - compressed
             pc    == IF delta > 0 THEN "complete_load" ELSE "complete_commit"
             local == [Idle EXCEPT !.pc = pc, !.m = m, !.entity = media[m],
                         !.parts = indices, !.delta = delta]
  <2>1. media[m] \in MediaRow /\ media[m].account \in Accounts
    BY <1>1 DEF CompleteRead, RowsInv, TypeOK, MediaHasAccount, AbsentMedia
  <2>2. /\ delta \in Nat /\ delta < media[m].size /\ indices = 0 .. (media[m].total - 1)
        /\ media[m].status = "uploading"
    BY <1>1, <2>1 DEF CompleteRead, PartsComplete, MediaRow
  <2>3. pc \in Completing /\ (pc \in Settling => delta = 0)
    BY <2>2 DEF Completing, Settling
  <2>6. media[m] # AbsentMedia /\ Exists(acct[media[m].account])
    BY <2>2 DEF AbsentMedia, RowsInv, AccountsExist
  <2>4. req' = [req EXCEPT ![r] = local] /\ UNCHANGED <<acct, media, parts>>
    BY <1>1 DEF CompleteRead, Start
  <2> HIDE DEF delta, pc
  <2>7. /\ local \in Request /\ local.pc = pc /\ local.m = m /\ local.entity = media[m]
        /\ local.parts = indices /\ local.delta = delta /\ local.snap = Idle.snap
    BY <2>1, <2>2, <2>3, IdleOK DEF Idle, Request, UploadPcs, Completing
  <2> HIDE DEF local
  <2>5. LocalsOK(local) /\ Refers(local)
    BY <2>1, <2>2, <2>3, <2>6, <2>7, MediaReadOK
  <2> QED  BY ONLY RowsInv, <2>4, <2>5, <2>7, LocalStep DEF local
<1>2. ASSUME CompleteLoad(r)  PROVE RowsInv'
  BY <1>2, LoadAccountKeepsInv DEF CompleteLoad
<1>3. ASSUME CompleteCommit(r)  PROVE RowsInv'
  <2> DEFINE e   == req[r].entity
             row == [e EXCEPT !.status = "ready", !.size = @ - req[r].delta]
  <2>1. CASE ~DatabaseAccepts(Settled(r))
    BY <1>3, <2>1, EndStep DEF CompleteCommit
  <2>2. CASE DatabaseAccepts(Settled(r))
    <3>1. /\ req[r] \in Request
          /\ req[r].m \in MediaIds /\ e \in MediaRow /\ e.account \in Accounts
          /\ req[r].delta < e.size /\ req[r].parts = 0 .. (e.total - 1)
          /\ Exists(acct[e.account])
      BY <1>3, CommitLocals
      DEF CompleteCommit, Settling
    <3>2. /\ row \in MediaRow /\ row.account = e.account /\ row.total = e.total
          /\ row.status = "ready"
      <4>1. e.size - req[r].delta \in Nat
        BY <3>1 DEF MediaRow, Request
      <4> QED  BY <3>1, <4>1 DEF MediaRow
    <3>3. /\ acct' = Settled(r) /\ Finish(r)
          /\ media' = [media EXCEPT ![req[r].m] = row]
          /\ parts' = [parts EXCEPT ![req[r].m] = req[r].parts]
      BY <1>3, <2>2 DEF CompleteCommit
    <3> HIDE DEF row
    <3>7. GoodTable(acct')
      BY <1>3, <2>2, <3>3, SettledOK DEF CompleteCommit, Settling
    <3>4. /\ media' \in [MediaIds -> MediaRow]
          /\ \A m \in MediaIds : /\ MediaHasAccount(media'[m])
                                 /\ media'[m] # AbsentMedia => Exists(acct'[media'[m].account])
      BY <3>1, <3>2, <3>3, <3>7, RowWriteOK DEF GoodTable
    <3>5. parts' \in [MediaIds -> SUBSET PartIndices]
      BY <3>1, <3>3 DEF RowsInv, TypeOK, Request
    <3>6. \A m \in MediaIds : media'[m].status = "ready" => parts'[m] = 0 .. (media'[m].total - 1)
      BY <3>1, <3>2, <3>3 DEF RowsInv, TypeOK, ReadyHasAllParts
    <3> QED  BY <3>3, <3>4, <3>5, <3>6, <3>7, WriteStep
  <2> QED  BY <2>1, <2>2
<1> QED  BY <1>1, <1>2, <1>3

(***************************************************************************)
(* directUploadAbort and remove: both release, on what they read.          *)
(***************************************************************************)
LEMMA PartsDeletedOK ==
  ASSUME RowsInv, NEW m \in MediaIds, NEW e, NEW after \in PartsDeleted(m, e)
  PROVE  /\ after \in [MediaIds -> SUBSET PartIndices]
         /\ \A n \in MediaIds \ {m} : after[n] = parts[n]
BY DEF PartsDeleted, RowsInv, TypeOK

LEMMA AbortKeepsInv ==
  ASSUME RowsInv, NEW r \in Requests
  PROVE  /\ \A m \in MediaIds : AbortRead(r, m) => RowsInv'
         /\ AbortLoad(r) => RowsInv'
         /\ AbortCommit(r) => RowsInv'
<1> USE VaultConstants
<1>1. ASSUME NEW m \in MediaIds, AbortRead(r, m)  PROVE RowsInv'
  <2> DEFINE local == [Idle EXCEPT !.pc = "abort_load", !.m = m, !.entity = media[m],
                         !.delta = media[m].size]
  <2>1. media[m] \in MediaRow /\ media[m].status = "uploading"
    BY <1>1 DEF AbortRead, RowsInv, TypeOK
  <2>2. media[m].account \in Accounts /\ Exists(acct[media[m].account])
    BY <2>1, TableIsGood, AccountKept DEF AbsentMedia
  <2>3. /\ media[m].size \in Nat
        /\ "abort_load" \in Aborting /\ "abort_load" \notin Settling
    BY <2>1 DEF MediaRow, Aborting, Settling
  <2>4. req' = [req EXCEPT ![r] = local] /\ UNCHANGED <<acct, media, parts>>
    BY <1>1 DEF AbortRead, Start
  <2>5. /\ local \in Request /\ local.pc = "abort_load" /\ local.m = m
        /\ local.entity = media[m] /\ local.delta = media[m].size /\ local.snap = Idle.snap
    BY <2>1, <2>3, IdleOK DEF Idle, Request, UploadPcs
  <2> HIDE DEF local
  <2>6. LocalsOK(local) /\ Refers(local)
    BY <2>1, <2>2, <2>3, <2>5, MediaReadOK
  <2> QED  BY ONLY RowsInv, <2>4, <2>5, <2>6, LocalStep DEF local
<1>2. ASSUME AbortLoad(r)  PROVE RowsInv'
  BY <1>2, LoadAccountKeepsInv DEF AbortLoad
<1>3. ASSUME AbortCommit(r)  PROVE RowsInv'
  <2> DEFINE e == req[r].entity
             m == req[r].m
             row == [media[m] EXCEPT !.account = e.account, !.size = e.size, !.status = "failed"]
  <2>1. CASE ~(media[m] # AbsentMedia /\ DatabaseAccepts(Settled(r)))
    BY <1>3, <2>1, EndStep DEF AbortCommit
  <2>2. CASE media[m] # AbsentMedia /\ DatabaseAccepts(Settled(r))
    <3>1. /\ m \in MediaIds /\ e \in MediaRow /\ e.account \in Accounts
          /\ Exists(acct[e.account]) /\ media[m] \in MediaRow
      BY <1>3, CommitLocals DEF AbortCommit, Settling, RowsInv, TypeOK
    <3>2. row \in MediaRow /\ row.account = e.account /\ row.status = "failed"
      BY <3>1 DEF MediaRow
    <3>3. media' = [media EXCEPT ![m] = row]
      BY <1>3, <2>2, <3>1 DEF AbortCommit, RowsInv, TypeOK, MediaRow
    <3>4. acct' = Settled(r) /\ Finish(r) /\ parts' \in PartsDeleted(m, e)
      BY <1>3, <2>2 DEF AbortCommit
    <3> HIDE DEF row
    <3>8. GoodTable(acct')
      BY <1>3, <2>2, <3>4, SettledOK DEF AbortCommit, Settling
    <3>5. /\ media' \in [MediaIds -> MediaRow]
          /\ \A n \in MediaIds : /\ MediaHasAccount(media'[n])
                                 /\ media'[n] # AbsentMedia => Exists(acct'[media'[n].account])
      BY <3>1, <3>2, <3>3, <3>8, RowWriteOK DEF GoodTable
    <3>6. /\ parts' \in [MediaIds -> SUBSET PartIndices]
          /\ \A n \in MediaIds \ {m} : parts'[n] = parts[n]
      BY <3>1, <3>4, PartsDeletedOK
    <3>7. \A n \in MediaIds : media'[n].status = "ready" => parts'[n] = 0 .. (media'[n].total - 1)
      BY <3>1, <3>2, <3>3, <3>6 DEF RowsInv, TypeOK, ReadyHasAllParts
    <3> QED  BY <3>4, <3>5, <3>6, <3>7, <3>8, WriteStep
  <2> QED  BY <2>1, <2>2
<1> QED  BY <1>1, <1>2, <1>3

LEMMA RemoveKeepsInv ==
  ASSUME RowsInv, NEW r \in Requests
  PROVE  /\ \A m \in MediaIds : RemoveRead(r, m) => RowsInv'
         /\ RemoveDestroy(r) => RowsInv'
         /\ RemoveLoad(r) => RowsInv'
         /\ RemoveCommit(r) => RowsInv'
<1> USE VaultConstants
<1>1. ASSUME NEW m \in MediaIds, RemoveRead(r, m)  PROVE RowsInv'
  <2> DEFINE delta == Releasable(media[m])
             pc    == IF media[m].orphaned THEN RemoveTransaction(media[m])
                                           ELSE "remove_destroy"
             local == [Idle EXCEPT !.pc = pc, !.m = m, !.entity = media[m], !.delta = delta]
  <2>1. /\ media[m] \in MediaRow /\ media[m].account \in Accounts
        /\ Exists(acct[media[m].account])
    BY <1>1, TableIsGood, AccountKept DEF RemoveRead, RowsInv, TypeOK
  <2>2. delta \in Nat
    BY <2>1 DEF MediaRow, Releasable
  <2>3. pc \in Removing /\ (pc \in Settling => delta = 0)
    BY <2>2 DEF RemoveTransaction, Removing, Settling
  <2>4. req' = [req EXCEPT ![r] = local] /\ UNCHANGED <<acct, media, parts>>
    BY <1>1 DEF RemoveRead, Start
  <2> HIDE DEF delta, pc
  <2>5. /\ local \in Request /\ local.pc = pc /\ local.m = m /\ local.entity = media[m]
        /\ local.delta = delta /\ local.snap = Idle.snap
    BY <2>1, <2>2, <2>3, IdleOK DEF Idle, Request, UploadPcs, Removing
  <2>6. delta = Releasable(media[m])
    BY DEF delta
  <2> HIDE DEF local
  <2>7. LocalsOK(local) /\ Refers(local)
    BY <2>1, <2>2, <2>3, <2>5, <2>6, MediaReadOK
  <2> QED  BY ONLY RowsInv, <2>4, <2>5, <2>7, LocalStep DEF local
<1>2. ASSUME RemoveDestroy(r)  PROVE RowsInv'
  <2> DEFINE pc    == RemoveTransaction(req[r].entity)
             local == [req[r] EXCEPT !.pc = pc]
  <2>1. /\ pc \in {"remove_load", "remove_commit"}
        /\ pc = "remove_commit" => ~(Releasable(req[r].entity) > 0)
    BY DEF RemoveTransaction
  <2>2. req' = [req EXCEPT ![r] = local] /\ UNCHANGED <<acct, media, parts>>
    BY <1>2 DEF RemoveDestroy, Goto, RowsInv, TypeOK, Request
  <2> HIDE DEF pc
  <2>3. req[r] \in Request /\ LocalsOK(req[r]) /\ Refers(req[r]) /\ req[r].pc \in Removing
    BY <1>2, LocalsType DEF RemoveDestroy, Removing
  <2>4. /\ local \in Request /\ local.pc = pc /\ local.snap = req[r].snap
        /\ local.m = req[r].m /\ local.entity = req[r].entity /\ local.delta = req[r].delta
    BY <2>1, <2>3 DEF Request, UploadPcs
  <2>6. req[r].pc \in UploadPcs \ Announcing /\ pc \in Removing
    BY <2>1, <2>3 DEF Removing, UploadPcs, Announcing
  <2> HIDE DEF local
  <2>5. LocalsOK(local) /\ Refers(local)
    BY <2>1, <2>3, <2>4, <2>6
    DEF LocalsOK, Refers, UploadPcs, Announcing, Completing, Aborting, Removing, Settling
  <2> QED  BY ONLY RowsInv, <2>2, <2>4, <2>5, LocalStep DEF local
<1>3. ASSUME RemoveLoad(r)  PROVE RowsInv'
  BY <1>3, LoadAccountKeepsInv DEF RemoveLoad
<1>4. ASSUME RemoveCommit(r)  PROVE RowsInv'
  <2> DEFINE m == req[r].m
  <2>1. CASE ~DatabaseAccepts(Settled(r))
    BY <1>4, <2>1, EndStep DEF RemoveCommit
  <2>2. CASE DatabaseAccepts(Settled(r))
    <3>1. m \in MediaIds
      BY <1>4, CommitLocals DEF RemoveCommit, Settling
    <3>2. /\ acct' = Settled(r) /\ Finish(r) /\ parts' \in PartsDeleted(m, req[r].entity)
          /\ media' = [media EXCEPT ![m] = AbsentMedia]
      BY <1>4, <2>2 DEF RemoveCommit
    <3>3. AbsentMedia \in MediaRow /\ AbsentMedia.status # "ready"
      BY DEF AbsentMedia, MediaRow
    <3>7. GoodTable(acct')
      BY <1>4, <2>2, <3>2, SettledOK DEF RemoveCommit, Settling
    <3>4. /\ media' \in [MediaIds -> MediaRow]
          /\ \A n \in MediaIds : /\ MediaHasAccount(media'[n])
                                 /\ media'[n] # AbsentMedia => Exists(acct'[media'[n].account])
      BY <3>1, <3>2, <3>3, <3>7, RowWriteOK
    <3>5. /\ parts' \in [MediaIds -> SUBSET PartIndices]
          /\ \A n \in MediaIds \ {m} : parts'[n] = parts[n]
      BY <3>1, <3>2, PartsDeletedOK
    <3>6. \A n \in MediaIds : media'[n].status = "ready" => parts'[n] = 0 .. (media'[n].total - 1)
      BY <3>1, <3>2, <3>3, <3>5 DEF RowsInv, TypeOK, ReadyHasAllParts
    <3> QED  BY <3>2, <3>4, <3>5, <3>6, <3>7, WriteStep
  <2> QED  BY <2>1, <2>2
<1> QED  BY <1>1, <1>2, <1>3, <1>4
(***************************************************************************)
(* The account requests.  None of their writes raises a usage or lowers a  *)
(* limit, and a deactivation touches only the orphan flag of the media.    *)
(***************************************************************************)
SameBytes(row, old) ==
  /\ row \in AccountRow /\ row.used = old.used /\ row.limit = old.limit
  /\ Exists(old) => Exists(row)

LEMMA SameBytesStep ==
  ASSUME RowsInv, NEW r \in Requests, Finish(r), UNCHANGED <<media, parts>>,
         acct' \in [Accounts -> AccountRow], DatabaseAccepts(acct'),
         \A a \in Accounts : SameBytes(acct'[a], acct[a])
  PROVE  RowsInv'
<1>1. GoodTable(acct')
  BY DEF SameBytes, GoodTable, RowsInv, UsedWithinLimit
<1> QED  BY <1>1, AccountWriteStep

\* The locals of a request that no media item is the matter of.
LEMMA NoUploadOK ==
  ASSUME NEW local \in Request, local.pc \in AccountPcs, local.snap.used <= local.snap.limit,
         local.pc \in {"promote_primary", "promote_write", "deactivate_count",
                      "deactivate_orphan", "deactivate_write"} => local.target \in Accounts
  PROVE  LocalsOK(local) /\ Refers(local)
<1>1. /\ local.pc \notin UploadPcs /\ local.pc \notin Announcing
      /\ local.pc \notin Completing /\ local.pc \notin Aborting
      /\ local.pc \notin Removing /\ local.pc \notin Settling /\ local.pc # "reserve"
  BY DEF AccountPcs, UploadPcs, Announcing, Completing, Aborting, Removing, Settling
<1> QED  BY <1>1 DEF LocalsOK, Refers

LEMMA CreateKeepsInv ==
  ASSUME RowsInv, NEW r \in Requests
  PROVE  /\ CreateReadPrimary(r) => RowsInv'
         /\ CreateReadSlots(r) => RowsInv'
         /\ \A a \in Accounts : CreateInsert(r, a) => RowsInv'
<1> USE VaultConstants
<1>1. ASSUME CreateReadPrimary(r)  PROVE RowsInv'
  <2> DEFINE pc    == IF ActivePrimaries = {} THEN "create_insert" ELSE "create_slots"
             local == [Idle EXCEPT !.pc = pc]
  <2>1. pc \in {"create_insert", "create_slots"}
    OBVIOUS
  <2>2. req' = [req EXCEPT ![r] = local] /\ UNCHANGED <<acct, media, parts>>
    BY <1>1 DEF CreateReadPrimary, Start
  <2> HIDE DEF pc
  <2>3. local \in Request /\ local.pc = pc /\ local.snap = Idle.snap
    BY <2>1, IdleOK DEF Idle, Request, AccountPcs
  <2> HIDE DEF local
  <2>4. LocalsOK(local) /\ Refers(local)
    BY <2>1, <2>3, IdleOK, NoUploadOK DEF LocalsOK, AccountPcs
  <2> QED  BY ONLY RowsInv, <2>2, <2>3, <2>4, LocalStep DEF local
<1>2. ASSUME CreateReadSlots(r)  PROVE RowsInv'
  <2> DEFINE free == {s \in {1, 2} : InSlot(s) = {}}
  <2>1. CASE free = {}
    BY <1>2, <2>1, EndStep DEF CreateReadSlots
  <2>2. CASE free # {}
    <3> DEFINE slot  == Min(free)
               local == [req[r] EXCEPT !.pc = "create_insert", !.slot = slot]
    <3>1. slot \in 0..2
      <4>1. \E x \in free : \A y \in free : x <= y
        BY <2>2
      <4>2. slot \in free
        BY <4>1 DEF Min
      <4> QED  BY <4>2
    <3>2. req' = [req EXCEPT ![r] = local] /\ UNCHANGED <<acct, media, parts>>
      BY <1>2, <2>2 DEF CreateReadSlots, Goto
    <3> HIDE DEF slot, free
    <3>3. local \in Request /\ local.pc = "create_insert" /\ local.snap = req[r].snap
      BY <3>1, LocalsType DEF Request, AccountPcs
    <3> HIDE DEF local
    <3>4. LocalsOK(local) /\ Refers(local)
      BY <3>3, LocalsType, NoUploadOK DEF LocalsOK, AccountPcs
    <3> QED  BY ONLY RowsInv, <3>2, <3>3, <3>4, LocalStep DEF local
  <2> QED  BY <2>1, <2>2
<1>3. ASSUME NEW a \in Accounts, CreateInsert(r, a)  PROVE RowsInv'
  <2> DEFINE row  == NewAccount(req[r].slot)
             rows == [acct EXCEPT ![a] = row]
  <2>1. row \in AccountRow /\ row.used <= row.limit
    BY LocalsType DEF NewAccount, AccountRow, Request, Primary, Secondary
  <2>2. /\ acct' = acct \/ (acct' = rows /\ DatabaseAccepts(rows))
        /\ Finish(r) /\ UNCHANGED <<media, parts>> /\ ~Exists(acct[a])
    BY <1>3 DEF CreateInsert, Exists, AbsentAccount
  <2>3. GoodTable(acct)
    BY TableIsGood
  <2> HIDE DEF row
  <2>4. GoodTable(acct')
    BY <2>1, <2>2, <2>3 DEF GoodTable
  <2> QED  BY ONLY RowsInv, <2>2, <2>4, AccountWriteStep
<1> QED  BY <1>1, <1>2, <1>3

LEMMA SlotSet ==
  ASSUME NEW rows \in [Accounts -> AccountRow], NEW a, NEW slot \in 0..2
  PROVE  /\ [rows EXCEPT ![a].slot = slot] \in [Accounts -> AccountRow]
         /\ \A b \in Accounts : SameBytes([rows EXCEPT ![a].slot = slot][b], rows[b])
<1>1. \A b \in Accounts : LET row == [rows[b] EXCEPT !.slot = slot]
                         IN  row \in AccountRow /\ row.used = rows[b].used
                             /\ row.limit = rows[b].limit /\ row.role = rows[b].role
  BY DEF AccountRow
<1> QED  BY <1>1 DEF SameBytes, Exists

LEMMA RoleSet ==
  ASSUME NEW rows \in [Accounts -> AccountRow], NEW a, NEW role \in {Primary, Secondary}
  PROVE  /\ [rows EXCEPT ![a].role = role] \in [Accounts -> AccountRow]
         /\ \A b \in Accounts : SameBytes([rows EXCEPT ![a].role = role][b], rows[b])
<1>1. \A b \in Accounts : LET row == [rows[b] EXCEPT !.role = role]
                         IN  row \in AccountRow /\ row.used = rows[b].used
                             /\ row.limit = rows[b].limit /\ row.role # "absent"
  BY DEF AccountRow, Primary, Secondary
<1> QED  BY <1>1 DEF SameBytes, Exists

LEMMA ActiveSet ==
  ASSUME NEW rows \in [Accounts -> AccountRow], NEW a, NEW active \in BOOLEAN
  PROVE  /\ [rows EXCEPT ![a].active = active] \in [Accounts -> AccountRow]
         /\ \A b \in Accounts : SameBytes([rows EXCEPT ![a].active = active][b], rows[b])
<1>1. \A b \in Accounts : LET row == [rows[b] EXCEPT !.active = active]
                         IN  row \in AccountRow /\ row.used = rows[b].used
                             /\ row.limit = rows[b].limit /\ row.role = rows[b].role
  BY DEF AccountRow
<1> QED  BY <1>1 DEF SameBytes, Exists

LEMMA SwapKeepsInv ==
  ASSUME RowsInv, NEW r \in Requests
  PROVE  /\ SwapRead(r) => RowsInv'
         /\ SwapWrite(r) => RowsInv'
<1> USE VaultConstants
<1> DEFINE Kept(rows) == /\ rows \in [Accounts -> AccountRow]
                         /\ \A b \in Accounts : SameBytes(rows[b], acct[b])
           Allowed(rows) == Kept(rows) /\ DatabaseAccepts(rows)
<1>1. Allowed(acct)
  BY DEF SameBytes, RowsInv, TypeOK
<1>2. ASSUME NEW x, NEW y, NEW s \in 0..2, NEW t \in 0..2  PROVE Allowed(Swapped(x, s, y, t))
  <2> DEFINE rows1 == [acct EXCEPT ![x].slot = s]
             rows2 == [rows1 EXCEPT ![y].slot = t]
  <2>1. rows1 \in [Accounts -> AccountRow] /\ \A b \in Accounts : SameBytes(rows1[b], acct[b])
    BY <1>1, SlotSet
  <2>2. \/ Swapped(x, s, y, t) = acct
        \/ Swapped(x, s, y, t) = rows2 /\ DatabaseAccepts(rows2)
    BY DEF Swapped
  <2> HIDE DEF rows1
  <2>3. rows2 \in [Accounts -> AccountRow] /\ \A b \in Accounts : SameBytes(rows2[b], rows1[b])
    BY <2>1, SlotSet
  <2>4. Kept(rows2)
    BY <2>1, <2>3 DEF SameBytes
  <2> QED  BY <1>1, <2>2, <2>4
<1>3. ASSUME SwapRead(r)  PROVE RowsInv'
  <2> DEFINE x     == FindOne(InSlot(1))
             y     == FindOne(InSlot(2))
             local == [Idle EXCEPT !.pc = "swap_write", !.target = x, !.other = y]
  <2>1. x \in Accounts /\ y \in Accounts
    BY <1>3 DEF SwapRead, FindOne, InSlot, ActiveSecondaries, ActiveAccounts, RowsInv, TypeOK
  <2>2. req' = [req EXCEPT ![r] = local] /\ UNCHANGED <<acct, media, parts>>
    BY <1>3 DEF SwapRead, Start
  <2> HIDE DEF x, y
  <2>3. local \in Request /\ local.pc = "swap_write" /\ local.snap = Idle.snap
    BY <2>1, IdleOK DEF Idle, Request, AccountPcs
  <2> HIDE DEF local
  <2>4. LocalsOK(local) /\ Refers(local)
    BY <2>3, IdleOK, NoUploadOK DEF LocalsOK, AccountPcs
  <2> QED  BY ONLY RowsInv, <2>2, <2>3, <2>4, LocalStep DEF local
<1>4. ASSUME SwapWrite(r)  PROVE RowsInv'
  <2>1. Finish(r) /\ UNCHANGED <<media, parts>> /\ Allowed(acct')
    BY <1>2, <1>4 DEF SwapWrite
  <2> QED  BY <2>1, SameBytesStep
<1> QED  BY <1>3, <1>4
LEMMA PromoteKeepsInv ==
  ASSUME RowsInv, NEW r \in Requests
  PROVE  /\ \A a \in Accounts : PromoteRead(r, a) => RowsInv'
         /\ PromoteReadPrimary(r) => RowsInv'
         /\ PromoteWrite(r) => RowsInv'
<1> USE VaultConstants
<1>1. ASSUME NEW a \in Accounts, PromoteRead(r, a)  PROVE RowsInv'
  <2> DEFINE slot  == acct[a].slot
             local == [Idle EXCEPT !.pc = "promote_primary", !.target = a, !.slot = slot]
  <2>1. slot \in 0..2
    BY DEF RowsInv, TypeOK, AccountRow
  <2>2. req' = [req EXCEPT ![r] = local] /\ UNCHANGED <<acct, media, parts>>
    BY <1>1 DEF PromoteRead, Start
  <2> HIDE DEF slot
  <2>3. /\ local \in Request /\ local.pc = "promote_primary" /\ local.snap = Idle.snap
        /\ local.target \in Accounts
    BY <2>1, IdleOK DEF Idle, Request, AccountPcs
  <2> HIDE DEF local
  <2>4. LocalsOK(local) /\ Refers(local)
    BY <2>3, IdleOK, NoUploadOK DEF LocalsOK, AccountPcs
  <2> QED  BY ONLY RowsInv, <2>2, <2>3, <2>4, LocalStep DEF local
<1>2. ASSUME PromoteReadPrimary(r)  PROVE RowsInv'
  <2> DEFINE other == FindOne(ActivePrimaries)
             local == [req[r] EXCEPT !.pc = "promote_write", !.other = other]
  <2>1. other \in Accounts \cup {None}
    BY DEF FindOne, ActivePrimaries, ActiveAccounts, RowsInv, TypeOK
  <2>2. req' = [req EXCEPT ![r] = local] /\ UNCHANGED <<acct, media, parts>>
    BY <1>2 DEF PromoteReadPrimary, Goto
  <2> HIDE DEF other
  <2>5. req[r].pc = "promote_primary" /\ req[r].target \in Accounts
    BY <1>2, LocalsType DEF PromoteReadPrimary, LocalsOK
  <2>3. /\ local \in Request /\ local.pc = "promote_write" /\ local.snap = req[r].snap
        /\ local.target \in Accounts
    BY <2>1, <2>5, LocalsType DEF Request, AccountPcs
  <2> HIDE DEF local
  <2>4. LocalsOK(local) /\ Refers(local)
    BY <2>3, LocalsType, NoUploadOK DEF LocalsOK, AccountPcs
  <2> QED  BY ONLY RowsInv, <2>2, <2>3, <2>4, LocalStep DEF local
<1>3. ASSUME PromoteWrite(r)  PROVE RowsInv'
  <2> DEFINE Kept(rows) == /\ rows \in [Accounts -> AccountRow]
                           /\ \A b \in Accounts : SameBytes(rows[b], acct[b])
             x        == req[r].target
             old      == req[r].other
             slot     == req[r].slot
             hidden   == [acct EXCEPT ![x].active = FALSE]
             demoted1 == [hidden EXCEPT ![old].role = Secondary]
             demoted  == [demoted1 EXCEPT ![old].slot = slot]
             raised1  == [demoted EXCEPT ![x].role = Primary]
             raised2  == [raised1 EXCEPT ![x].slot = NullSlot]
             raised   == [raised2 EXCEPT ![x].active = TRUE]
             alone1   == [acct EXCEPT ![x].role = Primary]
             alone    == [alone1 EXCEPT ![x].slot = NullSlot]
             tables   == PromoteStatements(x, old, slot)
  <2>1. tables = IF old = None THEN <<alone>> ELSE <<hidden, demoted, raised>>
    BY DEF PromoteStatements
  <2> HIDE DEF slot, hidden, demoted1, demoted, raised1, raised2, raised, alone1, alone, tables
  <2>2. tables[Len(tables)] \in {alone, raised} /\ Len(tables) \in DOMAIN tables
    <3>1. CASE old = None
      BY <2>1, <3>1
    <3>2. CASE old # None
      BY <2>1, <3>2
    <3> QED  BY <3>1, <3>2
  <2>3. /\ acct' \in {alone, raised, acct} /\ Finish(r) /\ UNCHANGED <<media, parts>>
        /\ DatabaseAccepts(acct')
    <3>1. acct' = acct \/ (acct' = tables[Len(tables)] /\ DatabaseAccepts(tables[Len(tables)]))
      BY <1>3, <2>2 DEF PromoteWrite, tables, slot
    <3>2. Finish(r) /\ UNCHANGED <<media, parts>>
      BY <1>3 DEF PromoteWrite
    <3> QED  BY <2>2, <3>1, <3>2 DEF RowsInv
  <2>4. Kept(acct) /\ slot \in 0..2 /\ NullSlot \in 0..2
    BY LocalsType DEF SameBytes, RowsInv, TypeOK, Request, NullSlot, slot
  <2>5. ASSUME NEW rows, NEW next, Kept(rows), next \in [Accounts -> AccountRow],
               \A b \in Accounts : SameBytes(next[b], rows[b])
        PROVE  Kept(next)
    BY <2>5 DEF SameBytes
  <2>6. Kept(alone)
    <3>1. Kept(alone1)
      BY <2>4, <2>5, RoleSet DEF alone1
    <3> QED  BY <2>4, <2>5, <3>1, SlotSet DEF alone
  <2>7. Kept(raised)
    <3>1. Kept(hidden)
      BY <2>4, ActiveSet DEF hidden
    <3>2. /\ demoted1 \in [Accounts -> AccountRow]
          /\ \A b \in Accounts : SameBytes(demoted1[b], hidden[b])
      BY <3>1, RoleSet DEF demoted1
    <3>3. Kept(demoted1)
      BY <2>5, <3>1, <3>2
    <3>4. Kept(demoted)
      BY <2>4, <2>5, <3>3, SlotSet DEF demoted
    <3>5. /\ raised1 \in [Accounts -> AccountRow]
          /\ \A b \in Accounts : SameBytes(raised1[b], demoted[b])
      BY <3>4, RoleSet DEF raised1
    <3>6. Kept(raised1)
      BY <2>5, <3>4, <3>5
    <3>7. Kept(raised2)
      BY <2>4, <2>5, <3>6, SlotSet DEF raised2
    <3>8. /\ raised \in [Accounts -> AccountRow]
          /\ \A b \in Accounts : SameBytes(raised[b], raised2[b])
      BY <3>7, ActiveSet DEF raised
    <3> QED  BY <2>5, <3>7, <3>8
  <2> QED  BY <2>3, <2>4, <2>6, <2>7, SameBytesStep
<1> QED  BY <1>1, <1>2, <1>3

\* A request of deactivate that goes on with the rows it has marked.
LEMMA DeactivatingOK ==
  ASSUME RowsInv, NEW r \in Requests, NEW orphans \in SUBSET MediaIds,
         NEW pc \in {"deactivate_orphan", "deactivate_write"},
         req[r].pc \in {"deactivate_count", "deactivate_orphan"}
  PROVE  /\ [req[r] EXCEPT !.pc = pc, !.orphans = orphans] \in Request
         /\ LocalsOK([req[r] EXCEPT !.pc = pc, !.orphans = orphans])
         /\ Refers([req[r] EXCEPT !.pc = pc, !.orphans = orphans])
<1> DEFINE local == [req[r] EXCEPT !.pc = pc, !.orphans = orphans]
<1>1. req[r] \in Request /\ LocalsOK(req[r])
  BY LocalsType
<1>2. local \in Request
  BY <1>1 DEF Request, AccountPcs
<1>3. /\ local.pc = pc /\ local.snap = req[r].snap
      /\ local.target = req[r].target
  BY <1>1 DEF Request
<1>4. req[r].target \in Accounts /\ req[r].snap.used <= req[r].snap.limit
  BY <1>1 DEF LocalsOK
<1> HIDE DEF local
<1>5. LocalsOK(local) /\ Refers(local)
  BY <1>2, <1>3, <1>4, NoUploadOK DEF AccountPcs
<1> QED  BY <1>2, <1>5 DEF local

\* An account that is made inactive leaves the unique indexes.
LEMMA HidingOK ==
  ASSUME NEW rows \in [Accounts -> AccountRow], DatabaseAccepts(rows), NEW a \in Accounts
  PROVE  DatabaseAccepts([rows EXCEPT ![a].active = FALSE])
<1> DEFINE hidden == [rows EXCEPT ![a].active = FALSE]
<1>1. hidden \in [Accounts -> AccountRow]
  BY ActiveSet
<1>2. \A b \in Accounts :
         /\ hidden[b].role = rows[b].role /\ hidden[b].slot = rows[b].slot
         /\ hidden[b].active => rows[b].active
         /\ ~rows[b].active => hidden[b] = rows[b]
         /\ rows[b].active => rows[b] # AbsentAccount
  <2>1. ASSUME NEW b \in Accounts, b # a  PROVE hidden[b] = rows[b]
    BY <2>1
  <2>2. hidden[a] = [rows[a] EXCEPT !.active = FALSE]
    OBVIOUS
  <2>3. rows[a] \in AccountRow
    OBVIOUS
  <2>4. /\ hidden[a].role = rows[a].role /\ hidden[a].slot = rows[a].slot
        /\ ~hidden[a].active
    BY <2>2, <2>3 DEF AccountRow
  <2>5. ~rows[a].active => hidden[a] = rows[a]
    BY <2>2, <2>3 DEF AccountRow
  <2>6. ~AbsentAccount.active
    BY DEF AbsentAccount
  <2> HIDE DEF hidden
  <2> QED  BY <2>1, <2>4, <2>5, <2>6
<1>3. /\ \A b \in Accounts : RoleSlotCheck(rows[b])
      /\ \A b, c \in Accounts :
            rows[b].active /\ rows[c].active /\ FillRank(rows[b]) = FillRank(rows[c]) => b = c
  BY DEF DatabaseAccepts, UniqueIndexes, ActiveAccounts
<1> HIDE DEF hidden
<1>4. \A b \in Accounts : FillRank(hidden[b]) = FillRank(rows[b])
  BY <1>2 DEF FillRank
<1>5. UniqueIndexes(hidden)
  BY <1>1, <1>2, <1>3, <1>4 DEF UniqueIndexes, ActiveAccounts
<1>6. \A b \in Accounts : RoleSlotCheck(hidden[b])
  BY <1>2, <1>3 DEF RoleSlotCheck
<1> QED  BY <1>1, <1>5, <1>6 DEF DatabaseAccepts, hidden

LEMMA DeactivateKeepsInv ==
  ASSUME RowsInv, OrphansHeld, NEW r \in Requests
  PROVE  /\ \A a \in Accounts, force \in ForceChoices : DeactivateRead(r, a, force) => RowsInv'
         /\ DeactivateCount(r) => RowsInv'
         /\ DeactivateOrphan(r) => RowsInv'
         /\ DeactivateWrite(r) => RowsInv'
<1> USE VaultConstants
<1>1. ASSUME NEW a \in Accounts, NEW force \in ForceChoices, DeactivateRead(r, a, force)
      PROVE  RowsInv'
  <2> DEFINE local == [Idle EXCEPT !.pc = "deactivate_count", !.target = a, !.flag = force]
  <2>1. req' = [req EXCEPT ![r] = local] /\ UNCHANGED <<acct, media, parts>>
    BY <1>1 DEF DeactivateRead, Start
  <2>2. /\ local \in Request /\ local.pc = "deactivate_count" /\ local.snap = Idle.snap
        /\ local.target \in Accounts
    BY IdleOK, ForceIsBoolean DEF Idle, Request, AccountPcs
  <2> HIDE DEF local
  <2>3. LocalsOK(local) /\ Refers(local)
    BY <2>2, IdleOK, NoUploadOK DEF LocalsOK, AccountPcs
  <2> QED  BY ONLY RowsInv, <2>1, <2>2, <2>3, LocalStep DEF local
<1>2. ASSUME DeactivateCount(r)  PROVE RowsInv'
  <2> DEFINE linked == LinkedMedia(req[r].target) # {}
             pc == IF linked THEN "deactivate_orphan" ELSE "deactivate_write"
             local == [req[r] EXCEPT !.pc = pc, !.orphans = {}]
  <2>1. CASE linked /\ ~req[r].flag
    BY <1>2, <2>1, EndStep DEF DeactivateCount
  <2>2. CASE ~(linked /\ ~req[r].flag)
    <3>1. req' = [req EXCEPT ![r] = local] /\ UNCHANGED <<acct, media, parts>>
      BY <1>2, <2>2 DEF DeactivateCount, Goto
    <3>2. /\ pc \in {"deactivate_orphan", "deactivate_write"} /\ {} \in SUBSET MediaIds
          /\ req[r].pc = "deactivate_count"
      BY <1>2 DEF DeactivateCount
    <3> HIDE DEF pc
    <3>3. local \in Request /\ LocalsOK(local) /\ Refers(local)
      BY <3>2, DeactivatingOK
    <3> HIDE DEF local
    <3> QED  BY ONLY RowsInv, <3>1, <3>3, LocalStep
  <2> QED  BY <2>1, <2>2
<1>4. ASSUME DeactivateOrphan(r)  PROVE RowsInv'
  <2> DEFINE linked == LinkedMedia(req[r].target)
             local == [req[r] EXCEPT !.pc = "deactivate_write", !.orphans = linked]
  <2>1. req' = [req EXCEPT ![r] = local] /\ UNCHANGED <<acct, media, parts>>
        /\ req[r].pc = "deactivate_orphan"
    BY <1>4 DEF DeactivateOrphan, Goto
  <2>2. linked \in SUBSET MediaIds
    BY DEF LinkedMedia
  <2> HIDE DEF linked
  <2>3. local \in Request /\ LocalsOK(local) /\ Refers(local)
    BY <2>1, <2>2, DeactivatingOK
  <2> HIDE DEF local
  <2> QED  BY ONLY RowsInv, <2>1, <2>3, LocalStep
<1>3. ASSUME DeactivateWrite(r)  PROVE RowsInv'
  <2> DEFINE a       == req[r].target
             orphans == req[r].orphans
             Orphaned(m) == IF m \in orphans THEN [media[m] EXCEPT !.orphaned = TRUE]
                                             ELSE media[m]
  <2>1. /\ acct' = [acct EXCEPT ![a].active = FALSE]
        /\ media' = [m \in MediaIds |-> Orphaned(m)]
        /\ Finish(r) /\ parts' = parts
    BY <1>3 DEF DeactivateWrite
  <2>2. a \in Accounts
    BY <1>3, LocalsType DEF DeactivateWrite, LocalsOK
  <2>3. acct' \in [Accounts -> AccountRow] /\ \A b \in Accounts : SameBytes(acct'[b], acct[b])
    BY <2>1, ActiveSet DEF RowsInv, TypeOK
  <2>9. DatabaseAccepts(acct')
    BY <2>1, <2>2, HidingOK DEF RowsInv, TypeOK
  <2>7. GoodTable(acct')
    BY <2>3, <2>9 DEF SameBytes, GoodTable, RowsInv, UsedWithinLimit
  <2>4. ASSUME NEW m \in MediaIds
        PROVE  /\ Orphaned(m) \in MediaRow /\ MediaHasAccount(Orphaned(m))
               /\ Orphaned(m).status = media[m].status
               /\ Orphaned(m).total = media[m].total
               /\ Orphaned(m) # AbsentMedia => Exists(acct'[Orphaned(m).account])
    <3>1. /\ media[m] \in MediaRow /\ MediaHasAccount(media[m])
          /\ media[m] # AbsentMedia => Exists(acct'[media[m].account])
      BY <2>7, AccountKept DEF RowsInv, TypeOK
    <3>2. m \in orphans => media[m].account = a
      BY <1>3 DEF LinkedMedia, OrphansHeld, DeactivateWrite
    <3>3. CASE m \in orphans
      <4>1. media[m] # AbsentMedia
        BY <2>2, <3>2, <3>3 DEF AbsentMedia
      <4>2. /\ Orphaned(m) \in MediaRow /\ Orphaned(m).status = media[m].status
            /\ Orphaned(m).total = media[m].total /\ Orphaned(m).account = media[m].account
        BY <3>1, <3>3 DEF MediaRow
      <4> QED  BY <2>2, <3>1, <3>2, <3>3, <4>1, <4>2 DEF MediaHasAccount
    <3>4. CASE m \notin orphans
      BY <3>1, <3>4
    <3> QED  BY <3>3, <3>4
  <2> HIDE DEF Orphaned, orphans
  <2>5. /\ media' \in [MediaIds -> MediaRow]
        /\ \A m \in MediaIds : /\ MediaHasAccount(media'[m])
                               /\ media'[m] # AbsentMedia => Exists(acct'[media'[m].account])
    BY <2>1, <2>4
  <2>6. \A m \in MediaIds : media'[m].status = "ready" => parts'[m] = 0 .. (media'[m].total - 1)
    BY <2>1, <2>4 DEF RowsInv, ReadyHasAllParts
  <2>8. parts' \in [MediaIds -> SUBSET PartIndices]
    BY <2>1 DEF RowsInv, TypeOK
  <2> QED  BY <2>1, <2>5, <2>6, <2>7, <2>8, WriteStep
<1> QED  BY <1>1, <1>2, <1>3, <1>4

-----------------------------------------------------------------------------
LEMMA InitInv == VaultInit => VaultInv
<1> SUFFICES ASSUME VaultInit PROVE VaultInv
  OBVIOUS
<1>1. AbsentMedia \in MediaRow /\ AbsentMedia.status # "ready"
  BY VaultConstants DEF AbsentMedia, MediaRow
<1>3. \A r \in Requests : Refers(req[r])
  BY DEF VaultInit, Refers, Idle, UploadPcs, Settling
<1>2. TypeOK
  BY VaultConstants, <1>1, IdleOK DEF VaultInit, TypeOK
<1>4. OrphansHeld
  BY DEF VaultInit, OrphansHeld, Idle
<1> QED
  BY VaultConstants, <1>1, <1>2, <1>3, <1>4, IdleOK
  DEF VaultInit, VaultInv, RowsInv, UsedWithinLimit, ReadyHasAllParts, MediaHasAccount,
      AccountsExist

LEMMA NextKeepsRows == VaultInv /\ [Next]_vaultVars => RowsInv'
<1> SUFFICES ASSUME RowsInv, OrphansHeld, [Next]_vaultVars PROVE RowsInv'
  BY DEF VaultInv
<1>1. ASSUME NEW r \in Requests, MediaNext(r)  PROVE RowsInv'
  BY <1>1, InitKeepsInv, CompleteKeepsInv, AbortKeepsInv, RemoveKeepsInv DEF MediaNext
<1>2. ASSUME NEW r \in Requests, AccountsNext(r)  PROVE RowsInv'
  BY <1>2, CreateKeepsInv, SwapKeepsInv, PromoteKeepsInv, DeactivateKeepsInv DEF AccountsNext
<1>3. ASSUME NEW r \in Requests, Fail(r)  PROVE RowsInv'
  BY <1>3, EndStep DEF Fail
<1>4. CASE UNCHANGED vaultVars
  BY <1>4 DEF vaultVars, RowsInv, TypeOK, UsedWithinLimit, ReadyHasAllParts,
              MediaHasAccount, LocalsOK, AccountsExist, Refers, DatabaseAccepts,
              UniqueIndexes, ActiveAccounts
<1> QED  BY <1>1, <1>2, <1>3, <1>4 DEF Next

\* No step but the commit or the end of a deactivation frees the rows it has
\* marked, and every write of a media row waits for them.
LEMMA NextKeepsHeld == VaultInv /\ [Next]_vaultVars => OrphansHeld'
<1> SUFFICES ASSUME RowsInv, OrphansHeld, [Next]_vaultVars,
                    NEW q \in Requests, req'[q].pc = "deactivate_write",
                    NEW m \in req'[q].orphans
             PROVE  m \in LinkedMedia(req[q].target)' /\ ~MediaLocked(q, m)'
  BY DEF VaultInv, OrphansHeld
<1> DEFINE Marked(p) == req[p].pc = "deactivate_write" /\ m \in req[p].orphans
           Marks(p) == req'[p].pc = "deactivate_write" /\ m \in req'[p].orphans
<1>1. req \in [Requests -> Request] /\ media \in [MediaIds -> MediaRow]
  BY DEF RowsInv, TypeOK
<1>2. \A p, o \in Requests : Marked(p) /\ Marked(o) => p = o
  BY DEF OrphansHeld, MediaLocked
<1>3. \A p \in Requests : Marked(p) => m \in LinkedMedia(req[p].target)
  BY DEF OrphansHeld
<1>4. SUFFICES /\ req'[q].target = req[q].target
               /\ m \in MediaIds /\ media'[m].account = req[q].target /\ ~media'[m].orphaned
               /\ \A p \in Requests \ {q} : ~Marks(p)
  BY DEF LinkedMedia, MediaLocked
<1>5. Marks(q)
  OBVIOUS
\* A step of r that marks nothing and leaves the rows the others have marked.
<1>6. ASSUME NEW r \in Requests, \A p \in Requests \ {r} : req'[p] = req[p],
             req'[r].pc # "deactivate_write",
             media'[m] = media[m] \/ \A p \in Requests \ {r} : ~Marked(p)
      PROVE  /\ req'[q].target = req[q].target
             /\ m \in MediaIds /\ media'[m].account = req[q].target /\ ~media'[m].orphaned
             /\ \A p \in Requests \ {q} : ~Marks(p)
  <2>1. q # r /\ \A p \in Requests : Marks(p) => p # r /\ Marked(p)
    BY <1>5, <1>6
  <2>2. Marked(q) /\ req'[q].target = req[q].target /\ media'[m] = media[m]
    BY <1>5, <1>6, <2>1
  <2>3. m \in MediaIds /\ media[m].account = req[q].target /\ ~media[m].orphaned
    BY <1>3, <2>2 DEF LinkedMedia
  <2>4. \A p \in Requests \ {q} : ~Marks(p)
    BY <1>2, <2>1, <2>2
  <2> QED  BY <2>2, <2>3, <2>4
<1>7. ASSUME NEW r \in Requests, ~MediaLocked(r, req[r].m), NEW row,
             media' = media \/ media' = [media EXCEPT ![req[r].m] = row]
      PROVE  media'[m] = media[m] \/ \A p \in Requests \ {r} : ~Marked(p)
  <2>1. CASE m = req[r].m
    BY <1>7, <2>1 DEF MediaLocked
  <2>2. CASE m # req[r].m /\ m \in MediaIds
    BY <1>1, <1>7, <2>2
  <2>3. CASE m \notin MediaIds
    BY <1>3, <2>3 DEF LinkedMedia
  <2> QED  BY <2>1, <2>2, <2>3
<1>8. ASSUME NEW r \in Requests, Finish(r)
      PROVE  (\A p \in Requests \ {r} : req'[p] = req[p]) /\ req'[r].pc # "deactivate_write"
  BY <1>1, <1>8 DEF Finish, Idle
<1>9. ASSUME NEW r \in Requests, NEW pc \in UploadPcs \cup (AccountPcs \ {"deactivate_write"}),
             NEW local, local.pc = pc, Start(r, local) \/ Goto(r, local)
      PROVE  (\A p \in Requests \ {r} : req'[p] = req[p]) /\ req'[r].pc # "deactivate_write"
  BY <1>1, <1>9 DEF Start, Goto, UploadPcs, AccountPcs
<1> DEFINE Kept == /\ req'[q].target = req[q].target
                   /\ m \in MediaIds /\ media'[m].account = req[q].target
                   /\ ~media'[m].orphaned
                   /\ \A p \in Requests \ {q} : ~Marks(p)
<1>10. ASSUME NEW r \in Requests, MediaNext(r)  PROVE Kept
  <2>1. req[r] \in Request
    BY <1>1
  <2>2. ASSUME NEW n \in MediaIds, NEW size \in Sizes, NEW total \in 1..MaxParts,
               InitCheckExisting(r, n, size, total)
        PROVE  Kept
    BY <1>6, <1>9, <2>2 DEF InitCheckExisting, Idle, UploadPcs
  <2>3. CASE InitPreflight(r)
    <3>1. CASE Finish(r)
      BY <1>6, <1>8, <2>3, <3>1 DEF InitPreflight
    <3>2. CASE ~Finish(r)
      <4>1. PICK a : Goto(r, [req[r] EXCEPT !.pc = "reserve", !.target = a])
        BY <2>3, <3>2 DEF InitPreflight
      <4>2. [req[r] EXCEPT !.pc = "reserve", !.target = a].pc = "reserve"
        BY <2>1 DEF Request
      <4> QED  BY <1>6, <1>9, <2>3, <4>1, <4>2 DEF InitPreflight, UploadPcs
    <3> QED  BY <3>1, <3>2
  <2>4. CASE InitReserve(r) \/ CompleteCommit(r) \/ AbortCommit(r) \/ RemoveCommit(r)
    <3>1. Finish(r) /\ ~MediaLocked(r, req[r].m)
      BY <2>4 DEF InitReserve, CompleteCommit, AbortCommit, RemoveCommit
    <3>2. \E row : media' = media \/ media' = [media EXCEPT ![req[r].m] = row]
      <4>1. CASE InitReserve(r)
        BY <4>1 DEF InitReserve
      <4>2. CASE CompleteCommit(r)
        BY <4>2 DEF CompleteCommit
      <4>3. CASE AbortCommit(r)
        <5>1. CASE UNCHANGED media
          BY <5>1
        <5>2. CASE ~ UNCHANGED media
          <6> DEFINE k == req[r].m
                     e == req[r].entity
          <6>1. media' = [media EXCEPT ![k].account = e.account, ![k].size = e.size,
                                       ![k].status = "failed"]
            BY <4>3, <5>2 DEF AbortCommit
          <6>2. media' = [media EXCEPT ![k] = [media[k] EXCEPT !.account = e.account,
                                                 !.size = e.size, !.status = "failed"]]
            BY <1>1, <6>1
          <6> QED  BY <6>2
        <5> QED  BY <5>1, <5>2
      <4>4. CASE RemoveCommit(r)
        BY <4>4 DEF RemoveCommit
      <4> QED  BY <2>4, <4>1, <4>2, <4>3, <4>4
    <3>3. media'[m] = media[m] \/ \A p \in Requests \ {r} : ~Marked(p)
      BY <1>7, <3>1, <3>2
    <3> QED  BY <1>6, <1>8, <3>1, <3>3
  <2>5. ASSUME NEW n \in MediaIds, NEW indices \in SUBSET PartIndices, NEW compressed \in Sizes,
               CompleteRead(r, n, indices, compressed)
        PROVE  Kept
    <3> DEFINE pc == IF media[n].size - compressed > 0 THEN "complete_load"
                                                      ELSE "complete_commit"
    <3>1. \E local : local.pc = pc /\ Start(r, local)
      BY <2>5 DEF CompleteRead, Idle
    <3>2. pc \in UploadPcs /\ media' = media
      BY <2>5 DEF CompleteRead, UploadPcs
    <3> HIDE DEF pc
    <3> QED  BY <1>6, <1>9, <3>1, <3>2
  <2>6. ASSUME NEW from, NEW to \in UploadPcs, LoadAccount(r, from, to)  PROVE Kept
    <3>1. \E local : local.pc = to /\ Goto(r, local)
      BY <2>1, <2>6 DEF LoadAccount, Request
    <3> QED  BY <1>6, <1>9, <2>6, <3>1 DEF LoadAccount
  <2>7. ASSUME NEW n \in MediaIds, AbortRead(r, n) \/ RemoveRead(r, n)  PROVE Kept
    <3>1. \E pc \in {"abort_load", "remove_destroy", "remove_load", "remove_commit"} :
             \E local : local.pc = pc /\ Start(r, local)
      BY <2>7 DEF AbortRead, RemoveRead, RemoveTransaction, Idle
    <3>2. media' = media
      BY <2>7 DEF AbortRead, RemoveRead
    <3> QED  BY <1>6, <1>9, <3>1, <3>2 DEF UploadPcs
  <2>8. CASE RemoveDestroy(r)
    BY <1>6, <1>9, <2>1, <2>8 DEF RemoveDestroy, RemoveTransaction, Request, UploadPcs
  <2> HIDE DEF Kept
  <2> QED
    BY <1>10, <2>2, <2>3, <2>4, <2>5, <2>6, <2>7, <2>8
    DEF MediaNext, CompleteLoad, AbortLoad, RemoveLoad, UploadPcs
<1>11. ASSUME NEW r \in Requests, AccountsNext(r)  PROVE Kept
  <2>1. req[r] \in Request
    BY <1>1
  <2>2. CASE CreateReadPrimary(r) \/ SwapRead(r) \/ (\E a \in Accounts : PromoteRead(r, a))
             \/ \E a \in Accounts, force \in ForceChoices : DeactivateRead(r, a, force)
    <3>1. \E pc \in {"create_insert", "create_slots", "swap_write", "promote_primary",
                     "deactivate_count"} : \E local : local.pc = pc /\ Start(r, local)
      BY <2>2 DEF CreateReadPrimary, SwapRead, PromoteRead, DeactivateRead, Idle
    <3>2. media' = media
      BY <2>2 DEF CreateReadPrimary, SwapRead, PromoteRead, DeactivateRead
    <3> QED  BY <1>6, <1>9, <3>1, <3>2 DEF AccountPcs
  <2>3. CASE CreateReadSlots(r) /\ ~Finish(r)
    <3>1. PICK slot : Goto(r, [req[r] EXCEPT !.pc = "create_insert", !.slot = slot])
      BY <2>3 DEF CreateReadSlots
    <3> QED  BY <1>6, <1>9, <2>1, <2>3, <3>1 DEF CreateReadSlots, Request, AccountPcs
  <2>4. CASE PromoteReadPrimary(r)
    BY <1>6, <1>9, <2>1, <2>4 DEF PromoteReadPrimary, Request, AccountPcs
  <2>5. CASE /\ Finish(r)
             /\ \/ CreateReadSlots(r) \/ \E a \in Accounts : CreateInsert(r, a)
                \/ SwapWrite(r) \/ PromoteWrite(r) \/ DeactivateCount(r)
    BY <1>6, <1>8, <2>5
    DEF CreateReadSlots, CreateInsert, SwapWrite, PromoteWrite, DeactivateCount
  <2>6. CASE DeactivateCount(r) /\ ~Finish(r)
    <3>1. PICK pc \in {"deactivate_orphan", "deactivate_write"} :
             Goto(r, [req[r] EXCEPT !.pc = pc, !.orphans = {}])
      BY <2>6 DEF DeactivateCount
    <3>2. /\ \A p \in Requests \ {r} : req'[p] = req[p]
          /\ req'[r].target = req[r].target /\ req'[r].orphans = {} /\ media' = media
      BY <1>1, <2>1, <2>6, <3>1 DEF Goto, Request, DeactivateCount
    <3>3. q # r /\ \A p \in Requests : Marks(p) => p # r /\ Marked(p)
      BY <1>5, <3>2
    <3> QED  BY <1>2, <1>3, <3>2, <3>3 DEF LinkedMedia
  <2>7. CASE DeactivateOrphan(r)
    <3>1. /\ \A p \in Requests \ {r} : req'[p] = req[p]
          /\ req'[r].target = req[r].target /\ req'[r].orphans = LinkedMedia(req[r].target)
          /\ media' = media /\ \A n \in LinkedMedia(req[r].target) : ~MediaLocked(r, n)
      BY <1>1, <2>1, <2>7 DEF DeactivateOrphan, Goto, Request
    <3>2. m \in req'[r].orphans => \A p \in Requests \ {r} : ~Marked(p)
      BY <3>1 DEF MediaLocked
    <3>3. CASE q = r
      BY <3>1, <3>2, <3>3 DEF LinkedMedia
    <3>4. CASE q # r
      <4>1. Marked(q) /\ m \notin req'[r].orphans
        BY <1>5, <3>1, <3>2, <3>4
      <4>2. \A p \in Requests \ {q} : ~Marks(p)
        BY <1>2, <3>1, <4>1
      <4> QED  BY <1>3, <3>1, <3>4, <4>1, <4>2 DEF LinkedMedia
    <3> QED  BY <3>3, <3>4
  <2>8. CASE DeactivateWrite(r)
    <3>1. m \notin req[r].orphans => media'[m] = media[m]
      <4>1. q # r
        BY <1>1, <1>5, <2>8 DEF DeactivateWrite, Finish, Idle
      <4>2. m \in MediaIds
        BY <1>1, <1>3, <1>5, <2>8, <4>1 DEF DeactivateWrite, Finish, LinkedMedia
      <4> QED  BY <2>8, <4>2 DEF DeactivateWrite
    <3>2. m \in req[r].orphans => \A p \in Requests \ {r} : ~Marked(p)
      BY <1>2, <2>8 DEF DeactivateWrite
    <3> QED  BY <1>6, <1>8, <2>8, <3>1, <3>2 DEF DeactivateWrite
  <2> HIDE DEF Kept
  <2> QED  BY <1>11, <2>2, <2>3, <2>4, <2>5, <2>6, <2>7, <2>8 DEF AccountsNext, CreateInsert,
              SwapWrite, PromoteWrite
<1>12. ASSUME NEW r \in Requests, Fail(r)  PROVE Kept
  BY <1>6, <1>8, <1>12 DEF Fail
<1>13. CASE UNCHANGED vaultVars
  BY <1>2, <1>3, <1>5, <1>13 DEF vaultVars, LinkedMedia
<1> QED  BY <1>10, <1>11, <1>12, <1>13 DEF Next

LEMMA NextKeepsInv == VaultInv /\ [Next]_vaultVars => VaultInv'
BY NextKeepsRows, NextKeepsHeld DEF VaultInv

\* The inductive invariant of the vault: what an overlapping request carries
\* from its reads to its commit keeps usage within the limits and a ready item
\* complete.
THEOREM VaultInvariant == Spec => []VaultInv
BY InitInv, NextKeepsInv, PTL DEF Spec

\* The rows and the locals of the requests keep their types.
THEOREM VaultTypeOK == Spec => []TypeOK
<1>1. VaultInv => TypeOK
  BY DEF VaultInv, RowsInv
<1> QED  BY <1>1, VaultInvariant, PTL

\* No account of any vault is charged above its limit, for any number of
\* overlapping uploads, aborts, deletions and account changes.
THEOREM UsageNeverExceedsLimit == Spec => []UsedWithinLimit
<1>1. VaultInv => UsedWithinLimit
  BY DEF VaultInv, RowsInv
<1> QED  BY <1>1, VaultInvariant, PTL

\* A listed item has the part rows of the whole file, for any number of parts
\* and of overlapping requests on its id.
THEOREM ReadyItemsAreComplete == Spec => []ReadyHasAllParts
<1>1. VaultInv => ReadyHasAllParts
  BY DEF VaultInv, RowsInv
<1> QED  BY <1>1, VaultInvariant, PTL

-----------------------------------------------------------------------------
(***************************************************************************)
(* Steps that act on reads that still hold.  What the proofs below need of *)
(* each handler's write is the row it changes in each table, and that the  *)
(* roles, the active flags and the limits of the accounts stay.            *)
(***************************************************************************)
SameStanding(rows) ==
  /\ rows \in [Accounts -> AccountRow]
  /\ \A a \in Accounts : /\ rows[a].active = acct[a].active /\ rows[a].role = acct[a].role
                         /\ rows[a].limit = acct[a].limit

\* Of the accounts, only the usage of a has changed.
OnlyUsage(rows, a) ==
  /\ SameStanding(rows)
  /\ \A b \in Accounts \ {a} : rows[b] = acct[b]

LEMMA SameTable == ASSUME RowsInv PROVE SameStanding(acct)
BY DEF SameStanding, RowsInv, TypeOK

\* A request that ends acts on what it has read.
LEMMA FreshActor ==
  ASSUME StepIsFresh, RowsInv, NEW r \in Requests, Finish(r), req[r].pc # "idle"
  PROVE  StillAsRead(r)
<1>1. req'[r] = Idle
  BY DEF Finish, RowsInv, TypeOK
<1>2. req[r] # Idle
  BY DEF Idle
<1> QED  BY <1>1, <1>2 DEF StepIsFresh

\* The commit of directUploadInit charges the account it selected under the
\* lock, or changes nothing.
LEMMA ReserveEffect ==
  ASSUME RowsInv, NEW r \in Requests, InitReserve(r)
  PROVE  \/ UNCHANGED <<acct, media>>
         \/ LET a == req[r].target
                e == req[r].entity
                m == req[r].m
            IN  /\ a \in Accounts /\ acct[a].active /\ m \in MediaIds
                /\ e \in MediaRow /\ e.status = "uploading" /\ ~e.orphaned /\ e.size > 0
                /\ OnlyUsage(acct', a)
                /\ acct'[a].used = acct[a].used + e.size
                /\ acct'[a].used <= acct[a].limit
                /\ media' = [media EXCEPT ![m] = [e EXCEPT !.account = a]]
<1> DEFINE a   == req[r].target
           e   == req[r].entity
           row == AdjustedRow(acct[a], e.size)
<1>1. CASE SelectAccount(acct, e.size) # a
  BY <1>1 DEF InitReserve
<1>2. CASE SelectAccount(acct, e.size) = a
  <2>1. /\ a \in Accounts /\ e \in MediaRow /\ e.status = "uploading" /\ ~e.orphaned
        /\ e.size > 0 /\ req[r].m \in MediaIds
    BY LocalsType DEF InitReserve, LocalsOK, Request, UploadPcs, Announcing
  <2>2. /\ e.size \in Nat /\ acct \in [Accounts -> AccountRow]
        /\ FreeBytes(acct[a]) >= e.size /\ acct[a].active
    BY <1>2, <2>1, VaultConstants, SelectionFits DEF RowsInv, TypeOK, MediaRow
  <2>3. acct[a].used \in Nat /\ acct[a].limit \in Nat /\ acct[a].used + e.size <= acct[a].limit
    <3>1. acct[a].used \in Nat /\ acct[a].limit \in Nat
      BY <2>1, <2>2 DEF AccountRow
    <3> QED  BY <2>1, <2>2, <3>1 DEF FreeBytes
  <2>4. /\ row \in AccountRow /\ row.used = acct[a].used + e.size
        /\ row.active = acct[a].active /\ row.role = acct[a].role /\ row.limit = acct[a].limit
    <3>1. PICK used \in Nat : used = acct[a].used + e.size /\ used > 0
      BY <2>1, <2>2, <2>3
    <3>2. row = [acct[a] EXCEPT !.used = used]
      BY <3>1 DEF AdjustedRow
    <3> QED  BY <2>1, <2>2, <3>1, <3>2 DEF AccountRow
  <2>5. /\ acct' = [acct EXCEPT ![a] = row]
        /\ media' = [media EXCEPT ![req[r].m] = [e EXCEPT !.account = a]]
    BY <1>2 DEF InitReserve
  <2> HIDE DEF row
  <2>6. OnlyUsage(acct', a)
    BY <2>1, <2>2, <2>4, <2>5 DEF OnlyUsage, SameStanding
  <2> QED  BY <2>1, <2>2, <2>3, <2>4, <2>5, <2>6
<1> QED  BY <1>1, <1>2

\* A settling transaction whose account is as it read it gives the bytes back
\* to it.
LEMMA SettledEffect ==
  ASSUME RowsInv, NEW r \in Requests, req[r].pc \in Settling, UsageAsRead(r)
  PROVE  LET a == req[r].entity.account
         IN  /\ a \in Accounts
             /\ OnlyUsage(Settled(r), a)
             /\ req[r].delta <= acct[a].used =>
                  Settled(r)[a].used = acct[a].used - req[r].delta
<1> DEFINE q   == req[r]
           a   == q.entity.account
           row == AdjustedRow(q.snap, -q.delta)
<1>1. a \in Accounts /\ q.delta \in Nat /\ acct \in [Accounts -> AccountRow]
  BY CommitLocals DEF Request, RowsInv, TypeOK
<1>2. CASE q.delta = 0
  <2>1. Settled(r) = acct
    BY <1>2 DEF Settled
  <2>2. acct[a].used \in Nat
    BY <1>1 DEF AccountRow
  <2> QED  BY <1>1, <1>2, <2>1, <2>2, SameTable DEF OnlyUsage
<1>3. CASE q.delta # 0
  <2>1. q.snap = acct[a] /\ q.snap \in AccountRow
    BY <1>1, <1>3 DEF UsageAsRead
  <2>2. /\ row \in AccountRow /\ row.active = acct[a].active /\ row.role = acct[a].role
        /\ row.limit = acct[a].limit
        /\ q.delta <= acct[a].used => row.used = acct[a].used - q.delta
    BY <1>1, <2>1 DEF AdjustedRow, AccountRow
  <2>3. Settled(r) = [acct EXCEPT ![a] = row]
    BY <1>3 DEF Settled
  <2> HIDE DEF row
  <2> QED  BY <1>1, <2>2, <2>3 DEF OnlyUsage, SameStanding
<1> QED  BY <1>2, <1>3

SlotSetTo(rows, x, slot) == [rows EXCEPT ![x].slot = slot]

LEMMA SlotSetStands ==
  ASSUME NEW rows, SameStanding(rows), NEW x, NEW slot \in 0..2,
         \A b \in Accounts : rows[b].used = acct[b].used
  PROVE  /\ SameStanding(SlotSetTo(rows, x, slot))
         /\ \A b \in Accounts : SlotSetTo(rows, x, slot)[b].used = acct[b].used
<1>1. \A b \in Accounts : LET row == [rows[b] EXCEPT !.slot = slot]
                         IN  /\ row \in AccountRow /\ row.used = rows[b].used
                             /\ row.active = rows[b].active /\ row.role = rows[b].role
                             /\ row.limit = rows[b].limit
  BY DEF SameStanding, AccountRow
<1> QED  BY <1>1 DEF SameStanding, SlotSetTo

\* A swap changes slots.
LEMMA SwapEffect ==
  ASSUME RowsInv, NEW r \in Requests, SwapWrite(r)
  PROVE  SameStanding(acct') /\ \A b \in Accounts : acct'[b].used = acct[b].used
<1> DEFINE Kept(rows) == SameStanding(rows) /\ \A b \in Accounts : rows[b].used = acct[b].used
<1>1. Kept(acct)
  BY SameTable
<1>2. ASSUME NEW x, NEW y, NEW s \in 0..2, NEW t \in 0..2  PROVE Kept(Swapped(x, s, y, t))
  <2>1. PICK rows1, rows2 :
           /\ rows1 = SlotSetTo(acct, x, s) /\ rows2 = SlotSetTo(rows1, y, t)
           /\ Swapped(x, s, y, t) = acct \/ Swapped(x, s, y, t) = rows2
    BY DEF Swapped, SlotSetTo
  <2>2. Kept(rows1)
    BY <1>1, <2>1, SlotSetStands
  <2>3. Kept(rows2)
    BY <2>1, <2>2, SlotSetStands
  <2> QED  BY <1>1, <2>1, <2>3
<1> QED  BY <1>2 DEF SwapWrite

\* The three statements of promote: the target is hidden, the old Primary takes
\* its slot, the target becomes the Primary.
HiddenRow(row)      == [row EXCEPT !.active = FALSE]
DemotedRow(row, s)  == [row EXCEPT !.role = Secondary, !.slot = s]
PromotedRow(row)    == [row EXCEPT !.role = Primary, !.slot = NullSlot, !.active = TRUE]
AlonePromoted(row)  == [row EXCEPT !.role = Primary, !.slot = NullSlot]

LEMMA HiddenRowIs ==
  ASSUME NEW row \in AccountRow
  PROVE  /\ HiddenRow(row) \in AccountRow /\ HiddenRow(row).active = FALSE
         /\ HiddenRow(row).role = row.role /\ HiddenRow(row).slot = row.slot
         /\ HiddenRow(row).used = row.used /\ HiddenRow(row).limit = row.limit
BY DEF HiddenRow, AccountRow

LEMMA DemotedRowIs ==
  ASSUME NEW row \in AccountRow, NEW s \in 0..2
  PROVE  /\ DemotedRow(row, s) \in AccountRow /\ DemotedRow(row, s).active = row.active
         /\ DemotedRow(row, s).role = Secondary /\ DemotedRow(row, s).slot = s
         /\ DemotedRow(row, s).used = row.used /\ DemotedRow(row, s).limit = row.limit
BY DEF DemotedRow, AccountRow

LEMMA PromotedRowIs ==
  ASSUME NEW row \in AccountRow
  PROVE  /\ PromotedRow(row) \in AccountRow /\ PromotedRow(row).active = TRUE
         /\ PromotedRow(row).role = Primary /\ PromotedRow(row).slot = NullSlot
         /\ PromotedRow(row).used = row.used /\ PromotedRow(row).limit = row.limit
<1>1. NullSlot \in 0..2
  BY DEF NullSlot
<1> QED  BY <1>1 DEF PromotedRow, AccountRow

LEMMA AlonePromotedIs ==
  ASSUME NEW row \in AccountRow
  PROVE  /\ AlonePromoted(row) \in AccountRow /\ AlonePromoted(row).active = row.active
         /\ AlonePromoted(row).role = Primary /\ AlonePromoted(row).slot = NullSlot
         /\ AlonePromoted(row).used = row.used /\ AlonePromoted(row).limit = row.limit
<1>1. NullSlot \in 0..2
  BY DEF NullSlot
<1> QED  BY <1>1 DEF AlonePromoted, AccountRow

LEMMA PromoteTables ==
  ASSUME RowsInv, NEW x \in Accounts, NEW p, p # None, NEW s \in 0..2
  PROVE  \E hidden, demoted, promoted \in [Accounts -> AccountRow] :
            /\ PromoteStatements(x, p, s) = <<hidden, demoted, promoted>>
            /\ \A b \in Accounts :
                 /\ hidden[b] = IF b = x THEN HiddenRow(acct[b]) ELSE acct[b]
                 /\ demoted[b] = IF b = p THEN DemotedRow(hidden[b], s) ELSE hidden[b]
                 /\ promoted[b] = IF b = x THEN PromotedRow(demoted[b]) ELSE demoted[b]
<1> DEFINE hidden   == [acct EXCEPT ![x].active = FALSE]
           demoted  == [hidden EXCEPT ![p].role = Secondary, ![p].slot = s]
           promoted == [demoted EXCEPT ![x].role = Primary, ![x].slot = NullSlot,
                                       ![x].active = TRUE]
<1>1. PromoteStatements(x, p, s) = <<hidden, demoted, promoted>>
  BY DEF PromoteStatements
<1>2. acct \in [Accounts -> AccountRow]
  BY DEF RowsInv, TypeOK
<1>3. /\ hidden \in [Accounts -> AccountRow]
      /\ \A b \in Accounts : hidden[b] = IF b = x THEN HiddenRow(acct[b]) ELSE acct[b]
  <2>1. \A b \in Accounts : hidden[b] = IF b = x THEN HiddenRow(acct[b]) ELSE acct[b]
    BY <1>2 DEF HiddenRow
  <2>2. hidden = [b \in Accounts |-> hidden[b]]
    BY <1>2
  <2>3. \A b \in Accounts : HiddenRow(acct[b]) \in AccountRow
    BY <1>2, HiddenRowIs
  <2> HIDE DEF hidden
  <2> QED  BY <1>2, <2>1, <2>2, <2>3
<1> HIDE DEF hidden
<1>4. /\ demoted \in [Accounts -> AccountRow]
      /\ \A b \in Accounts : demoted[b] = IF b = p THEN DemotedRow(hidden[b], s) ELSE hidden[b]
  <2>1. \A b \in Accounts : demoted[b] = IF b = p THEN DemotedRow(hidden[b], s) ELSE hidden[b]
    BY <1>3 DEF DemotedRow
  <2>2. demoted = [b \in Accounts |-> demoted[b]]
    BY <1>3
  <2>3. \A b \in Accounts : DemotedRow(hidden[b], s) \in AccountRow
    BY <1>3, DemotedRowIs
  <2> HIDE DEF demoted
  <2> QED  BY <1>3, <2>1, <2>2, <2>3
<1> HIDE DEF demoted
<1>5. /\ promoted \in [Accounts -> AccountRow]
      /\ \A b \in Accounts : promoted[b] = IF b = x THEN PromotedRow(demoted[b]) ELSE demoted[b]
  <2>1. \A b \in Accounts : promoted[b] = IF b = x THEN PromotedRow(demoted[b]) ELSE demoted[b]
    BY <1>4 DEF PromotedRow
  <2>2. promoted = [b \in Accounts |-> promoted[b]]
    BY <1>4
  <2>3. \A b \in Accounts : PromotedRow(demoted[b]) \in AccountRow
    BY <1>4, PromotedRowIs
  <2> HIDE DEF promoted
  <2> QED  BY <1>4, <2>1, <2>2, <2>3
<1> HIDE DEF promoted
<1> QED  BY <1>1, <1>3, <1>4, <1>5

LEMMA PromoteAlone ==
  ASSUME RowsInv, NEW x \in Accounts, NEW s
  PROVE  \E promoted \in [Accounts -> AccountRow] :
            /\ PromoteStatements(x, None, s) = <<promoted>>
            /\ \A b \in Accounts :
                 promoted[b] = IF b = x THEN AlonePromoted(acct[b]) ELSE acct[b]
<1> DEFINE promoted == [acct EXCEPT ![x].role = Primary, ![x].slot = NullSlot]
<1>1. PromoteStatements(x, None, s) = <<promoted>>
  BY DEF PromoteStatements
<1>2. acct \in [Accounts -> AccountRow]
  BY DEF RowsInv, TypeOK
<1>3. ASSUME NEW b \in Accounts
      PROVE  promoted[b] = IF b = x THEN AlonePromoted(acct[b]) ELSE acct[b]
  <2>1. CASE b = x
    BY <1>2, <2>1 DEF AlonePromoted
  <2>2. CASE b # x
    BY <1>2, <2>2
  <2> QED  BY <2>1, <2>2
<1>4. promoted = [b \in Accounts |-> promoted[b]]
  BY <1>2
<1>5. \A b \in Accounts : AlonePromoted(acct[b]) \in AccountRow
  BY <1>2, AlonePromotedIs
<1> HIDE DEF promoted
<1> QED  BY <1>1, <1>2, <1>3, <1>4, <1>5

\* A promotion of an active account leaves it the Primary and changes no
\* active flag and no usage, or is refused.
LEMMA PromoteEffect ==
  ASSUME RowsInv, NEW r \in Requests, PromoteWrite(r), acct[req[r].target].active
  PROVE  /\ acct' \in [Accounts -> AccountRow]
         /\ \A b \in Accounts : /\ acct'[b].active = acct[b].active
                                /\ acct'[b].used = acct[b].used
                                /\ acct'[b].limit = acct[b].limit
         /\ req[r].target \in Accounts
         /\ acct' = acct \/ acct'[req[r].target].role = Primary
<1> DEFINE x == req[r].target
           p == req[r].other
           s == req[r].slot
           tables == PromoteStatements(x, p, s)
<1>1. /\ x \in Accounts /\ s \in 0..2 /\ acct \in [Accounts -> AccountRow]
      /\ acct' = acct \/ acct' = tables[Len(tables)]
  BY LocalsType DEF PromoteWrite, LocalsOK, Request, RowsInv, TypeOK
<1> HIDE DEF tables
<1>2. CASE p = None
  <2>1. PICK promoted \in [Accounts -> AccountRow] :
           /\ tables = <<promoted>>
           /\ \A b \in Accounts :
                promoted[b] = IF b = x THEN AlonePromoted(acct[b]) ELSE acct[b]
    BY <1>1, <1>2, PromoteAlone DEF tables
  <2>2. tables[Len(tables)] = promoted
    BY <2>1
  <2>3. \A b \in Accounts : acct[b] \in AccountRow
    BY <1>1
  <2> QED  BY <1>1, <2>1, <2>2, <2>3, AlonePromotedIs
<1>3. CASE p # None
  <2>1. PICK hidden, demoted, promoted \in [Accounts -> AccountRow] :
           /\ tables = <<hidden, demoted, promoted>>
           /\ \A b \in Accounts :
                /\ hidden[b] = IF b = x THEN HiddenRow(acct[b]) ELSE acct[b]
                /\ demoted[b] = IF b = p THEN DemotedRow(hidden[b], s) ELSE hidden[b]
                /\ promoted[b] = IF b = x THEN PromotedRow(demoted[b]) ELSE demoted[b]
    BY <1>1, <1>3, PromoteTables DEF tables
  <2>2. tables[Len(tables)] = promoted
    BY <2>1
  <2>3. \A b \in Accounts : /\ acct[b] \in AccountRow /\ hidden[b] \in AccountRow
                            /\ demoted[b] \in AccountRow
    BY <1>1, <2>1
  <2>4. ASSUME NEW b \in Accounts
        PROVE  /\ promoted[b].active = acct[b].active /\ promoted[b].used = acct[b].used
               /\ promoted[b].limit = acct[b].limit
    <3>1. /\ hidden[b].used = acct[b].used /\ hidden[b].limit = acct[b].limit
          /\ b # x => hidden[b].active = acct[b].active
      BY <2>1, <2>3, HiddenRowIs
    <3>2. /\ demoted[b].used = hidden[b].used /\ demoted[b].active = hidden[b].active
          /\ demoted[b].limit = hidden[b].limit
      BY <1>1, <2>1, <2>3, DemotedRowIs
    <3>3. /\ promoted[b].used = demoted[b].used /\ promoted[b].limit = demoted[b].limit
          /\ IF b = x THEN promoted[b].active = TRUE ELSE promoted[b].active = demoted[b].active
      BY <2>1, <2>3, PromotedRowIs
    <3>4. b = x => acct[b].active = TRUE
      BY <2>3 DEF AccountRow
    <3> QED  BY <3>1, <3>2, <3>3, <3>4
  <2>5. promoted[x].role = Primary
    <3>1. promoted[x] = PromotedRow(demoted[x]) /\ demoted[x] \in AccountRow
      BY <1>1, <2>1, <2>3
    <3> QED  BY <3>1, PromotedRowIs
  <2> QED  BY <1>1, <2>2, <2>4, <2>5
<1> QED  BY <1>2, <1>3

LEMMA CreateEffect ==
  ASSUME RowsInv, NEW r \in Requests, NEW a \in Accounts, CreateInsert(r, a)
  PROVE  /\ acct[a] = AbsentAccount
         /\ \/ acct' = acct
            \/ /\ acct' = [acct EXCEPT ![a] = NewAccount(req[r].slot)]
               /\ NewAccount(req[r].slot) \in AccountRow
<1>1. NewAccount(req[r].slot) \in AccountRow
  BY VaultConstants, LocalsType DEF NewAccount, AccountRow, Request, Primary, Secondary
<1> QED  BY <1>1 DEF CreateInsert

\* A deactivation that still finds a Secondary, and no live item it has not
\* marked, orphans exactly the live items of the account.
LEMMA DeactivateEffect ==
  ASSUME VaultInv, NEW r \in Requests, DeactivateWrite(r), StillAsRead(r)
  PROVE  LET a == req[r].target
         IN  /\ a \in Accounts /\ acct[a].role # Primary
             /\ acct' \in [Accounts -> AccountRow]
             /\ \A b \in Accounts \ {a} : acct'[b] = acct[b]
             /\ ~acct'[a].active /\ acct'[a].role = acct[a].role
             /\ acct'[a].limit = acct[a].limit
             /\ \A m \in MediaIds :
                  IF media[m].account = a
                    THEN media'[m] = [media[m] EXCEPT !.orphaned = TRUE]
                    ELSE media'[m] = media[m]
<1> DEFINE a == req[r].target
<1>1. a \in Accounts /\ acct \in [Accounts -> AccountRow] /\ media \in [MediaIds -> MediaRow]
  BY LocalsType DEF DeactivateWrite, LocalsOK, VaultInv, RowsInv, TypeOK
<1>2. acct[a].role # Primary /\ req[r].orphans = LinkedMedia(a)
  BY DEF DeactivateWrite, StillAsRead, VaultInv, OrphansHeld
<1>3. acct' = [acct EXCEPT ![a].active = FALSE]
  BY DEF DeactivateWrite
<1>4. LET row == [acct[a] EXCEPT !.active = FALSE]
      IN  row \in AccountRow /\ ~row.active /\ row.role = acct[a].role /\ row.limit = acct[a].limit
  BY <1>1 DEF AccountRow
<1>5. ASSUME NEW m \in MediaIds
      PROVE  IF media[m].account = a
               THEN media'[m] = [media[m] EXCEPT !.orphaned = TRUE]
               ELSE media'[m] = media[m]
  <2>1. media'[m] = IF m \in LinkedMedia(a) THEN [media[m] EXCEPT !.orphaned = TRUE]
                                            ELSE media[m]
    BY <1>2 DEF DeactivateWrite
  <2>2. m \in LinkedMedia(a) <=> media[m].account = a /\ ~media[m].orphaned
    BY DEF LinkedMedia
  <2>3. media[m].orphaned => [media[m] EXCEPT !.orphaned = TRUE] = media[m]
    BY <1>1 DEF MediaRow
  <2> QED  BY <2>1, <2>2, <2>3
<1> QED  BY <1>1, <1>2, <1>3, <1>4, <1>5

(***************************************************************************)
(* What a step that acts on fresh reads does to the two tables: it leaves  *)
(* them, or an init reserves e on account a, or request r settles item     *)
(* req[r].m, or an account is added, or two change places, or x is         *)
(* promoted, or a is deactivated.                                          *)
(***************************************************************************)
Reserves(a, m, e) ==
  /\ media[m] = AbsentMedia
  /\ acct[a].active /\ e.status = "uploading" /\ ~e.orphaned /\ e.size > 0
  /\ OnlyUsage(acct', a)
  /\ acct'[a].used = acct[a].used + e.size /\ acct'[a].used <= acct[a].limit
  /\ media' = [media EXCEPT ![m] = [e EXCEPT !.account = a]]

SettlesTo(r, row) ==
  /\ req[r].pc \in Settling /\ MediaAsRead(r) /\ UsageAsRead(r)
  /\ acct' = Settled(r)
  /\ media' = [media EXCEPT ![req[r].m] = row]
  /\ \/ /\ req[r].pc = "complete_commit"
        /\ row = [media[req[r].m] EXCEPT !.status = "ready", !.size = @ - req[r].delta]
     \/ /\ req[r].pc = "abort_commit"
        /\ row = [media[req[r].m] EXCEPT !.status = "failed"]
        /\ media[req[r].m] # AbsentMedia
     \/ /\ req[r].pc = "remove_commit" /\ row = AbsentMedia

AddsAccount(r, a) ==
  /\ req[r].pc = "create_insert" /\ StillAsRead(r) /\ acct[a] = AbsentAccount
  /\ acct' = [acct EXCEPT ![a] = NewAccount(req[r].slot)]
  /\ NewAccount(req[r].slot) \in AccountRow
  /\ media' = media

Reorders ==
  /\ SameStanding(acct') /\ \A b \in Accounts : acct'[b].used = acct[b].used
  /\ media' = media

Promotes(x) ==
  /\ acct[x].active /\ acct'[x].role = Primary
  /\ acct' \in [Accounts -> AccountRow]
  /\ \A b \in Accounts : /\ acct'[b].active = acct[b].active /\ acct'[b].used = acct[b].used
                         /\ acct'[b].limit = acct[b].limit
  /\ media' = media

Deactivates(a) ==
  /\ acct[a].role # Primary /\ ~acct'[a].active /\ acct'[a].role = acct[a].role
  /\ acct'[a].limit = acct[a].limit
  /\ acct' \in [Accounts -> AccountRow]
  /\ \A b \in Accounts \ {a} : acct'[b] = acct[b]
  /\ \A m \in MediaIds :
       IF media[m].account = a
         THEN media'[m] = [media[m] EXCEPT !.orphaned = TRUE]
         ELSE media'[m] = media[m]

LEMMA SettlesWhenFresh ==
  ASSUME RowsInv, StepIsFresh, NEW r \in Requests,
         CompleteCommit(r) \/ AbortCommit(r) \/ RemoveCommit(r)
  PROVE  \/ UNCHANGED <<acct, media>>
         \/ \E row \in MediaRow : SettlesTo(r, row)
<1> DEFINE q == req[r]
           m == req[r].m
<1>1. q.pc \in Settling /\ Finish(r) /\ q.pc # "idle"
  BY DEF CompleteCommit, AbortCommit, RemoveCommit, Settling
<1>2. MediaAsRead(r) /\ UsageAsRead(r)
  BY <1>1, FreshActor DEF StillAsRead, CompleteCommit, AbortCommit, RemoveCommit
<1>3. /\ m \in MediaIds /\ q.entity = media[m] /\ media[m] \in MediaRow
      /\ media \in [MediaIds -> MediaRow] /\ q.delta \in Nat
      /\ q.pc = "complete_commit" => q.delta < media[m].size
  BY <1>1, <1>2, CommitLocals DEF MediaAsRead, RowsInv, TypeOK, Request
<1>4. CASE CompleteCommit(r)
  <2> DEFINE row == [media[m] EXCEPT !.status = "ready", !.size = @ - q.delta]
  <2>1. row \in MediaRow
    <3>1. PICK size \in Nat : size = media[m].size - q.delta
      BY <1>3, <1>4 DEF MediaRow, CompleteCommit
    <3>2. row = [media[m] EXCEPT !.status = "ready", !.size = size]
      BY <3>1
    <3> QED  BY <1>3, <3>2 DEF MediaRow
  <2>2. \/ UNCHANGED <<acct, media>>
        \/ acct' = Settled(r) /\ media' = [media EXCEPT ![m] = row]
    BY <1>3, <1>4 DEF CompleteCommit
  <2>3. q.pc = "complete_commit"
    BY <1>4 DEF CompleteCommit
  <2> QED  BY <1>1, <1>2, <2>1, <2>2, <2>3 DEF SettlesTo
<1>5. CASE AbortCommit(r)
  <2> DEFINE row == [media[m] EXCEPT !.status = "failed"]
             old == media[m]
  <2>1. row \in MediaRow
    BY <1>3 DEF MediaRow
  <2>2. \/ UNCHANGED <<acct, media>>
        \/ /\ acct' = Settled(r) /\ media[m] # AbsentMedia
           /\ media' = [media EXCEPT ![m].account = old.account, ![m].size = old.size,
                                     ![m].status = "failed"]
    BY <1>3, <1>5 DEF AbortCommit
  <2>3. [media EXCEPT ![m].account = old.account, ![m].size = old.size, ![m].status = "failed"]
          = [media EXCEPT ![m] = row]
    <3>1. [old EXCEPT !.account = old.account, !.size = old.size, !.status = "failed"] = row
      BY <1>3 DEF MediaRow
    <3> QED  BY <1>3, <3>1
  <2>4. q.pc = "abort_commit"
    BY <1>5 DEF AbortCommit
  <2> QED  BY <1>1, <1>2, <2>1, <2>2, <2>3, <2>4 DEF SettlesTo
<1>6. CASE RemoveCommit(r)
  <2>1. AbsentMedia \in MediaRow
    BY VaultConstants DEF AbsentMedia, MediaRow
  <2> QED  BY <1>1, <1>2, <1>6, <2>1 DEF RemoveCommit, SettlesTo
<1> QED  BY <1>4, <1>5, <1>6

FreshEffect ==
  \/ UNCHANGED <<acct, media>>
  \/ \E a \in Accounts, m \in MediaIds, e \in MediaRow : Reserves(a, m, e)
  \/ \E r \in Requests, row \in MediaRow : SettlesTo(r, row)
  \/ \E r \in Requests, a \in Accounts : AddsAccount(r, a)
  \/ Reorders
  \/ \E x \in Accounts : Promotes(x)
  \/ \E a \in Accounts : Deactivates(a)

LEMMA FreshStepEffect ==
  ASSUME VaultInv, [Next]_vaultVars, StepIsFresh
  PROVE  FreshEffect
<1> RowsInv
  BY DEF VaultInv
<1>1. CASE UNCHANGED vaultVars
  BY <1>1 DEF vaultVars, FreshEffect
<1>2. ASSUME NEW r \in Requests, Fail(r)  PROVE FreshEffect
  BY <1>2 DEF Fail, FreshEffect
<1>3. ASSUME NEW r \in Requests, MediaNext(r)  PROVE FreshEffect
  <2>1. CASE InitReserve(r)
    <3> DEFINE a == req[r].target
               m == req[r].m
               e == req[r].entity
    <3>1. \/ UNCHANGED <<acct, media>>
          \/ a \in Accounts /\ m \in MediaIds /\ e \in MediaRow /\ Reserves(a, m, e)
      <4>1. Finish(r) /\ req[r].pc = "reserve"
        BY <2>1 DEF InitReserve
      <4>2. media[m] = AbsentMedia
        BY <4>1, FreshActor DEF StillAsRead
      <4> QED  BY <2>1, <4>2, ReserveEffect DEF Reserves
    <3> HIDE DEF a, m, e
    <3> QED  BY <3>1 DEF FreshEffect
  <2>2. CASE CompleteCommit(r) \/ AbortCommit(r) \/ RemoveCommit(r)
    BY <2>2, SettlesWhenFresh DEF FreshEffect
  <2>3. CASE ~ (InitReserve(r) \/ CompleteCommit(r) \/ AbortCommit(r) \/ RemoveCommit(r))
    <3>1. UNCHANGED <<acct, media>>
      BY <1>3, <2>3
      DEF MediaNext, InitCheckExisting, InitPreflight, CompleteRead, CompleteLoad, AbortRead,
          AbortLoad, RemoveRead, RemoveDestroy, RemoveLoad, LoadAccount
    <3> QED  BY <3>1 DEF FreshEffect
  <2> QED  BY <2>1, <2>2, <2>3
<1>4. ASSUME NEW r \in Requests, AccountsNext(r)  PROVE FreshEffect
  <2>1. ASSUME NEW a \in Accounts, CreateInsert(r, a)  PROVE FreshEffect
    <3>1. /\ req[r].pc = "create_insert" /\ Finish(r) /\ media' = media
      BY <2>1 DEF CreateInsert
    <3>2. StillAsRead(r)
      BY <3>1, FreshActor
    <3> QED  BY <2>1, <3>1, <3>2, CreateEffect DEF FreshEffect, AddsAccount
  <2>2. CASE SwapWrite(r)
    BY <2>2, SwapEffect DEF FreshEffect, Reorders, SwapWrite
  <2>3. CASE PromoteWrite(r)
    <3>1. req[r].pc = "promote_write" /\ Finish(r) /\ media' = media
      BY <2>3 DEF PromoteWrite
    <3>2. acct[req[r].target].active
      BY <3>1, FreshActor DEF StillAsRead
    <3> QED  BY <2>3, <3>1, <3>2, PromoteEffect DEF FreshEffect, Promotes
  <2>4. CASE DeactivateWrite(r)
    <3>1. req[r].pc = "deactivate_write" /\ Finish(r)
      BY <2>4 DEF DeactivateWrite
    <3>2. StillAsRead(r)
      BY <3>1, FreshActor
    <3>3. Deactivates(req[r].target) /\ req[r].target \in Accounts
      BY <2>4, <3>2, DeactivateEffect DEF Deactivates
    <3> QED  BY <3>3 DEF FreshEffect
  <2>5. CASE CreateReadPrimary(r) \/ CreateReadSlots(r) \/ SwapRead(r)
    BY <2>5 DEF CreateReadPrimary, CreateReadSlots, SwapRead, FreshEffect
  <2>6. CASE \/ \E a \in Accounts : PromoteRead(r, a)
             \/ PromoteReadPrimary(r)
             \/ \E a \in Accounts, force \in ForceChoices : DeactivateRead(r, a, force)
             \/ DeactivateCount(r)
             \/ DeactivateOrphan(r)
    BY <2>6 DEF PromoteRead, PromoteReadPrimary, DeactivateRead, DeactivateCount,
                DeactivateOrphan, FreshEffect
  <2> QED  BY <1>4, <2>1, <2>2, <2>3, <2>4, <2>5, <2>6 DEF AccountsNext
<1> QED  BY <1>1, <1>2, <1>3, <1>4 DEF Next

-----------------------------------------------------------------------------
(***************************************************************************)
(* Only stale reads leave a vault without a Primary, or a live item on a   *)
(* deactivated account.                                                    *)
(***************************************************************************)
LEMMA PrimaryMeans ==
  ASSUME NEW rows, rows \in [Accounts -> AccountRow]
  PROVE  ActiveAccounts(rows) = {a \in Accounts : rows[a].active}
BY DEF ActiveAccounts

LEMMA PrimaryKept ==
  ASSUME RowsInv, FreshEffect, acct' \in [Accounts -> AccountRow], HasPrimary
  PROVE  HasPrimary'
<1> DEFINE Headed(rows) == (\E a \in Accounts : rows[a].active) =>
                           \E p \in Accounts : rows[p].active /\ rows[p].role = Primary
<1>1. Headed(acct)
  BY PrimaryMeans DEF HasPrimary, ActivePrimaries, RowsInv, TypeOK
<1>2. SUFFICES Headed(acct')
  BY PrimaryMeans DEF HasPrimary, ActivePrimaries
<1>3. ASSUME SameStanding(acct')  PROVE Headed(acct')
  BY <1>1, <1>3 DEF SameStanding
<1>4. CASE UNCHANGED <<acct, media>>
  BY <1>1, <1>4
<1>5. ASSUME NEW a \in Accounts, NEW m \in MediaIds, NEW e \in MediaRow, Reserves(a, m, e)
      PROVE  Headed(acct')
  BY <1>3, <1>5 DEF Reserves, OnlyUsage
<1>6. ASSUME NEW r \in Requests, NEW row \in MediaRow, SettlesTo(r, row)
      PROVE  Headed(acct')
  BY <1>3, <1>6, SettledEffect DEF SettlesTo, OnlyUsage
<1>7. ASSUME NEW r \in Requests, NEW a \in Accounts, AddsAccount(r, a)
      PROVE  Headed(acct')
  <2>1. /\ acct'[a] = NewAccount(req[r].slot) /\ \A b \in Accounts \ {a} : acct'[b] = acct[b]
        /\ ~acct[a].active
    BY <1>7 DEF AddsAccount, RowsInv, TypeOK, AbsentAccount
  <2>2. CASE req[r].slot = NullSlot
    BY <2>1, <2>2 DEF NewAccount
  <2>3. CASE req[r].slot # NullSlot
    <3>1. ActivePrimaries # {}
      BY <1>7, <2>3 DEF AddsAccount, StillAsRead
    <3>2. PICK p \in Accounts : acct[p].active /\ acct[p].role = Primary
      BY <3>1, PrimaryMeans DEF ActivePrimaries, RowsInv, TypeOK
    <3> QED  BY <2>1, <3>2
  <2> QED  BY <2>2, <2>3
<1>8. CASE Reorders
  BY <1>3, <1>8 DEF Reorders
<1>9. ASSUME NEW x \in Accounts, Promotes(x)  PROVE Headed(acct')
  BY <1>9 DEF Promotes
<1>10. ASSUME NEW a \in Accounts, Deactivates(a)  PROVE Headed(acct')
  BY <1>1, <1>10 DEF Deactivates
<1> QED  BY <1>4, <1>5, <1>6, <1>7, <1>8, <1>9, <1>10 DEF FreshEffect

LEMMA MediaLiveKept ==
  ASSUME RowsInv, FreshEffect, RowsInv', LiveMediaOnActiveAccount
  PROVE  LiveMediaOnActiveAccount'
<1> DEFINE Live(rows, row) == row # AbsentMedia => (row.orphaned <=> ~rows[row.account].active)
           SameActive(rows) == \A b \in Accounts : rows[b].active = acct[b].active
<1>1. \A n \in MediaIds : Live(acct, media[n])
  BY DEF LiveMediaOnActiveAccount
<1>2. SUFFICES ASSUME NEW n \in MediaIds  PROVE Live(acct', media'[n])
  BY DEF LiveMediaOnActiveAccount
<1>3. /\ acct \in [Accounts -> AccountRow] /\ acct' \in [Accounts -> AccountRow]
      /\ media \in [MediaIds -> MediaRow]
      /\ media[n] # AbsentMedia => /\ media[n].account \in Accounts
                                   /\ acct[media[n].account] # AbsentAccount
  BY AccountKept, TableIsGood DEF RowsInv, TypeOK, Exists, AbsentAccount
<1>4. ASSUME SameActive(acct'), media'[n] = media[n]  PROVE Live(acct', media'[n])
  BY <1>1, <1>3, <1>4
<1>5. CASE UNCHANGED <<acct, media>>
  BY <1>1, <1>5
<1>6. ASSUME NEW a \in Accounts, NEW m \in MediaIds, NEW e \in MediaRow, Reserves(a, m, e)
      PROVE  Live(acct', media'[n])
  <2>1. SameActive(acct')
    BY <1>6 DEF Reserves, OnlyUsage, SameStanding
  <2>2. CASE n = m
    <3>1. media'[n] = [e EXCEPT !.account = a]
      BY <1>3, <1>6, <2>2 DEF Reserves
    <3>2. ~media'[n].orphaned /\ media'[n].account = a
      BY <1>6, <3>1 DEF Reserves, MediaRow
    <3> QED  BY <1>6, <2>1, <3>2 DEF Reserves
  <2>3. CASE n # m
    BY <1>3, <1>4, <1>6, <2>1, <2>3 DEF Reserves
  <2> QED  BY <2>2, <2>3
<1>7. ASSUME NEW r \in Requests, NEW row \in MediaRow, SettlesTo(r, row)
      PROVE  Live(acct', media'[n])
  <2> DEFINE m == req[r].m
  <2>1. SameActive(acct')
    BY <1>7, SettledEffect DEF SettlesTo, OnlyUsage, SameStanding
  <2>2. /\ m \in MediaIds /\ media[m] # AbsentMedia
        /\ media'[n] = IF n = m THEN row ELSE media[n]
    <3>1. media[m].account \in Accounts /\ m \in MediaIds
      BY <1>7, CommitLocals DEF SettlesTo, MediaAsRead
    <3> QED  BY <1>3, <1>7, <3>1, VaultConstants DEF SettlesTo, AbsentMedia
  <2>3. CASE n = m
    <3>1. row = AbsentMedia \/ (row.account = media[m].account /\ row.orphaned = media[m].orphaned)
      BY <1>3, <1>7, <2>2 DEF SettlesTo, MediaRow
    <3> QED  BY <1>1, <1>3, <2>1, <2>2, <2>3, <3>1
  <2>4. CASE n # m
    BY <1>4, <2>1, <2>2, <2>4
  <2> QED  BY <2>3, <2>4
<1>8. ASSUME NEW r \in Requests, NEW a \in Accounts, AddsAccount(r, a)
      PROVE  Live(acct', media'[n])
  <2>1. \A b \in Accounts \ {a} : acct'[b] = acct[b]
    BY <1>3, <1>8 DEF AddsAccount
  <2>2. media[n] # AbsentMedia => media[n].account # a
    BY <1>3, <1>8 DEF AddsAccount
  <2> QED  BY <1>1, <1>3, <1>8, <2>1, <2>2 DEF AddsAccount
<1>9. CASE Reorders
  BY <1>4, <1>9 DEF Reorders, SameStanding
<1>10. ASSUME NEW x \in Accounts, Promotes(x)  PROVE Live(acct', media'[n])
  BY <1>4, <1>10 DEF Promotes
<1>11. ASSUME NEW a \in Accounts, Deactivates(a)  PROVE Live(acct', media'[n])
  <2>1. CASE media[n].account = a
    <3>1. media'[n] = [media[n] EXCEPT !.orphaned = TRUE]
      BY <1>11, <2>1 DEF Deactivates
    <3>2. media'[n].orphaned /\ media'[n].account = a
      BY <1>3, <2>1, <3>1 DEF MediaRow
    <3> QED  BY <1>11, <3>2 DEF Deactivates
  <2>2. CASE media[n].account # a
    BY <1>1, <1>3, <1>11, <2>2 DEF Deactivates
  <2> QED  BY <2>1, <2>2
<1> QED  BY <1>5, <1>6, <1>7, <1>8, <1>9, <1>10, <1>11 DEF FreshEffect

\* Only a step that acts on a stale read leaves active accounts without a
\* Primary, however many requests overlap.
THEOREM FreshStepsKeepAPrimary == Spec => FreshStepsKeepPrimary
<1> DEFINE Kept == StepIsFresh /\ HasPrimary => HasPrimary'
<1>1. VaultInv /\ [Next]_vaultVars => Kept
  BY NextKeepsInv, FreshStepEffect, PrimaryKept DEF VaultInv, RowsInv, TypeOK
<1>2. Spec => [][Kept]_vaultVars
  BY <1>1, VaultInvariant, PTL DEF Spec
<1> QED  BY <1>2 DEF FreshStepsKeepPrimary

\* Only such a step leaves a live item on a deactivated account, or an orphaned
\* one on an active account.
THEOREM FreshStepsKeepLiveMedia == Spec => FreshStepsKeepMediaLive
<1> DEFINE Kept == StepIsFresh /\ LiveMediaOnActiveAccount => LiveMediaOnActiveAccount'
<1>1. VaultInv /\ [Next]_vaultVars => Kept
  BY NextKeepsInv, FreshStepEffect, MediaLiveKept DEF VaultInv
<1>2. Spec => [][Kept]_vaultVars
  BY <1>1, VaultInvariant, PTL DEF Spec
<1> QED  BY <1>2 DEF FreshStepsKeepMediaLive

-----------------------------------------------------------------------------
(***************************************************************************)
(* The bytes held on an account, as the sum over all media of what each    *)
(* row holds on it: one row written changes one term.                      *)
(***************************************************************************)
HeldBy(row, a) ==
  IF row.status \in {"uploading", "ready"} /\ ~row.orphaned /\ row.account = a
    THEN row.size ELSE 0

HeldOn(items, a) == Total([m \in MediaIds |-> HeldBy(items[m], a)], MediaIds)

BytesHeldIn(items, a) ==
  MapThenSumSet(LAMBDA m : items[m].size,
                {m \in MediaIds : /\ items[m].status \in {"uploading", "ready"}
                                  /\ ~items[m].orphaned
                                  /\ items[m].account = a})

LEMMA HeldByRange ==
  ASSUME NEW row \in MediaRow, NEW a
  PROVE  HeldBy(row, a) \in Nat
BY DEF HeldBy, MediaRow

LEMMA BytesHeldIsTotal ==
  ASSUME NEW items \in [MediaIds -> MediaRow], NEW a
  PROVE  BytesHeldIn(items, a) = HeldOn(items, a)
<1> DEFINE S == {m \in MediaIds : /\ items[m].status \in {"uploading", "ready"}
                                  /\ ~items[m].orphaned
                                  /\ items[m].account = a}
           v == [m \in MediaIds |-> items[m].size]
           w == [m \in MediaIds |-> HeldBy(items[m], a)]
           Sums(g) == g = [s \in SUBSET S |-> IF s = {} THEN 0
                             ELSE items[First(s)].size + g[s \ {First(s)}]]
<1>1. BytesHeldIn(items, a) = (CHOOSE g : Sums(g))[S]
  BY DEF BytesHeldIn, MapThenSumSet, MapThenFoldSet, First
<1>2. IsFiniteSet(S) /\ S \subseteq MediaIds
  BY FiniteIds, FS_Subset
<1>3. /\ \A m \in S : v[m] = w[m]
      /\ \A m \in MediaIds \ S : w[m] = 0
  BY DEF HeldBy
<1>4. \A m \in MediaIds : w[m] \in Nat
  BY HeldByRange
<1> HIDE DEF S
<1>5. \A s \in SUBSET S : s # {} => v[First(s)] = items[First(s)].size
  BY <1>2, FirstIn
<1>6. \A g : Sums(g) <=> Adds(g, v, S)
  BY <1>5 DEF Adds
<1> HIDE DEF Sums, v
<1>7. Adds(Adder(v, S), v, S) /\ Adds(CHOOSE g : Sums(g), v, S)
  BY <1>2, <1>6, AdderAdds
<1>8. \A s \in SUBSET S : s \subseteq S => (CHOOSE g : Sums(g))[s] = Adder(v, S)[s]
  BY ONLY <1>2, <1>7, AddersAgree
<1>9. BytesHeldIn(items, a) = Total(v, S)
  BY <1>1, <1>8, TotalIsAdder
<1> HIDE DEF w
<1>10. Total(v, S) = Total(w, S)
  BY <1>2, <1>3, TotalSame
<1>11. Total(w, MediaIds) = Total(w, S)
  BY <1>2, <1>3, <1>4, FiniteIds, TotalSupport
<1> QED  BY <1>9, <1>10, <1>11 DEF HeldOn, w

LEMMA HeldOnChange ==
  ASSUME NEW items \in [MediaIds -> MediaRow], NEW next \in [MediaIds -> MediaRow],
         NEW m \in MediaIds, \A n \in MediaIds \ {m} : next[n] = items[n], NEW a
  PROVE  /\ HeldOn(items, a) \in Nat /\ HeldOn(next, a) \in Nat
         /\ HeldBy(items[m], a) <= HeldOn(items, a)
         /\ HeldOn(next, a) = (HeldOn(items, a) - HeldBy(items[m], a)) + HeldBy(next[m], a)
<1> DEFINE v == [n \in MediaIds |-> HeldBy(items[n], a)]
           w == [n \in MediaIds |-> HeldBy(next[n], a)]
<1>1. /\ \A n \in MediaIds : v[n] \in Nat /\ w[n] \in Nat
      /\ \A n \in MediaIds \ {m} : w[n] = v[n]
      /\ v[m] = HeldBy(items[m], a) /\ w[m] = HeldBy(next[m], a)
  BY HeldByRange
<1> HIDE DEF v, w
<1>2. HeldOn(items, a) = Total(v, MediaIds) /\ HeldOn(next, a) = Total(w, MediaIds)
  BY DEF HeldOn, v, w
<1> QED  BY <1>1, <1>2, FiniteIds, TotalChange

LEMMA HeldOnSame ==
  ASSUME NEW items, NEW next, NEW a,
         \A n \in MediaIds : HeldBy(next[n], a) = HeldBy(items[n], a)
  PROVE  HeldOn(next, a) = HeldOn(items, a)
BY FiniteIds, TotalSame DEF HeldOn

LEMMA HeldOnNone ==
  ASSUME NEW items, NEW a, \A n \in MediaIds : HeldBy(items[n], a) = 0
  PROVE  HeldOn(items, a) = 0
<1> DEFINE v == [n \in MediaIds |-> HeldBy(items[n], a)]
<1>1. \A n \in MediaIds : v[n] = 0
  OBVIOUS
<1> HIDE DEF v
<1>2. Total(v, MediaIds) = Total(v, {})
  BY <1>1, FiniteIds, TotalSupport
<1> QED  BY <1>2, TotalEmpty DEF HeldOn, v

Balanced(rows, items) ==
  \A a \in Accounts : rows[a].active => rows[a].used = HeldOn(items, a)

LEMMA BooksMean ==
  ASSUME TypeOK
  PROVE  BooksBalance <=> Balanced(acct, media)
<1>1. \A a : BytesHeld(a) = BytesHeldIn(media, a)
  BY DEF BytesHeld, Holding, BytesHeldIn
<1>2. \A a : BytesHeldIn(media, a) = HeldOn(media, a)
  BY BytesHeldIsTotal DEF TypeOK
<1> QED  BY <1>1, <1>2 DEF BooksBalance, Balanced, ActiveAccounts, TypeOK

LEMMA BooksMeanNext ==
  ASSUME TypeOK'
  PROVE  BooksBalance' <=> Balanced(acct', media')
<1>1. ASSUME NEW a  PROVE BytesHeld(a)' = BytesHeldIn(media', a)
  BY DEF BytesHeld, Holding, BytesHeldIn, MapThenSumSet, MapThenFoldSet
<1>2. \A a : BytesHeldIn(media', a) = HeldOn(media', a)
  BY BytesHeldIsTotal DEF TypeOK
<1> QED  BY <1>1, <1>2 DEF BooksBalance, Balanced, ActiveAccounts, TypeOK

\* What a settling transaction gives back is what its item held.
LEMMA SettledShare ==
  ASSUME RowsInv, NEW r \in Requests, NEW row \in MediaRow, SettlesTo(r, row),
         ~media[req[r].m].orphaned
  PROVE  LET m == req[r].m
             a == media[m].account
         IN  /\ m \in MediaIds /\ a \in Accounts
             /\ req[r].delta \in Nat
             /\ HeldBy(row, a) + req[r].delta = HeldBy(media[m], a)
             /\ \A b \in Accounts \ {a} : HeldBy(row, b) = 0 /\ HeldBy(media[m], b) = 0
<1> DEFINE q == req[r]
           m == req[r].m
           e == media[m]
           a == media[m].account
<1>1. /\ q.pc \in Settling /\ q.entity = e /\ q \in Request /\ LocalsOK(q)
      /\ m \in MediaIds /\ e \in MediaRow /\ a \in Accounts /\ q.delta \in Nat
  BY CommitLocals DEF SettlesTo, MediaAsRead, Request
<1>2. e.size \in Nat /\ e.status \in {"uploading", "ready", "failed"}
  <2>1. MediaHasAccount(e)
    BY <1>1 DEF RowsInv
  <2>2. e # AbsentMedia
    BY <1>1, VaultConstants DEF AbsentMedia
  <2> QED  BY <1>1, <2>1, <2>2 DEF MediaHasAccount, MediaRow
<1>3. CASE q.pc = "complete_commit"
  <2>1. e.status = "uploading" /\ q.delta < e.size
    BY <1>1, <1>3 DEF LocalsOK, Completing
  <2>2. PICK size \in Nat : size = e.size - q.delta
    BY <1>1, <1>2, <2>1
  <2>3. row = [e EXCEPT !.status = "ready", !.size = size]
    BY <1>3, <2>2 DEF SettlesTo
  <2>4. row.status = "ready" /\ row.size = size /\ row.account = a /\ ~row.orphaned
    BY <1>1, <2>3 DEF MediaRow
  <2> QED  BY <1>1, <1>2, <2>1, <2>2, <2>4 DEF HeldBy
<1>4. CASE q.pc = "abort_commit"
  <2>1. e.status = "uploading" /\ q.delta = e.size
    BY <1>1, <1>4 DEF LocalsOK, Aborting
  <2>2. row = [e EXCEPT !.status = "failed"]
    BY <1>4 DEF SettlesTo
  <2>3. row.status = "failed"
    BY <1>1, <2>2 DEF MediaRow
  <2> QED  BY <1>1, <1>2, <2>1, <2>3 DEF HeldBy
<1>5. CASE q.pc = "remove_commit"
  <2>1. q.delta = IF e.status # "failed" THEN e.size ELSE 0
    BY <1>1, <1>5 DEF LocalsOK, Removing, Releasable
  <2>2. row.status = "absent"
    BY <1>5 DEF SettlesTo, AbsentMedia
  <2>3. \A b \in Accounts : HeldBy(row, b) = 0
    BY <2>2 DEF HeldBy
  <2>4. HeldBy(e, a) = q.delta /\ \A b \in Accounts \ {a} : HeldBy(e, b) = 0
    BY <1>2, <2>1 DEF HeldBy
  <2> QED  BY <1>1, <2>3, <2>4
<1> QED  BY <1>1, <1>3, <1>4, <1>5 DEF Settling

\* An orphaned item holds nothing, before and after.
LEMMA OrphanHoldsNothing ==
  ASSUME RowsInv, NEW r \in Requests, NEW row \in MediaRow, SettlesTo(r, row),
         media[req[r].m].orphaned
  PROVE  \A b : HeldBy(row, b) = 0 /\ HeldBy(media[req[r].m], b) = 0
<1>1. media[req[r].m] \in MediaRow
  BY CommitLocals DEF SettlesTo, MediaAsRead
<1>2. row.orphaned \/ row.status = "absent"
  <2>1. CASE req[r].pc = "complete_commit"
    <3>1. PICK size : row = [media[req[r].m] EXCEPT !.status = "ready", !.size = size]
      BY <2>1 DEF SettlesTo
    <3> QED  BY <1>1, <3>1 DEF MediaRow
  <2>2. CASE req[r].pc = "abort_commit"
    <3>1. row = [media[req[r].m] EXCEPT !.status = "failed"]
      BY <2>2 DEF SettlesTo
    <3> QED  BY <1>1, <3>1 DEF MediaRow
  <2>3. CASE req[r].pc = "remove_commit"
    BY <2>3 DEF SettlesTo, AbsentMedia
  <2> QED  BY <2>1, <2>2, <2>3 DEF SettlesTo
<1> QED  BY <1>2 DEF HeldBy

LEMMA BooksKept ==
  ASSUME RowsInv, FreshEffect, RowsInv', LiveMediaOnActiveAccount, BooksBalance
  PROVE  BooksBalance'
<1>1. /\ acct \in [Accounts -> AccountRow] /\ acct' \in [Accounts -> AccountRow]
      /\ media \in [MediaIds -> MediaRow] /\ media' \in [MediaIds -> MediaRow]
  BY DEF RowsInv, TypeOK
<1>2. Balanced(acct, media)
  BY BooksMean DEF RowsInv
<1> SUFFICES Balanced(acct', media')
  BY BooksMeanNext DEF RowsInv
<1> SUFFICES ASSUME NEW b \in Accounts, acct'[b].active
             PROVE  acct'[b].used = HeldOn(media', b)
  BY DEF Balanced
<1>3. acct[b].active => acct[b].used = HeldOn(media, b)
  BY <1>2 DEF Balanced
<1>4. ASSUME acct[b].active, acct'[b].used = acct[b].used, media' = media
      PROVE  acct'[b].used = HeldOn(media', b)
  BY <1>3, <1>4
<1>5. CASE UNCHANGED <<acct, media>>
  BY <1>3, <1>5
<1>6. ASSUME NEW a \in Accounts, NEW m \in MediaIds, NEW e \in MediaRow, Reserves(a, m, e)
      PROVE  acct'[b].used = HeldOn(media', b)
  <2>1. /\ acct[b].active /\ acct[b].used \in Nat /\ e.size \in Nat
        /\ acct'[b].used = IF b = a THEN acct[b].used + e.size ELSE acct[b].used
    BY <1>1, <1>6 DEF Reserves, OnlyUsage, SameStanding, AccountRow, MediaRow
  <2>2. HeldBy(media[m], b) = 0
    BY <1>6 DEF Reserves, HeldBy, AbsentMedia
  <2>3. HeldBy(media'[m], b) = IF b = a THEN e.size ELSE 0
    <3>1. media'[m] = [e EXCEPT !.account = a]
      BY <1>1, <1>6 DEF Reserves
    <3>2. /\ media'[m].status = "uploading" /\ ~media'[m].orphaned
          /\ media'[m].account = a /\ media'[m].size = e.size
      BY <1>6, <3>1 DEF Reserves, MediaRow
    <3> QED  BY <3>2 DEF HeldBy
  <2>4. \A n \in MediaIds \ {m} : media'[n] = media[n]
    BY <1>1, <1>6 DEF Reserves
  <2>5. /\ HeldOn(media, b) \in Nat
        /\ HeldOn(media', b) = (HeldOn(media, b) - HeldBy(media[m], b)) + HeldBy(media'[m], b)
    BY <1>1, <2>4, HeldOnChange
  <2> QED  BY <1>3, <2>1, <2>2, <2>3, <2>5
<1>7. ASSUME NEW r \in Requests, NEW row \in MediaRow, SettlesTo(r, row)
      PROVE  acct'[b].used = HeldOn(media', b)
  <2> DEFINE m     == req[r].m
             a     == media[m].account
             delta == req[r].delta
  <2>1. /\ m \in MediaIds /\ a \in Accounts /\ delta \in Nat
        /\ req[r].entity.account = a /\ media[m] # AbsentMedia
    BY <1>7, CommitLocals, VaultConstants DEF SettlesTo, MediaAsRead, Request, AbsentMedia
  <2>2. media'[m] = row /\ \A n \in MediaIds \ {m} : media'[n] = media[n]
    BY <1>1, <1>7, <2>1 DEF SettlesTo
  <2>3. /\ OnlyUsage(acct', a)
        /\ delta <= acct[a].used => acct'[a].used = acct[a].used - delta
    BY <1>7, <2>1, SettledEffect DEF SettlesTo
  <2>4. /\ HeldOn(media, b) \in Nat /\ HeldBy(media[m], b) <= HeldOn(media, b)
        /\ HeldOn(media', b) = (HeldOn(media, b) - HeldBy(media[m], b)) + HeldBy(row, b)
    BY <1>1, <2>1, <2>2, HeldOnChange
  <2>5. acct[b].active
    BY <2>3 DEF OnlyUsage, SameStanding
  <2>6. CASE media[m].orphaned
    <3>1. b # a
      BY <2>1, <2>5, <2>6 DEF LiveMediaOnActiveAccount
    <3>2. HeldBy(row, b) = 0 /\ HeldBy(media[m], b) = 0
      BY <1>7, <2>6, OrphanHoldsNothing
    <3> QED  BY <1>3, <2>3, <2>4, <2>5, <3>1, <3>2 DEF OnlyUsage
  <2>7. CASE ~media[m].orphaned
    <3>1. /\ HeldBy(row, a) + delta = HeldBy(media[m], a)
          /\ b # a => HeldBy(row, b) = 0 /\ HeldBy(media[m], b) = 0
      BY <1>7, <2>7, SettledShare
    <3>2. HeldBy(row, a) \in Nat /\ HeldBy(media[m], a) \in Nat /\ acct[a].used \in Nat
      BY <1>1, <2>1, HeldByRange DEF AccountRow
    <3>3. CASE b = a
      BY <1>3, <2>1, <2>3, <2>4, <2>5, <3>1, <3>2, <3>3
    <3>4. CASE b # a
      BY <1>3, <2>3, <2>4, <2>5, <3>1, <3>4 DEF OnlyUsage
    <3> QED  BY <3>3, <3>4
  <2> QED  BY <2>6, <2>7
<1>8. ASSUME NEW r \in Requests, NEW a \in Accounts, AddsAccount(r, a)
      PROVE  acct'[b].used = HeldOn(media', b)
  <2>1. media' = media /\ acct'[a] = NewAccount(req[r].slot)
        /\ \A c \in Accounts \ {a} : acct'[c] = acct[c]
    BY <1>1, <1>8 DEF AddsAccount
  <2>2. CASE b = a
    <3>1. acct'[b].used = 0
      BY <2>1, <2>2 DEF NewAccount
    <3>2. \A n \in MediaIds : HeldBy(media[n], b) = 0
      <4>1. \A n \in MediaIds : media[n] # AbsentMedia => media[n].account # a
        BY <1>8, AccountKept, TableIsGood DEF AddsAccount, Exists, AbsentAccount
      <4> QED  BY <2>2, <4>1 DEF HeldBy, AbsentMedia
    <3> QED  BY <2>1, <3>1, <3>2, HeldOnNone
  <2>3. CASE b # a
    BY <1>3, <2>1, <2>3
  <2> QED  BY <2>2, <2>3
<1>9. CASE Reorders
  BY <1>4, <1>9 DEF Reorders, SameStanding
<1>10. ASSUME NEW x \in Accounts, Promotes(x)  PROVE acct'[b].used = HeldOn(media', b)
  BY <1>4, <1>10 DEF Promotes
<1>11. ASSUME NEW a \in Accounts, Deactivates(a)  PROVE acct'[b].used = HeldOn(media', b)
  <2>1. b # a /\ acct'[b] = acct[b]
    BY <1>11 DEF Deactivates
  <2>2. \A n \in MediaIds : HeldBy(media'[n], b) = HeldBy(media[n], b)
    <3>1. ASSUME NEW n \in MediaIds  PROVE HeldBy(media'[n], b) = HeldBy(media[n], b)
      <4>1. CASE media[n].account = a
        <5>1. media'[n] = [media[n] EXCEPT !.orphaned = TRUE]
          BY <1>11, <4>1 DEF Deactivates
        <5>2. media'[n].account = a
          BY <1>1, <4>1, <5>1 DEF MediaRow
        <5> QED  BY <2>1, <4>1, <5>2 DEF HeldBy
      <4>2. CASE media[n].account # a
        BY <1>11, <4>2 DEF Deactivates
      <4> QED  BY <4>1, <4>2
    <3> QED  BY <3>1
  <2>3. HeldOn(media', b) = HeldOn(media, b)
    BY <2>2, HeldOnSame
  <2> QED  BY <1>3, <2>1, <2>3
<1> QED  BY <1>5, <1>6, <1>7, <1>8, <1>9, <1>10, <1>11 DEF FreshEffect

\* Only a step that acts on a stale read makes an active account owe other
\* than the bytes it holds, for any number of media, accounts and overlapping
\* requests.
THEOREM FreshStepsKeepTheBooks == Spec => FreshStepsKeepBooks
<1> DEFINE Kept == StepIsFresh /\ BooksBalance /\ LiveMediaOnActiveAccount => BooksBalance'
<1>1. VaultInv /\ [Next]_vaultVars => Kept
  BY NextKeepsInv, FreshStepEffect, BooksKept DEF VaultInv
<1>2. Spec => [][Kept]_vaultVars
  BY <1>1, VaultInvariant, PTL DEF Spec
<1> QED  BY <1>2 DEF FreshStepsKeepBooks

-----------------------------------------------------------------------------
(***************************************************************************)
(* promote: each of its three tables passes the CHECK constraint and the   *)
(* unique indexes, because the target is out of them while the old Primary *)
(* has its slot.                                                           *)
(***************************************************************************)
LEMMA Ranks ==
  ASSUME NEW row
  PROVE  /\ row.role = Primary => FillRank(row) = 0
         /\ row.role = Secondary /\ row.slot \in {1, 2} => FillRank(row) = row.slot
<1>1. Primary # Secondary
  BY DEF Primary, Secondary
<1>2. row.role = Primary => FillRank(row) = 0
  BY DEF FillRank
<1>3. row.role = Secondary /\ row.slot \in {1, 2} => FillRank(row) = row.slot
  BY <1>1 DEF FillRank, NullSlot
<1> QED  BY <1>2, <1>3

LEMMA AcceptsByRank ==
  ASSUME NEW rows \in [Accounts -> AccountRow], \A b \in Accounts : RoleSlotCheck(rows[b]),
         \A b, c \in Accounts :
            rows[b].active /\ rows[c].active /\ FillRank(rows[b]) = FillRank(rows[c]) => b = c
  PROVE  DatabaseAccepts(rows)
BY DEF DatabaseAccepts, UniqueIndexes, ActiveAccounts

LEMMA PromoteAccepted ==
  ASSUME RowsInv, NEW r \in Requests, FreshPromote(r), NEW tables,
         tables = PromoteStatements(req[r].target, req[r].other, req[r].slot)
  PROVE  /\ \A i \in DOMAIN tables : DatabaseAccepts(tables[i])
         /\ LET t == req[r].target
                p == req[r].other
            IN  tables[Len(tables)] =
                  [acct EXCEPT ![t].role = Primary, ![t].slot = NullSlot,
                               ![p].role = Secondary, ![p].slot = acct[t].slot]
<1> DEFINE t == req[r].target
           p == req[r].other
           s == req[r].slot
<1>1. /\ acct \in [Accounts -> AccountRow] /\ DatabaseAccepts(acct)
      /\ \A b \in Accounts : RoleSlotCheck(acct[b])
      /\ \A b, c \in Accounts :
            acct[b].active /\ acct[c].active /\ FillRank(acct[b]) = FillRank(acct[c]) => b = c
  <2>1. acct \in [Accounts -> AccountRow] /\ DatabaseAccepts(acct) /\ DOMAIN acct = Accounts
    BY DEF RowsInv, TypeOK
  <2> QED  BY <2>1 DEF DatabaseAccepts, UniqueIndexes, ActiveAccounts
<1>2. /\ t \in Accounts /\ p \in Accounts /\ p # None /\ p # t
      /\ acct[t].active /\ acct[t].role = Secondary /\ acct[t].slot = s
      /\ acct[p].active /\ acct[p].role = Primary
  <2>1. t \in Accounts
    BY LocalsType DEF FreshPromote, LocalsOK
  <2> QED  BY <1>1, <2>1, PrimaryMeans
           DEF FreshPromote, ActivePrimaries, Primary, Secondary
<1>3. s \in {1, 2} /\ FillRank(acct[t]) = s /\ FillRank(acct[p]) = 0
  <2>1. acct[t] # AbsentAccount
    BY <1>2 DEF AbsentAccount, Secondary
  <2>2. s \in {1, 2}
    BY <1>1, <1>2, <2>1 DEF RoleSlotCheck, Primary, Secondary
  <2> QED  BY <1>2, <2>2, Ranks
<1>4. PICK hidden, demoted, promoted \in [Accounts -> AccountRow] :
         /\ tables = <<hidden, demoted, promoted>>
         /\ \A b \in Accounts :
              /\ hidden[b] = IF b = t THEN HiddenRow(acct[b]) ELSE acct[b]
              /\ demoted[b] = IF b = p THEN DemotedRow(hidden[b], s) ELSE hidden[b]
              /\ promoted[b] = IF b = t THEN PromotedRow(demoted[b]) ELSE demoted[b]
  <2>1. s \in 0..2
    BY <1>3
  <2> QED  BY <1>2, <2>1, PromoteTables
<1>5. DatabaseAccepts(hidden)
  <2>1. hidden = [acct EXCEPT ![t].active = FALSE]
    <3>1. \A b \in Accounts : hidden[b] = [acct EXCEPT ![t].active = FALSE][b]
      BY <1>1, <1>4 DEF HiddenRow
    <3> QED  BY <1>1, <1>4, <3>1
  <2> QED  BY <1>1, <1>2, <2>1, HidingOK
<1>6. /\ \A b \in Accounts \ {t, p} : /\ hidden[b] = acct[b] /\ demoted[b] = acct[b]
                                      /\ promoted[b] = acct[b]
      /\ demoted[p] = DemotedRow(acct[p], s) /\ promoted[p] = DemotedRow(acct[p], s)
      /\ demoted[t] = HiddenRow(acct[t]) /\ promoted[t] = PromotedRow(HiddenRow(acct[t]))
      /\ hidden[t] = HiddenRow(acct[t])
  BY <1>2, <1>4
<1>7. /\ demoted[p].active /\ demoted[p].role = Secondary /\ demoted[p].slot = s
      /\ FillRank(demoted[p]) = s
      /\ ~demoted[t].active /\ demoted[t].role = Secondary /\ demoted[t].slot = s
      /\ promoted[t].active /\ promoted[t].role = Primary /\ promoted[t].slot = NullSlot
      /\ FillRank(promoted[t]) = 0
  <2>1. s \in 0..2 /\ acct[p] \in AccountRow /\ acct[t] \in AccountRow
    BY <1>1, <1>2, <1>3
  <2>2. demoted[p].active /\ demoted[p].role = Secondary /\ demoted[p].slot = s
    BY <1>2, <1>6, <2>1, DemotedRowIs
  <2>3. /\ ~demoted[t].active /\ demoted[t].role = Secondary /\ demoted[t].slot = s
        /\ HiddenRow(acct[t]) \in AccountRow
    BY <1>2, <1>6, <2>1, HiddenRowIs
  <2>4. promoted[t].active /\ promoted[t].role = Primary /\ promoted[t].slot = NullSlot
    BY <1>6, <2>3, PromotedRowIs
  <2> QED  BY <1>3, <2>2, <2>3, <2>4, Ranks
<1>8. /\ \A b \in Accounts : RoleSlotCheck(demoted[b])
      /\ \A b \in Accounts : RoleSlotCheck(promoted[b])
  <2>1. /\ RoleSlotCheck(demoted[p]) /\ RoleSlotCheck(demoted[t])
        /\ RoleSlotCheck(promoted[p]) /\ RoleSlotCheck(promoted[t])
    BY <1>3, <1>6, <1>7 DEF RoleSlotCheck
  <2> QED  BY <1>1, <1>6, <2>1
<1>9. \A b \in Accounts \ {t, p} : acct[b].active => FillRank(acct[b]) # s /\ FillRank(acct[b]) # 0
  BY <1>1, <1>2, <1>3
<1>10. DatabaseAccepts(demoted)
  <2>1. ASSUME NEW b \in Accounts, NEW c \in Accounts, demoted[b].active, demoted[c].active,
               FillRank(demoted[b]) = FillRank(demoted[c])
        PROVE  b = c
    <3>1. b # t /\ c # t
      BY <1>7, <2>1
    <3> QED  BY <1>1, <1>6, <1>7, <1>9, <2>1, <3>1
  <2>2. \A b, c \in Accounts :
           demoted[b].active /\ demoted[c].active /\ FillRank(demoted[b]) = FillRank(demoted[c]) => b = c
    BY ONLY <2>1
  <2> QED  BY ONLY demoted \in [Accounts -> AccountRow], <1>8, <2>2, AcceptsByRank
<1>11. DatabaseAccepts(promoted)
  <2>1. FillRank(promoted[p]) = s
    BY <1>6, <1>7
  <2>2. s # 0
    BY <1>3
  <2>3. ASSUME NEW b \in Accounts, NEW c \in Accounts, promoted[b].active, promoted[c].active,
               FillRank(promoted[b]) = FillRank(promoted[c])
        PROVE  b = c
    BY <1>1, <1>6, <1>7, <1>9, <2>1, <2>2, <2>3
  <2>4. \A b, c \in Accounts :
           promoted[b].active /\ promoted[c].active /\ FillRank(promoted[b]) = FillRank(promoted[c]) => b = c
    BY ONLY <2>3
  <2> QED  BY ONLY promoted \in [Accounts -> AccountRow], <1>8, <2>4, AcceptsByRank
<1>12. promoted = [acct EXCEPT ![t].role = Primary, ![t].slot = NullSlot,
                              ![p].role = Secondary, ![p].slot = acct[t].slot]
  <2> DEFINE after == [acct EXCEPT ![t].role = Primary, ![t].slot = NullSlot,
                                   ![p].role = Secondary, ![p].slot = acct[t].slot]
  <2>1. /\ after[t] = [acct[t] EXCEPT !.role = Primary, !.slot = NullSlot]
        /\ after[p] = [acct[p] EXCEPT !.role = Secondary, !.slot = acct[t].slot]
        /\ \A b \in Accounts \ {t, p} : after[b] = acct[b]
        /\ after = [b \in Accounts |-> after[b]]
    BY <1>1, <1>2
  <2>2. PromotedRow(HiddenRow(acct[t])) = [acct[t] EXCEPT !.role = Primary, !.slot = NullSlot]
    <3>1. acct[t] \in AccountRow /\ acct[t].active = TRUE
      BY <1>1, <1>2 DEF AccountRow
    <3> QED  BY <3>1 DEF PromotedRow, HiddenRow, AccountRow
  <2>3. promoted = [b \in Accounts |-> promoted[b]]
    BY <1>4
  <2> HIDE DEF after
  <2>4. \A b \in Accounts : promoted[b] = after[b]
    BY <1>2, <1>6, <2>1, <2>2 DEF DemotedRow
  <2> QED  BY <2>1, <2>3, <2>4 DEF after
<1>13. DOMAIN tables = {1, 2, 3} /\ Len(tables) = 3
  BY <1>4
<1>14. tables[1] = hidden /\ tables[2] = demoted /\ tables[3] = promoted
  BY <1>4
<1> QED  BY <1>5, <1>10, <1>11, <1>12, <1>13, <1>14

\* A promotion whose reads still hold exchanges the two accounts and is not
\* refused half-way by the unique indexes, in any vault.
THEOREM PromotionsTakeEffect == Spec => PromoteTakesEffect
<1> DEFINE Exchanged ==
             \A r \in Requests : FreshPromote(r) /\ PromoteWrite(r) =>
                LET t == req[r].target
                    p == req[r].other
                IN  acct' = [acct EXCEPT
                               ![t].role = Primary, ![t].slot = NullSlot,
                               ![p].role = Secondary, ![p].slot = acct[t].slot]
<1>1. VaultInv /\ [Next]_vaultVars => Exchanged
  <2> SUFFICES ASSUME RowsInv, NEW r \in Requests, FreshPromote(r), PromoteWrite(r)
               PROVE  LET t == req[r].target
                          p == req[r].other
                      IN  acct' = [acct EXCEPT
                                     ![t].role = Primary, ![t].slot = NullSlot,
                                     ![p].role = Secondary, ![p].slot = acct[t].slot]
    BY DEF VaultInv
  <2> DEFINE tables == PromoteStatements(req[r].target, req[r].other, req[r].slot)
  <2>1. acct' = IF \A i \in DOMAIN tables : DatabaseAccepts(tables[i])
                  THEN tables[Len(tables)] ELSE acct
    BY DEF PromoteWrite
  <2> HIDE DEF tables
  <2> QED  BY <2>1, PromoteAccepted DEF tables
<1>2. Spec => [][Exchanged]_vaultVars
  BY <1>1, VaultInvariant, PTL DEF Spec
<1> QED  BY <1>2 DEF PromoteTakesEffect

-----------------------------------------------------------------------------
(***************************************************************************)
(* One request at a time.  AsRead(q, rows, items) is NothingChanged for a  *)
(* request with the locals q in a vault with the tables rows and items.    *)
(***************************************************************************)
Primaries(rows) == {a \in ActiveAccounts(rows) : rows[a].role = Primary}

AsRead(q, rows, items) ==
  /\ q.pc \in Announcing => items[q.m] = AbsentMedia
  /\ q.pc \in UploadPcs \ Announcing => items[q.m] = q.entity
  /\ q.pc \in Settling => (q.delta > 0 => rows[q.entity.account] = q.snap)
  /\ q.pc = "create_slots" => Primaries(rows) # {}
  /\ q.pc = "create_insert" => (q.slot = NullSlot <=> Primaries(rows) = {})
  /\ q.pc \in {"promote_primary", "deactivate_count", "deactivate_orphan"} =>
       rows[q.target].active /\ rows[q.target].role # Primary
  /\ q.pc = "promote_write" => rows[q.target].active
  /\ q.pc = "deactivate_write" =>
       /\ rows[q.target].role # Primary
       /\ {m \in MediaIds : items[m].account = q.target /\ ~items[m].orphaned} \subseteq q.orphans

LEMMA NothingChangedMeans ==
  ASSUME NEW r \in Requests
  PROVE  NothingChanged(r) <=> AsRead(req[r], acct, media)
<1>1. /\ req[r].pc = "reserve" => req[r].pc \in Announcing
      /\ req[r].pc \in {"complete_commit", "abort_commit", "remove_commit"} =>
            req[r].pc \in Settling /\ req[r].pc \in UploadPcs \ Announcing
  BY DEF Announcing, Settling, UploadPcs
<1> QED
  BY <1>1
  DEF NothingChanged, AsRead, StillAsRead, MediaAsRead, UsageAsRead, LinkedMedia,
      ActivePrimaries, Primaries

LEMMA NothingChangedMeansNext ==
  ASSUME NEW r \in Requests, AsRead(req'[r], acct', media')
  PROVE  NothingChanged(r)'
<1>1. /\ req'[r].pc = "reserve" => req'[r].pc \in Announcing
      /\ req'[r].pc \in {"complete_commit", "abort_commit", "remove_commit"} =>
            req'[r].pc \in Settling /\ req'[r].pc \in UploadPcs \ Announcing
  BY DEF Announcing, Settling, UploadPcs
<1> QED
  BY <1>1
  DEF NothingChanged, AsRead, StillAsRead, MediaAsRead, UsageAsRead, LinkedMedia,
      ActivePrimaries, Primaries

\* A request that ends has read nothing.
LEMMA NothingRead ==
  ASSUME NEW rows, NEW items
  PROVE  AsRead(Idle, rows, items)
BY DEF AsRead, Idle, Announcing, UploadPcs, Settling

\* A step of the media service that reads, or that moves on from what it read.
LEMMA MediaReads ==
  ASSUME RowsInv, NEW r \in Requests, MediaNext(r), AsRead(req[r], acct, media)
  PROVE  Finish(r) \/ (UNCHANGED <<acct, media>> /\ AsRead(req'[r], acct, media))
<1> USE DEF AsRead, Announcing, UploadPcs, Settling
<1>1. req \in [Requests -> Request] /\ req[r] \in Request /\ LocalsOK(req[r])
  BY LocalsType DEF RowsInv, TypeOK
<1>2. ASSUME NEW m \in MediaIds, NEW size \in Sizes, NEW total \in 1..MaxParts,
             InitCheckExisting(r, m, size, total)
      PROVE  UNCHANGED <<acct, media>> /\ AsRead(req'[r], acct, media)
  <2>1. req'[r].pc = "preflight" /\ req'[r].m = m
    BY <1>1, <1>2 DEF InitCheckExisting, Start, Idle
  <2> QED  BY <1>2, <2>1 DEF InitCheckExisting
<1>3. CASE InitPreflight(r)
  <2>1. CASE Finish(r)
    BY <2>1
  <2>2. CASE ~Finish(r)
    <3>1. PICK a : req' = [req EXCEPT ![r] = [req[r] EXCEPT !.pc = "reserve", !.target = a]]
      BY <1>3, <2>2 DEF InitPreflight, Goto
    <3>2. req'[r] = [req[r] EXCEPT !.pc = "reserve", !.target = a]
      BY <1>1, <3>1
    <3>3. req'[r].pc = "reserve" /\ req'[r].m = req[r].m
      BY <1>1, <3>2 DEF Request
    <3> QED  BY <1>3, <3>3 DEF InitPreflight
  <2> QED  BY <2>1, <2>2
<1>4. ASSUME NEW m \in MediaIds, NEW pc \in {"complete_load", "complete_commit", "abort_load",
                                             "remove_load", "remove_commit", "remove_destroy"},
             req'[r].pc = pc, req'[r].m = m, req'[r].entity = media[m],
             pc \in Settling => ~ (req'[r].delta > 0)
      PROVE  AsRead(req'[r], acct, media)
  BY <1>4
<1>5. ASSUME NEW m \in MediaIds, NEW indices \in SUBSET PartIndices, NEW compressed \in Sizes,
             CompleteRead(r, m, indices, compressed)
      PROVE  UNCHANGED <<acct, media>> /\ AsRead(req'[r], acct, media)
  <2> DEFINE delta == media[m].size - compressed
             pc    == IF delta > 0 THEN "complete_load" ELSE "complete_commit"
  <2>1. /\ req'[r] = [Idle EXCEPT !.pc = pc, !.m = m, !.entity = media[m], !.parts = indices,
                                  !.delta = delta]
        /\ UNCHANGED <<acct, media>>
    BY <1>1, <1>5 DEF CompleteRead, Start
  <2>2. pc \in {"complete_load", "complete_commit"} /\ (pc = "complete_commit" => ~ (delta > 0))
    OBVIOUS
  <2> HIDE DEF pc, delta
  <2>3. /\ req'[r].pc = pc /\ req'[r].m = m /\ req'[r].entity = media[m]
        /\ req'[r].delta = delta
    BY <2>1 DEF Idle
  <2> QED  BY <1>4, <2>1, <2>2, <2>3
<1>6. ASSUME NEW from, NEW to, LoadAccount(r, from, to),
             \/ from = "complete_load" /\ to = "complete_commit"
             \/ from = "abort_load" /\ to = "abort_commit"
             \/ from = "remove_load" /\ to = "remove_commit"
      PROVE  UNCHANGED <<acct, media>> /\ AsRead(req'[r], acct, media)
  <2>1. /\ req[r].pc = from /\ req'[r].pc = to /\ req'[r].m = req[r].m
        /\ req'[r].entity = req[r].entity /\ req'[r].snap = acct[req[r].entity.account]
    BY <1>1, <1>6 DEF LoadAccount, Goto, Request
  <2> QED  BY <1>6, <2>1 DEF LoadAccount
<1>7. ASSUME NEW m \in MediaIds, AbortRead(r, m)
      PROVE  UNCHANGED <<acct, media>> /\ AsRead(req'[r], acct, media)
  <2>1. req'[r].pc = "abort_load" /\ req'[r].m = m /\ req'[r].entity = media[m]
    BY <1>1, <1>7 DEF AbortRead, Start, Idle
  <2> QED  BY <1>4, <1>7, <2>1 DEF AbortRead
<1>8. ASSUME NEW e  PROVE /\ RemoveTransaction(e) \in {"remove_load", "remove_commit"}
                          /\ RemoveTransaction(e) = "remove_commit" => ~ (Releasable(e) > 0)
  BY DEF RemoveTransaction
<1>9. ASSUME NEW m \in MediaIds, RemoveRead(r, m)
      PROVE  UNCHANGED <<acct, media>> /\ AsRead(req'[r], acct, media)
  <2> DEFINE pc == IF media[m].orphaned THEN RemoveTransaction(media[m]) ELSE "remove_destroy"
  <2>1. /\ req'[r] = [Idle EXCEPT !.pc = pc, !.m = m, !.entity = media[m],
                                  !.delta = Releasable(media[m])]
        /\ UNCHANGED <<acct, media>>
    BY <1>1, <1>9 DEF RemoveRead, Start
  <2>2. /\ pc \in {"remove_load", "remove_commit", "remove_destroy"}
        /\ pc = "remove_commit" => ~ (Releasable(media[m]) > 0)
    BY <1>8
  <2> HIDE DEF pc
  <2>3. /\ req'[r].pc = pc /\ req'[r].m = m /\ req'[r].entity = media[m]
        /\ req'[r].delta = Releasable(media[m])
    BY <2>1 DEF Idle
  <2> QED  BY <1>4, <2>1, <2>2, <2>3
<1>10. ASSUME RemoveDestroy(r)
       PROVE  UNCHANGED <<acct, media>> /\ AsRead(req'[r], acct, media)
  <2> DEFINE pc == RemoveTransaction(req[r].entity)
  <2>1. req'[r] = [req[r] EXCEPT !.pc = pc] /\ UNCHANGED <<acct, media>>
        /\ req[r].pc = "remove_destroy"
    BY <1>1, <1>10 DEF RemoveDestroy, Goto
  <2>2. /\ pc \in {"remove_load", "remove_commit"}
        /\ pc = "remove_commit" => ~ (Releasable(req[r].entity) > 0)
    BY <1>8
  <2>3. req[r].delta = Releasable(req[r].entity) /\ req[r].m \in MediaIds
        /\ media[req[r].m] = req[r].entity
    BY <1>1, <2>1 DEF LocalsOK, Removing
  <2> HIDE DEF pc
  <2>4. /\ req'[r].pc = pc /\ req'[r].m = req[r].m /\ req'[r].entity = req[r].entity
        /\ req'[r].delta = req[r].delta
    BY <1>1, <2>1 DEF Request
  <2> QED  BY <1>4, <2>1, <2>2, <2>3, <2>4
<1>11. CASE InitReserve(r) \/ CompleteCommit(r) \/ AbortCommit(r) \/ RemoveCommit(r)
  BY <1>11 DEF InitReserve, CompleteCommit, AbortCommit, RemoveCommit
<1> HIDE DEF AsRead, Announcing, UploadPcs, Settling
<1> QED
  BY <1>2, <1>3, <1>5, <1>6, <1>7, <1>9, <1>10, <1>11
  DEF MediaNext, CompleteLoad, AbortLoad, RemoveLoad

\* The same of the accounts service.
LEMMA AccountReads ==
  ASSUME RowsInv, NEW r \in Requests, AccountsNext(r), AsRead(req[r], acct, media)
  PROVE  Finish(r) \/ (UNCHANGED <<acct, media>> /\ AsRead(req'[r], acct, media))
<1> USE DEF AsRead, Announcing, UploadPcs, Settling
<1>1. req \in [Requests -> Request] /\ req[r] \in Request
  BY LocalsType DEF RowsInv, TypeOK
<1>2. CASE CreateReadPrimary(r)
  <2> DEFINE pc == IF ActivePrimaries = {} THEN "create_insert" ELSE "create_slots"
  <2>1. req'[r] = [Idle EXCEPT !.pc = pc] /\ UNCHANGED <<acct, media>>
    BY <1>1, <1>2 DEF CreateReadPrimary, Start
  <2>2. \/ pc = "create_insert" /\ Primaries(acct) = {}
        \/ pc = "create_slots" /\ Primaries(acct) # {}
    BY DEF ActivePrimaries, Primaries
  <2> HIDE DEF pc
  <2>3. req'[r].pc = pc /\ req'[r].slot = NullSlot
    BY <2>1 DEF Idle, NullSlot
  <2> QED  BY <2>1, <2>2, <2>3
<1>3. CASE CreateReadSlots(r)
  <2> DEFINE free == {s \in {1, 2} : InSlot(s) = {}}
  <2>1. CASE free = {}
    BY <1>3, <2>1 DEF CreateReadSlots
  <2>2. CASE free # {}
    <3>1. Min(free) \in {1, 2}
      <4>1. \E x \in free : \A y \in free : x <= y
        BY <2>2
      <4> QED  BY <4>1 DEF Min
    <3>2. /\ req'[r] = [req[r] EXCEPT !.pc = "create_insert", !.slot = Min(free)]
          /\ UNCHANGED <<acct, media>> /\ req[r].pc = "create_slots"
      BY <1>1, <1>3, <2>2 DEF CreateReadSlots, Goto
    <3> HIDE DEF free
    <3>3. req'[r].pc = "create_insert" /\ req'[r].slot # NullSlot
      BY <1>1, <3>1, <3>2 DEF Request, NullSlot
    <3> QED  BY <3>2, <3>3
  <2> QED  BY <2>1, <2>2
<1>4. CASE SwapRead(r)
  <2>1. req'[r].pc = "swap_write"
    BY <1>1, <1>4 DEF SwapRead, Start, Idle
  <2> QED  BY <1>4, <2>1 DEF SwapRead
<1>5. ASSUME NEW a \in Accounts, PromoteRead(r, a)
      PROVE  UNCHANGED <<acct, media>> /\ AsRead(req'[r], acct, media)
  <2>1. req'[r].pc = "promote_primary" /\ req'[r].target = a
    BY <1>1, <1>5 DEF PromoteRead, Start, Idle
  <2> QED  BY <1>5, <2>1 DEF PromoteRead
<1>6. CASE PromoteReadPrimary(r)
  <2>1. /\ req'[r].pc = "promote_write" /\ req'[r].target = req[r].target
        /\ req[r].pc = "promote_primary"
    BY <1>1, <1>6 DEF PromoteReadPrimary, Goto, Request
  <2> QED  BY <1>6, <2>1 DEF PromoteReadPrimary
<1>7. ASSUME NEW a \in Accounts, NEW force \in ForceChoices, DeactivateRead(r, a, force)
      PROVE  UNCHANGED <<acct, media>> /\ AsRead(req'[r], acct, media)
  <2>1. req'[r].pc = "deactivate_count" /\ req'[r].target = a
    BY <1>1, <1>7 DEF DeactivateRead, Start, Idle
  <2> QED  BY <1>7, <2>1 DEF DeactivateRead
<1>8. CASE DeactivateCount(r)
  <2> DEFINE linked == LinkedMedia(req[r].target) # {}
  <2>1. CASE linked /\ ~req[r].flag
    BY <1>8, <2>1 DEF DeactivateCount
  <2>2. CASE ~ (linked /\ ~req[r].flag)
    <3> DEFINE pc == IF linked THEN "deactivate_orphan" ELSE "deactivate_write"
    <3>1. /\ req'[r] = [req[r] EXCEPT !.pc = pc, !.orphans = {}]
          /\ UNCHANGED <<acct, media>> /\ req[r].pc = "deactivate_count"
      BY <1>1, <1>8, <2>2 DEF DeactivateCount, Goto
    <3>2. ~linked => {m \in MediaIds : media[m].account = req[r].target /\ ~media[m].orphaned} = {}
      BY DEF LinkedMedia
    <3>3. \/ pc = "deactivate_orphan"
          \/ pc = "deactivate_write" /\ ~linked
      OBVIOUS
    <3> HIDE DEF pc, linked
    <3>4. req'[r].pc = pc /\ req'[r].target = req[r].target /\ req'[r].orphans = {}
      BY <1>1, <3>1 DEF Request
    <3> QED  BY <3>1, <3>2, <3>3, <3>4
  <2> QED  BY <2>1, <2>2
<1>10. CASE DeactivateOrphan(r)
  <2>1. /\ req'[r].pc = "deactivate_write" /\ req'[r].target = req[r].target
        /\ req'[r].orphans = LinkedMedia(req[r].target) /\ UNCHANGED <<acct, media>>
        /\ req[r].pc = "deactivate_orphan"
    BY <1>1, <1>10 DEF DeactivateOrphan, Goto, Request
  <2> QED  BY <2>1 DEF LinkedMedia
<1>9. CASE (\E a \in Accounts : CreateInsert(r, a)) \/ SwapWrite(r) \/ PromoteWrite(r)
           \/ DeactivateWrite(r)
  BY <1>9 DEF CreateInsert, SwapWrite, PromoteWrite, DeactivateWrite
<1> HIDE DEF AsRead, Announcing, UploadPcs, Settling
<1> QED
  BY <1>2, <1>3, <1>4, <1>5, <1>6, <1>7, <1>8, <1>9, <1>10 DEF AccountsNext

\* The requests run one after the other.
OneAtATime == \A q, r \in Requests : q = r

\* A vault as create leaves it before the first upload: an account in use has
\* a Primary among them, and is charged nothing.
NewVault ==
  /\ ActiveAccounts(InitialAccounts) # {} => Primaries(InitialAccounts) # {}
  /\ \A a \in ActiveAccounts(InitialAccounts) : InitialAccounts[a].used = 0

LEMMA SerialInit ==
  ASSUME NewVault, VaultInit
  PROVE  SerialInv
<1>1. TypeOK
  BY InitInv DEF VaultInv, RowsInv
<1>2. HasPrimary
  BY DEF NewVault, VaultInit, HasPrimary, ActivePrimaries, Primaries
<1>3. BooksBalance
  <2>1. \A m \in MediaIds : media[m] = AbsentMedia
    BY DEF VaultInit
  <2>2. \A a : \A m \in MediaIds : HeldBy(media[m], a) = 0
    BY <2>1 DEF HeldBy, AbsentMedia
  <2>3. \A a : HeldOn(media, a) = 0
    BY <2>2, HeldOnNone
  <2>4. Balanced(acct, media)
    BY <2>3, <1>1 DEF Balanced, NewVault, VaultInit, ActiveAccounts, TypeOK
  <2> QED  BY <1>1, <2>4, BooksMean
<1>4. LiveMediaOnActiveAccount
  BY DEF VaultInit, LiveMediaOnActiveAccount
<1>5. ASSUME NEW r \in Requests  PROVE NothingChanged(r)
  <2>1. req[r] = Idle
    BY DEF VaultInit
  <2> QED  BY <2>1, NothingRead, NothingChangedMeans
<1> QED  BY <1>2, <1>3, <1>4, <1>5 DEF SerialInv, VaultSound

LEMMA SerialReadsFresh ==
  ASSUME OneAtATime, RowsInv, SerialInv, [Next]_vaultVars
  PROVE  StepIsFresh
BY DEF SerialInv, NothingChanged, StepIsFresh

LEMMA SerialStep ==
  ASSUME OneAtATime, VaultInv, SerialInv, [Next]_vaultVars
  PROVE  SerialInv'
<1> RowsInv
  BY DEF VaultInv
<1>1. RowsInv' /\ StepIsFresh /\ FreshEffect
  BY NextKeepsInv, SerialReadsFresh, FreshStepEffect DEF VaultInv
<1>2. HasPrimary' /\ BooksBalance' /\ LiveMediaOnActiveAccount'
  <2>1. acct' \in [Accounts -> AccountRow]
    BY <1>1 DEF RowsInv, TypeOK
  <2> QED  BY <1>1, <2>1, PrimaryKept, BooksKept, MediaLiveKept DEF SerialInv, VaultSound
<1>3. ASSUME NEW r \in Requests  PROVE NothingChanged(r)'
  <2>1. AsRead(req[r], acct, media)
    BY NothingChangedMeans DEF SerialInv
  <2>2. ASSUME Finish(r)  PROVE AsRead(req'[r], acct', media')
    <3>1. req'[r] = Idle
      BY <2>2 DEF Finish, RowsInv, TypeOK
    <3> QED  BY <3>1, NothingRead
  <2>3. ASSUME UNCHANGED vaultVars  PROVE AsRead(req'[r], acct', media')
    BY <2>1, <2>3 DEF vaultVars
  <2>4. ASSUME NEW q \in Requests, MediaNext(q) \/ AccountsNext(q) \/ Fail(q)
        PROVE  AsRead(req'[r], acct', media')
    <3>1. q = r
      BY DEF OneAtATime
    <3>2. ASSUME MediaNext(r) \/ AccountsNext(r)  PROVE AsRead(req'[r], acct', media')
      <4>1. Finish(r) \/ (UNCHANGED <<acct, media>> /\ AsRead(req'[r], acct, media))
        BY <2>1, <3>2, MediaReads, AccountReads
      <4> QED  BY <2>2, <4>1
    <3>3. CASE Fail(r)
      BY <2>2, <3>3 DEF Fail
    <3> QED  BY <2>4, <3>1, <3>2, <3>3
  <2>5. AsRead(req'[r], acct', media')
    BY <2>3, <2>4 DEF Next
  <2> QED  BY <2>5, NothingChangedMeansNext
<1>4. \A r \in Requests : NothingChanged(r)'
  BY <1>3
<1> QED  BY <1>2, <1>4 DEF SerialInv, VaultSound

LEMMA SerialInvariant ==
  ASSUME OneAtATime, NewVault
  PROVE  Spec => []SerialInv
<1>1. VaultInit => SerialInv
  BY SerialInit
<1>2. VaultInv /\ SerialInv /\ [Next]_vaultVars => SerialInv'
  BY SerialStep
<1> QED  BY <1>1, <1>2, VaultInvariant, PTL DEF Spec

\* When requests do not overlap, a vault that starts new has a Primary, its
\* books balance and its live items are on active accounts, for any number of
\* accounts, media and parts: no sequence of uploads, aborts, deletions and
\* account changes, each failing at any await, leaves it otherwise.
THEOREM SerialVaultIsSound ==
  ASSUME OneAtATime, NewVault
  PROVE  Spec => []VaultSound
<1>1. SerialInv => VaultSound
  BY DEF SerialInv
<1> QED  BY <1>1, SerialInvariant, PTL

-----------------------------------------------------------------------------
(***************************************************************************)
(* The vault implements the ledger when requests do not overlap: the two   *)
(* variables of the ledger as functions of the two tables, and the ledger  *)
(* action of every effect.                                                 *)
(***************************************************************************)
LedgerUsed(rows) == [a \in Accounts |-> IF rows[a].active THEN rows[a].used ELSE 0]

RowHeld(row) ==
  IF row.status \in {"uploading", "ready"} /\ ~row.orphaned
    THEN [account |-> row.account, bytes |-> row.size]
    ELSE [account |-> None, bytes |-> 0]

LedgerHeld(items) == [m \in MediaIds |-> RowHeld(items[m])]

\* No account may hold more than an account is created with.
LimitsWithinDefault == \A a \in Accounts : acct[a].limit <= DefaultLimit

LedgerInv == VaultInv /\ SerialInv /\ LimitsWithinDefault

LEMMA LedgerStutters ==
  ASSUME LedgerUsed(acct') = LedgerUsed(acct), LedgerHeld(media') = LedgerHeld(media)
  PROVE  UNCHANGED Ledger!ledgerVars
BY DEF Ledger!ledgerVars, LedgerUsed, LedgerHeld, RowHeld, Holding

LEMMA LedgerCharges ==
  ASSUME NEW m \in MediaIds, NEW a \in Accounts, NEW bytes \in 1..DefaultLimit,
         LedgerHeld(media)[m] = [account |-> None, bytes |-> 0],
         LedgerUsed(acct)[a] + bytes <= DefaultLimit,
         LedgerUsed(acct') = [LedgerUsed(acct) EXCEPT ![a] = LedgerUsed(acct)[a] + bytes],
         LedgerHeld(media') = [LedgerHeld(media) EXCEPT ![m] = [account |-> a, bytes |-> bytes]]
  PROVE  Ledger!LedgerNext
<1>1. bytes > 0
  BY VaultConstants
<1>2. Ledger!Charge(m, a, bytes)
  BY <1>1 DEF Ledger!Charge, Ledger!NotHeld, LedgerUsed, LedgerHeld, RowHeld, Holding
<1> QED  BY <1>2 DEF Ledger!LedgerNext

LEMMA LedgerShrinks ==
  ASSUME NEW m \in MediaIds, NEW bytes \in 1..DefaultLimit, NEW a, NEW size,
         LedgerHeld(media)[m] = [account |-> a, bytes |-> size], bytes < size,
         LedgerUsed(acct') = [LedgerUsed(acct) EXCEPT ![a] = LedgerUsed(acct)[a] - (size - bytes)],
         LedgerHeld(media') = [LedgerHeld(media) EXCEPT ![m] = [account |-> a, bytes |-> bytes]]
  PROVE  Ledger!LedgerNext
<1> DEFINE used == LedgerUsed(acct)
           held == LedgerHeld(media)
<1>1. bytes > 0 /\ held[m].bytes = size /\ held[m].account = a
  BY VaultConstants
<1>2. /\ LedgerUsed(acct') = [used EXCEPT ![held[m].account] = @ - (held[m].bytes - bytes)]
      /\ LedgerHeld(media') = [held EXCEPT ![m].bytes = bytes]
  BY <1>1
<1>3. Ledger!Shrink(m, bytes)
  BY <1>1, <1>2 DEF Ledger!Shrink, LedgerUsed, LedgerHeld, RowHeld, Holding
<1> QED  BY <1>3 DEF Ledger!LedgerNext

LEMMA LedgerReleases ==
  ASSUME NEW m \in MediaIds, NEW a \in Accounts, NEW size,
         LedgerHeld(media)[m] = [account |-> a, bytes |-> size],
         LedgerUsed(acct') = [LedgerUsed(acct) EXCEPT ![a] = LedgerUsed(acct)[a] - size],
         LedgerHeld(media') = [LedgerHeld(media) EXCEPT ![m] = [account |-> None, bytes |-> 0]]
  PROVE  Ledger!LedgerNext
<1> DEFINE used == LedgerUsed(acct)
           held == LedgerHeld(media)
<1>1. /\ held[m] # [account |-> None, bytes |-> 0]
      /\ held[m].bytes = size /\ held[m].account = a
  BY VaultConstants
<1>2. LedgerUsed(acct') = [used EXCEPT ![held[m].account] = @ - held[m].bytes]
  BY <1>1
<1>3. Ledger!Release(m)
  BY <1>1, <1>2 DEF Ledger!Release, Ledger!NotHeld, LedgerUsed, LedgerHeld, RowHeld, Holding
<1> QED  BY <1>3 DEF Ledger!LedgerNext

LEMMA LedgerWritesOff ==
  ASSUME NEW a \in Accounts,
         LedgerUsed(acct') = [LedgerUsed(acct) EXCEPT ![a] = 0],
         LedgerHeld(media') = [m \in MediaIds |->
            IF LedgerHeld(media)[m].account = a THEN [account |-> None, bytes |-> 0]
                                                ELSE LedgerHeld(media)[m]]
  PROVE  Ledger!LedgerNext
<1>1. Ledger!WriteOff(a)
  BY DEF Ledger!WriteOff, Ledger!NotHeld, LedgerUsed, LedgerHeld, RowHeld, Holding
<1> QED  BY <1>1 DEF Ledger!LedgerNext

LEMMA ReservationCharges ==
  ASSUME LedgerInv, RowsInv', NEW a \in Accounts, NEW m \in MediaIds, NEW e \in MediaRow,
         Reserves(a, m, e)
  PROVE  Ledger!LedgerNext
<1>1. /\ acct \in [Accounts -> AccountRow] /\ acct' \in [Accounts -> AccountRow]
      /\ media \in [MediaIds -> MediaRow]
  BY DEF LedgerInv, VaultInv, RowsInv, TypeOK
<1>2. /\ acct[a].active /\ acct[a].used \in Nat /\ acct[a].limit \in Nat /\ e.size \in Nat
      /\ acct[a].limit <= DefaultLimit /\ e.size > 0
      /\ acct[a].used + e.size <= acct[a].limit
      /\ acct'[a].used = acct[a].used + e.size
      /\ acct'[a].active
      /\ \A b \in Accounts \ {a} : acct'[b] = acct[b]
  BY <1>1 DEF Reserves, OnlyUsage, SameStanding, AccountRow, MediaRow, LedgerInv, VaultInv,
              LimitsWithinDefault
<1>3. e.size \in 1..DefaultLimit /\ acct[a].used + e.size <= DefaultLimit
  BY <1>2, VaultConstants
<1>4. LedgerUsed(acct)[a] = acct[a].used
  BY <1>2 DEF LedgerUsed
<1>5. LedgerUsed(acct') = [LedgerUsed(acct) EXCEPT ![a] = LedgerUsed(acct)[a] + e.size]
  BY <1>2, <1>4 DEF LedgerUsed
<1>6. LedgerHeld(media)[m] = [account |-> None, bytes |-> 0]
  BY DEF Reserves, LedgerHeld, RowHeld, AbsentMedia
<1>7. RowHeld(media'[m]) = [account |-> a, bytes |-> e.size]
  <2>1. media'[m] = [e EXCEPT !.account = a]
    BY <1>1 DEF Reserves
  <2>2. /\ media'[m].status = "uploading" /\ ~media'[m].orphaned
        /\ media'[m].account = a /\ media'[m].size = e.size
    BY <2>1 DEF Reserves, MediaRow
  <2> QED  BY <2>2 DEF RowHeld
<1>8. LedgerHeld(media') = [LedgerHeld(media) EXCEPT ![m] = [account |-> a, bytes |-> e.size]]
  <2>1. \A n \in MediaIds \ {m} : media'[n] = media[n]
    BY <1>1 DEF Reserves
  <2> QED  BY <1>7, <2>1 DEF LedgerHeld
<1> QED  BY <1>3, <1>4, <1>5, <1>6, <1>8, LedgerCharges

\* Which of its actions the ledger takes when a transaction settles an item.
LEMMA SettlementInLedger ==
  ASSUME LedgerInv, RowsInv', NEW r \in Requests, NEW row \in MediaRow, SettlesTo(r, row)
  PROVE  Ledger!LedgerNext \/ UNCHANGED Ledger!ledgerVars
<1> DEFINE m     == req[r].m
           e     == media[m]
           a     == e.account
           delta == req[r].delta
<1>1. /\ acct \in [Accounts -> AccountRow] /\ acct' \in [Accounts -> AccountRow]
      /\ media \in [MediaIds -> MediaRow] /\ RowsInv
      /\ BooksBalance /\ LiveMediaOnActiveAccount
  BY DEF LedgerInv, VaultInv, SerialInv, VaultSound, RowsInv, TypeOK
<1>2. /\ m \in MediaIds /\ e \in MediaRow /\ a \in Accounts /\ delta \in Nat
      /\ req[r].entity = e /\ e # AbsentMedia /\ e.size \in Nat
      /\ req[r].pc \in Settling /\ LocalsOK(req[r])
  BY <1>1, CommitLocals, VaultConstants
  DEF SettlesTo, MediaAsRead, Request, AbsentMedia, MediaRow
<1>3. media'[m] = row /\ \A n \in MediaIds \ {m} : media'[n] = media[n]
  BY <1>1, <1>2 DEF SettlesTo
<1>4. /\ OnlyUsage(acct', a)
      /\ delta <= acct[a].used => acct'[a].used = acct[a].used - delta
  BY <1>1, <1>2, SettledEffect DEF SettlesTo
<1>5. /\ acct'[a].active = acct[a].active /\ \A b \in Accounts \ {a} : acct'[b] = acct[b]
  BY <1>2, <1>4 DEF OnlyUsage, SameStanding
<1>6. LedgerHeld(media') = [LedgerHeld(media) EXCEPT ![m] = RowHeld(row)]
  BY <1>2, <1>3 DEF LedgerHeld
<1>7. LedgerHeld(media)[m] = RowHeld(e)
  BY <1>2 DEF LedgerHeld
<1>8. CASE e.orphaned
  <2>1. ~acct[a].active
    BY <1>1, <1>2, <1>8 DEF LiveMediaOnActiveAccount
  <2>2. LedgerUsed(acct') = LedgerUsed(acct)
    BY <1>5, <2>1 DEF LedgerUsed
  <2>3. row.orphaned \/ row.status = "absent"
    <3>1. CASE req[r].pc = "complete_commit"
      <4>1. PICK size : row = [e EXCEPT !.status = "ready", !.size = size]
        BY <3>1 DEF SettlesTo
      <4> QED  BY <1>2, <1>8, <4>1 DEF MediaRow
    <3>2. CASE req[r].pc = "abort_commit"
      <4>1. row = [e EXCEPT !.status = "failed"]
        BY <3>2 DEF SettlesTo
      <4> QED  BY <1>2, <1>8, <4>1 DEF MediaRow
    <3>3. CASE req[r].pc = "remove_commit"
      BY <3>3 DEF SettlesTo, AbsentMedia
    <3> QED  BY <1>2, <3>1, <3>2, <3>3 DEF Settling
  <2>4. RowHeld(row) = RowHeld(e)
    BY <1>8, <2>3 DEF RowHeld
  <2>5. LedgerHeld(media') = LedgerHeld(media)
    BY <1>6, <1>7, <2>4 DEF LedgerHeld
  <2> QED  BY <2>2, <2>5, LedgerStutters
<1>9. CASE ~e.orphaned
  <2>1. acct[a].active
    BY <1>1, <1>2, <1>9 DEF LiveMediaOnActiveAccount
  <2>2. /\ HeldBy(row, a) + delta = HeldBy(e, a)
        /\ HeldBy(row, a) \in Nat /\ HeldBy(e, a) \in Nat
    BY <1>1, <1>2, <1>9, SettledShare, HeldByRange
  <2>3. HeldBy(e, a) <= acct[a].used /\ acct[a].used \in Nat
    <3>1. Balanced(acct, media)
      BY <1>1, BooksMean DEF RowsInv
    <3>2. acct[a].used = HeldOn(media, a)
      BY <1>2, <2>1, <3>1 DEF Balanced
    <3>3. HeldBy(e, a) <= HeldOn(media, a) /\ HeldOn(media, a) \in Nat
      BY <1>1, <1>2, HeldOnChange
    <3> QED  BY <3>2, <3>3
  <2>4. acct'[a].used = acct[a].used - delta /\ delta <= acct[a].used
    BY <1>2, <1>4, <2>2, <2>3
  <2>5. LedgerUsed(acct') = [LedgerUsed(acct) EXCEPT ![a] = LedgerUsed(acct)[a] - delta]
    BY <1>2, <1>5, <2>1, <2>4 DEF LedgerUsed
  <2>6. ASSUME delta = 0, RowHeld(row) = RowHeld(e)
        PROVE  UNCHANGED Ledger!ledgerVars
    <3>1. acct' = acct
      BY <2>6 DEF SettlesTo, Settled
    <3>2. LedgerHeld(media') = LedgerHeld(media)
      BY <1>6, <1>7, <2>6 DEF LedgerHeld
    <3> QED  BY <3>1, <3>2, LedgerStutters
  <2>7. CASE req[r].pc = "complete_commit"
    <3>1. e.status = "uploading" /\ delta < e.size
      BY <1>2, <2>7 DEF LocalsOK, Completing
    <3>2. PICK size \in Nat : size = e.size - delta
      BY <1>2, <3>1
    <3>3. row = [e EXCEPT !.status = "ready", !.size = size]
      BY <2>7, <3>2 DEF SettlesTo
    <3>4. RowHeld(row) = [account |-> a, bytes |-> size]
      BY <1>2, <1>9, <3>3 DEF RowHeld, MediaRow
    <3>5. RowHeld(e) = [account |-> a, bytes |-> e.size] /\ HeldBy(e, a) = e.size
      BY <1>9, <3>1 DEF RowHeld, HeldBy
    <3>6. CASE delta = 0
      <4>1. size = e.size
        BY <1>2, <3>2, <3>6
      <4> QED  BY <2>6, <3>4, <3>5, <3>6, <4>1
    <3>7. CASE delta # 0
      <4>1. acct[a].limit <= DefaultLimit /\ acct[a].used <= acct[a].limit /\ acct[a].limit \in Nat
        BY <1>1, <1>2 DEF LedgerInv, VaultInv, LimitsWithinDefault, RowsInv, UsedWithinLimit, AccountRow
      <4>2. size \in 1..DefaultLimit /\ size < e.size /\ delta = e.size - size
        BY <1>2, <2>3, <3>1, <3>2, <3>5, <3>7, <4>1, VaultConstants
      <4>3. LedgerUsed(acct') =
              [LedgerUsed(acct) EXCEPT ![a] = LedgerUsed(acct)[a] - (e.size - size)]
        BY <2>5, <4>2
      <4>4. /\ LedgerHeld(media)[m] = [account |-> a, bytes |-> e.size]
            /\ LedgerHeld(media') = [LedgerHeld(media) EXCEPT ![m] = [account |-> a, bytes |-> size]]
            /\ m \in MediaIds /\ size \in 1..DefaultLimit /\ size < e.size
        BY <1>2, <1>6, <1>7, <3>4, <3>5, <4>2
      <4> DEFINE big == e.size
      <4>5. /\ LedgerHeld(media)[m] = [account |-> a, bytes |-> big]
            /\ LedgerUsed(acct') = [LedgerUsed(acct) EXCEPT ![a] = LedgerUsed(acct)[a] - (big - size)]
            /\ size < big
        BY <4>3, <4>4
      <4> HIDE DEF m, a, big
      <4> QED  BY ONLY <4>4, <4>5, LedgerShrinks
    <3> QED  BY <3>6, <3>7
  <2>8. ASSUME e.status \in {"uploading", "ready"}, delta = e.size,
               row.status \notin {"uploading", "ready"}
        PROVE  Ledger!LedgerNext
    <3>1. RowHeld(e) = [account |-> a, bytes |-> e.size]
      BY <1>9, <2>8 DEF RowHeld
    <3>2. RowHeld(row) = [account |-> None, bytes |-> 0]
      BY <2>8 DEF RowHeld
    <3>3. /\ LedgerUsed(acct') = [LedgerUsed(acct) EXCEPT ![a] = LedgerUsed(acct)[a] - e.size]
          /\ LedgerHeld(media)[m] = [account |-> a, bytes |-> e.size]
          /\ LedgerHeld(media') = [LedgerHeld(media) EXCEPT ![m] = [account |-> None, bytes |-> 0]]
          /\ m \in MediaIds /\ a \in Accounts
      BY <1>2, <1>6, <1>7, <2>5, <2>8, <3>1, <3>2
    <3> QED  BY ONLY <3>3, LedgerReleases
  <2>9. CASE req[r].pc = "abort_commit"
    <3>1. e.status = "uploading" /\ delta = e.size
      BY <1>2, <2>9 DEF LocalsOK, Aborting
    <3>2. row = [e EXCEPT !.status = "failed"]
      BY <2>9 DEF SettlesTo
    <3>3. row.status = "failed"
      BY <1>2, <3>2 DEF MediaRow
    <3> QED  BY <2>8, <3>1, <3>3
  <2>10. CASE req[r].pc = "remove_commit"
    <3>1. delta = IF e.status # "failed" THEN e.size ELSE 0
      BY <1>2, <1>9, <2>10 DEF LocalsOK, Removing, Releasable
    <3>2. row.status = "absent" /\ e.status \in {"uploading", "ready", "failed"}
      BY <1>1, <1>2, <2>10 DEF SettlesTo, AbsentMedia, RowsInv, MediaHasAccount, MediaRow
    <3>3. CASE e.status = "failed"
      <4>1. RowHeld(row) = RowHeld(e)
        BY <3>2, <3>3 DEF RowHeld
      <4> QED  BY <2>6, <3>1, <3>3, <4>1
    <3>4. CASE e.status # "failed"
      BY <2>8, <3>1, <3>2, <3>4
    <3> QED  BY <3>3, <3>4
  <2> QED  BY <1>2, <2>7, <2>9, <2>10 DEF Settling
<1> QED  BY <1>8, <1>9

LEMMA DeactivationWritesOff ==
  ASSUME LedgerInv, RowsInv', NEW a \in Accounts, Deactivates(a)
  PROVE  Ledger!LedgerNext
<1>1. /\ acct \in [Accounts -> AccountRow] /\ acct' \in [Accounts -> AccountRow]
      /\ media \in [MediaIds -> MediaRow]
  BY DEF LedgerInv, VaultInv, RowsInv, TypeOK
<1>2. LedgerUsed(acct') = [LedgerUsed(acct) EXCEPT ![a] = 0]
  BY <1>1 DEF Deactivates, LedgerUsed
<1>3. ASSUME NEW m \in MediaIds
      PROVE  RowHeld(media'[m]) = IF RowHeld(media[m]).account = a
                                    THEN [account |-> None, bytes |-> 0]
                                    ELSE RowHeld(media[m])
  <2>1. a # None
    BY VaultConstants
  <2>2. CASE media[m].account = a
    <3>1. media'[m] = [media[m] EXCEPT !.orphaned = TRUE]
      BY <2>2 DEF Deactivates
    <3>2. media'[m].orphaned
      BY <1>1, <3>1 DEF MediaRow
    <3>3. RowHeld(media'[m]) = [account |-> None, bytes |-> 0]
      BY <3>2 DEF RowHeld
    <3>4. RowHeld(media[m]).account = a \/ RowHeld(media[m]) = [account |-> None, bytes |-> 0]
      BY <2>2 DEF RowHeld
    <3> QED  BY <3>3, <3>4
  <2>3. CASE media[m].account # a
    <3>1. media'[m] = media[m]
      BY <2>3 DEF Deactivates
    <3>2. RowHeld(media[m]).account # a
      BY <2>1, <2>3 DEF RowHeld
    <3> QED  BY <3>1, <3>2
  <2> QED  BY <2>2, <2>3
<1>4. LedgerHeld(media') = [m \in MediaIds |->
         IF LedgerHeld(media)[m].account = a THEN [account |-> None, bytes |-> 0]
                                             ELSE LedgerHeld(media)[m]]
  BY <1>3 DEF LedgerHeld
<1> QED  BY <1>2, <1>4, LedgerWritesOff

\* An account that is added is charged nothing; the others keep their usage.
LEMMA AddedAccountOwesNothing ==
  ASSUME LedgerInv, NEW r \in Requests, NEW a \in Accounts, AddsAccount(r, a)
  PROVE  UNCHANGED Ledger!ledgerVars
<1>1. /\ acct'[a].used = 0 /\ ~acct[a].active /\ media' = media
      /\ \A b \in Accounts \ {a} : acct'[b] = acct[b]
  BY DEF AddsAccount, NewAccount, AbsentAccount, LedgerInv, VaultInv, RowsInv, TypeOK
<1>2. LedgerUsed(acct') = LedgerUsed(acct)
  BY <1>1 DEF LedgerUsed
<1> QED  BY <1>1, <1>2, LedgerStutters

LEMMA LedgerStep ==
  ASSUME OneAtATime, LedgerInv, [Next]_vaultVars
  PROVE  Ledger!LedgerNext \/ UNCHANGED Ledger!ledgerVars
<1>1. RowsInv' /\ FreshEffect
  BY NextKeepsInv, SerialReadsFresh, FreshStepEffect DEF LedgerInv, VaultInv
<1>2. ASSUME \A b \in Accounts : acct'[b].active = acct[b].active /\ acct'[b].used = acct[b].used,
             media' = media
      PROVE  UNCHANGED Ledger!ledgerVars
  <2>1. LedgerUsed(acct') = LedgerUsed(acct)
    BY <1>2 DEF LedgerUsed
  <2> QED  BY <1>2, <2>1, LedgerStutters
<1>3. CASE UNCHANGED <<acct, media>>
  BY <1>2, <1>3
<1>4. CASE Reorders
  BY <1>2, <1>4 DEF Reorders, SameStanding
<1>5. ASSUME NEW x \in Accounts, Promotes(x)  PROVE UNCHANGED Ledger!ledgerVars
  BY <1>2, <1>5 DEF Promotes
<1> QED
  BY <1>1, <1>3, <1>4, <1>5, ReservationCharges, SettlementInLedger, AddedAccountOwesNothing,
     DeactivationWritesOff
  DEF FreshEffect

LEMMA LimitsStayWithinDefault ==
  ASSUME OneAtATime, LedgerInv, [Next]_vaultVars
  PROVE  LimitsWithinDefault'
<1>1. RowsInv /\ RowsInv' /\ FreshEffect /\ \A b \in Accounts : acct[b].limit <= DefaultLimit
  BY NextKeepsInv, SerialReadsFresh, FreshStepEffect DEF LedgerInv, VaultInv, LimitsWithinDefault
<1>2. SUFFICES ASSUME NEW b \in Accounts  PROVE acct'[b].limit <= DefaultLimit
  BY DEF LimitsWithinDefault
<1>3. ASSUME SameStanding(acct')  PROVE acct'[b].limit <= DefaultLimit
  BY <1>1, <1>3 DEF SameStanding
<1>4. ASSUME NEW a \in Accounts, NEW m \in MediaIds, NEW e \in MediaRow, Reserves(a, m, e)
      PROVE  acct'[b].limit <= DefaultLimit
  BY <1>3, <1>4 DEF Reserves, OnlyUsage
<1>5. ASSUME NEW r \in Requests, NEW row \in MediaRow, SettlesTo(r, row)
      PROVE  acct'[b].limit <= DefaultLimit
  BY <1>1, <1>3, <1>5, SettledEffect DEF SettlesTo, OnlyUsage
<1>6. ASSUME NEW r \in Requests, NEW a \in Accounts, AddsAccount(r, a)
      PROVE  acct'[b].limit <= DefaultLimit
  <2>1. acct'[b] = IF b = a THEN NewAccount(req[r].slot) ELSE acct[b]
    BY <1>1, <1>6 DEF AddsAccount, RowsInv, TypeOK
  <2>2. NewAccount(req[r].slot).limit = DefaultLimit
    BY DEF NewAccount
  <2> QED  BY <1>1, <2>1, <2>2, VaultConstants
<1>7. CASE Reorders
  BY <1>3, <1>7 DEF Reorders
<1>8. ASSUME NEW x \in Accounts, Promotes(x)  PROVE acct'[b].limit <= DefaultLimit
  BY <1>1, <1>8 DEF Promotes
<1>9. ASSUME NEW a \in Accounts, Deactivates(a)  PROVE acct'[b].limit <= DefaultLimit
  BY <1>1, <1>9 DEF Deactivates
<1>10. CASE UNCHANGED <<acct, media>>
  BY <1>1, <1>10
<1> QED  BY <1>1, <1>4, <1>5, <1>6, <1>7, <1>8, <1>9, <1>10 DEF FreshEffect

\* Nobody has raised the limit of an account of the vault.
DefaultLimits == \A a \in Accounts : InitialAccounts[a].limit <= DefaultLimit

LEMMA LedgerStart ==
  ASSUME NewVault, DefaultLimits, VaultInit
  PROVE  LedgerInv /\ Ledger!LedgerInit
<1>1. LedgerInv
  BY InitInv, SerialInit DEF LedgerInv, VaultInv, LimitsWithinDefault, DefaultLimits, VaultInit
<1>2. \A a \in Accounts : (IF acct[a].active THEN acct[a].used ELSE 0) = 0
  BY VaultConstants DEF VaultInit, NewVault, ActiveAccounts
<1>3. \A m \in MediaIds : ~Holding(m)
  BY DEF VaultInit, Holding, AbsentMedia
<1>4. Ledger!LedgerInit
  BY <1>2, <1>3 DEF Ledger!LedgerInit, Ledger!NotHeld
<1> QED  BY <1>1, <1>4

\* When requests do not overlap, the uploads, aborts, deletions and account
\* changes of a vault that starts new keep the ledger: every step charges a
\* file once and only while it fits, shrinks it, releases it once, writes an
\* account off, or leaves the ledger alone.
THEOREM VaultKeepsLedger ==
  ASSUME OneAtATime, NewVault, DefaultLimits
  PROVE  Spec => KeepsLedger
<1>1. VaultInit => LedgerInv /\ Ledger!LedgerInit
  BY LedgerStart
<1>2. LedgerInv /\ [Next]_vaultVars => LedgerInv'
  BY NextKeepsInv, SerialStep, LimitsStayWithinDefault DEF LedgerInv, VaultInv
<1>3. LedgerInv /\ [Next]_vaultVars => [Ledger!LedgerNext]_(Ledger!ledgerVars)
  BY LedgerStep
<1> QED  BY <1>1, <1>2, <1>3, PTL DEF Spec, KeepsLedger, Ledger!LedgerSpec
-----------------------------------------------------------------------------
(***************************************************************************)
(* What reads the table of accounts.                                       *)
(***************************************************************************)
LEMMA TablesAreSorted ==
  ASSUME RowsInv, NEW rows \in Tables
  PROVE  IsTable(rows) /\ RanksDiffer(rows) /\ None \notin DOMAIN rows
<1>1. acct \in [Accounts -> AccountRow] /\ DatabaseAccepts(acct) /\ DefaultLimit + 1 \in Nat
  BY VaultConstants DEF RowsInv, TypeOK
<1>2. /\ DOMAIN rows = Accounts
      /\ \A b \in Accounts : /\ rows[b].active = acct[b].active
                             /\ rows[b].role = acct[b].role /\ rows[b].slot = acct[b].slot
                             /\ rows[b].used \in Nat /\ rows[b].limit \in Nat
  <2>1. CASE rows = acct
    BY <1>1, <2>1 DEF AccountRow
  <2>2. ASSUME NEW a \in Accounts, rows = Overdrawn(a)
        PROVE  /\ DOMAIN rows = Accounts
               /\ \A b \in Accounts :
                    /\ rows[b].active = acct[b].active
                    /\ rows[b].role = acct[b].role /\ rows[b].slot = acct[b].slot
                    /\ rows[b].used \in Nat /\ rows[b].limit \in Nat
    BY <1>1, <2>2 DEF AccountRow, Overdrawn
  <2>3. ActiveAccounts(acct) \subseteq Accounts
    BY <1>1 DEF ActiveAccounts
  <2> QED  BY <2>1, <2>2, <2>3 DEF Tables
<1>3. ActiveAccounts(rows) = ActiveAccounts(acct)
  BY <1>1, <1>2 DEF ActiveAccounts
<1>4. \A b \in Accounts : FillRank(rows[b]) = FillRank(acct[b]) /\ rows[b].slot \in 0..2
  BY <1>1, <1>2 DEF FillRank, AccountRow
<1>5. \A a, b \in ActiveAccounts(rows) : FillRank(rows[a]) = FillRank(rows[b]) => a = b
  BY <1>1, <1>3, <1>4 DEF DatabaseAccepts, UniqueIndexes, ActiveAccounts
<1>6. \A b \in Accounts : rows[b].role = Primary => rows[b].slot = NullSlot
  BY <1>1, <1>2 DEF DatabaseAccepts, RoleSlotCheck, AbsentAccount, Primary, Secondary
<1>7. RanksDiffer(rows)
  BY <1>2, <1>5, <1>6 DEF RanksDiffer, ActiveAccounts
<1>8. IsFiniteSet(ActiveAccounts(rows))
  BY <1>2, <1>4, <1>7, RanksBound
<1> QED  BY <1>2, <1>4, <1>7, <1>8, VaultConstants DEF IsTable

\* Whatever the requests have made of the accounts, and with one of them above
\* its limit: the loops of selectAccountForUpload answer as the definitions
\* say, a file is refused exactly when it exceeds the largest free slot the
\* answer reports, and VAULT_FULL never hits a file that the vault page has
\* room for.
THEOREM ReadersOfTheVault == Spec => []ReadersAgree
<1>1. ASSUME VaultInv  PROVE ReadersAgree
  <2> SUFFICES ASSUME NEW rows \in Tables
               PROVE  LET ordered == OrderAccounts(rows)
                          hints   == Hints(rows, ordered)
                      IN  /\ hints.vaultFree = VaultFreeBytes(rows)
                          /\ hints.largestFree = LargestFreeSlot(rows)
                          /\ \A size \in FileSizes :
                               LET answer == SelectInLoop(rows, ordered, hints, size)
                               IN  /\ answer.account = SelectAccount(rows, size)
                                   /\ answer.account = None => answer.reason = RejectReason(rows, size)
                                   /\ answer.account = None <=> size > hints.largestFree
                                   /\ answer.reason = "VAULT_FULL" => size > VaultPageFree(rows)
    BY DEF ReadersAgree
  <2> RowsInv
    BY <1>1 DEF VaultInv
  <2>1. IsTable(rows) /\ RanksDiffer(rows) /\ None \notin DOMAIN rows
    BY <1>1, TablesAreSorted
  <2> DEFINE ordered == OrderAccounts(rows)
             hints   == Hints(rows, ordered)
             answer(size) == SelectInLoop(rows, ordered, hints, size)
  <2>2. hints.vaultFree = VaultFreeBytes(rows) /\ hints.largestFree = LargestFreeSlot(rows)
    BY <2>1, HintsHold
  <2>3. ASSUME NEW size \in FileSizes
        PROVE  /\ answer(size).account = SelectAccount(rows, size)
               /\ answer(size).account = None => answer(size).reason = RejectReason(rows, size)
               /\ answer(size).account = None <=> size > hints.largestFree
               /\ answer(size).reason = "VAULT_FULL" => size > VaultPageFree(rows)
    <3>1. size \in Nat \ {0}
      BY VaultConstants DEF FileSizes
    <3>2. /\ answer(size).account = SelectAccount(rows, size)
          /\ answer(size).account = None => answer(size).reason = RejectReason(rows, size)
      BY <2>1, <3>1, LoopsSelectAsDefined
    <3>3. SelectAccount(rows, size) = None <=> size > LargestFreeSlot(rows)
      BY <2>1, <3>1, RefusedAboveLargestSlot
    <3>4. answer(size).reason = "VAULT_FULL" => answer(size).account = None
      BY DEF SelectInLoop
    <3>5. SelectAccount(rows, size) = None /\ RejectReason(rows, size) = "VAULT_FULL"
            => size > VaultPageFree(rows)
      BY <2>1, <3>1, VaultFullOnlyBeyondPage
    <3> HIDE DEF answer, hints
    <3> QED  BY <2>2, <3>2, <3>3, <3>4, <3>5
  <2> HIDE DEF ordered, hints, answer
  <2> QED  BY <2>2, <2>3 DEF answer, hints, ordered
<1> QED  BY <1>1, VaultInvariant, PTL
=============================================================================
