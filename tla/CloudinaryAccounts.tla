------------------------- MODULE CloudinaryAccounts -------------------------
(***************************************************************************)
(* CloudinaryAccountsService: adding an account, swapping the secondaries, *)
(* promoting a secondary and deactivating an account.  findAllForUser and  *)
(* verifyAccount change nothing.                                           *)
(***************************************************************************)
EXTENDS VaultState, Sequences

ActivePrimaries   == {a \in ActiveAccounts(acct) : acct[a].role = Primary}
ActiveSecondaries == {a \in ActiveAccounts(acct) : acct[a].role = Secondary}
InSlot(s)         == {a \in ActiveSecondaries : acct[a].slot = s}

\* The first row a findOne over S returns, or None.
FindOne(S) == IF S = {} THEN None ELSE CHOOSE a \in S : TRUE

(***************************************************************************)
(* create: two reads decide the role and the slot, then the insert.        *)
(***************************************************************************)
NewAccount(slot) ==
  [active |-> TRUE, role |-> IF slot = NullSlot THEN Primary ELSE Secondary,
   slot |-> slot, used |-> 0, limit |-> DefaultLimit]

\* Bound: Accounts holds the ids of all the accounts ever added.
IdLeft == \E a \in Accounts : acct[a] = AbsentAccount

CreateReadPrimary(r) ==
  /\ IdLeft
  /\ Start(r, [Idle EXCEPT !.pc = IF ActivePrimaries = {} THEN "create_insert"
                                                         ELSE "create_slots"])
  /\ UNCHANGED <<acct, media, parts>>

CreateReadSlots(r) ==
  /\ req[r].pc = "create_slots"
  /\ LET free == {s \in {1, 2} : InSlot(s) = {}}
     IN  IF free = {}
           THEN Finish(r)
           ELSE Goto(r, [req[r] EXCEPT !.pc = "create_insert", !.slot = Min(free)])
  /\ UNCHANGED <<acct, media, parts>>

\* `a` is the id the database generates.
CreateInsert(r, a) ==
  /\ req[r].pc = "create_insert"
  /\ acct[a] = AbsentAccount
  /\ LET rows == [acct EXCEPT ![a] = NewAccount(req[r].slot)]
     IN  acct' = IF DatabaseAccepts(rows) THEN rows ELSE acct
  /\ Finish(r)
  /\ UNCHANGED <<media, parts>>

(***************************************************************************)
(* swapSecondaryOrder: one UPDATE of both rows.  Postgres checks a unique  *)
(* index that is not a deferrable constraint row by row, in an order it    *)
(* chooses, so both the first row's change and the two together must pass. *)
(***************************************************************************)
SwapRead(r) ==
  /\ InSlot(1) # {} /\ InSlot(2) # {}
  /\ Start(r, [Idle EXCEPT !.pc = "swap_write", !.target = FindOne(InSlot(1)),
                 !.other = FindOne(InSlot(2))])
  /\ UNCHANGED <<acct, media, parts>>

Swapped(first, s1, second, s2) ==
  LET rows1 == [acct EXCEPT ![first].slot = s1]
      rows2 == [rows1 EXCEPT ![second].slot = s2]
  IN  IF DatabaseAccepts(rows1) /\ DatabaseAccepts(rows2) THEN rows2 ELSE acct

SwapWrite(r) ==
  /\ req[r].pc = "swap_write"
  /\ acct' \in {Swapped(req[r].target, 2, req[r].other, 1),
                Swapped(req[r].other, 1, req[r].target, 2)}
  /\ Finish(r)
  /\ UNCHANGED <<media, parts>>

(***************************************************************************)
(* promote: two reads without a lock, then three updates by id in the same *)
(* transaction (one, when there is no active primary).  The target is      *)
(* hidden from the unique indexes while the old primary takes its slot.    *)
(***************************************************************************)
PromoteRead(r, a) ==
  /\ acct[a].active /\ acct[a].role # Primary
  /\ Start(r, [Idle EXCEPT !.pc = "promote_primary", !.target = a,
                 !.slot = acct[a].slot])
  /\ UNCHANGED <<acct, media, parts>>

PromoteReadPrimary(r) ==
  /\ req[r].pc = "promote_primary"
  /\ Goto(r, [req[r] EXCEPT !.pc = "promote_write", !.other = FindOne(ActivePrimaries)])
  /\ UNCHANGED <<acct, media, parts>>

\* Mutants of PromoteStatements: the target stays in the unique indexes; the
\* target is not activated again.
PromoteInPlace(target, old, slot) ==
  LET demoted  == [acct EXCEPT ![old].role = Secondary, ![old].slot = slot]
      promoted == [demoted EXCEPT ![target].role = Primary, ![target].slot = NullSlot]
  IN  IF old = None
        THEN <<[acct EXCEPT ![target].role = Primary, ![target].slot = NullSlot]>>
        ELSE <<demoted, promoted>>

PromoteLeftHidden(target, old, slot) ==
  LET hidden   == [acct EXCEPT ![target].active = FALSE]
      demoted  == [hidden EXCEPT ![old].role = Secondary, ![old].slot = slot]
      promoted == [demoted EXCEPT ![target].role = Primary, ![target].slot = NullSlot]
  IN  IF old = None
        THEN <<[acct EXCEPT ![target].role = Primary, ![target].slot = NullSlot]>>
        ELSE <<hidden, demoted, promoted>>

\* The account table after each statement of the transaction.
PromoteStatements(target, old, slot) ==
  LET hidden   == [acct EXCEPT ![target].active = FALSE]
      demoted  == [hidden EXCEPT ![old].role = Secondary, ![old].slot = slot]
      promoted == [demoted EXCEPT ![target].role = Primary,
                     ![target].slot = NullSlot, ![target].active = TRUE]
  IN  IF old = None
        THEN <<[acct EXCEPT ![target].role = Primary, ![target].slot = NullSlot]>>
        ELSE <<hidden, demoted, promoted>>

PromoteWrite(r) ==
  /\ req[r].pc = "promote_write"
  /\ LET tables == PromoteStatements(req[r].target, req[r].other, req[r].slot)
     IN  acct' = IF \A i \in DOMAIN tables : DatabaseAccepts(tables[i])
                   THEN tables[Len(tables)]
                   ELSE acct
  /\ Finish(r)
  /\ UNCHANGED <<media, parts>>

(***************************************************************************)
(* deactivate: the role check and the count of linked media come before    *)
(* the transaction.  It marks the rows of media that are linked then; the  *)
(* account row is locked by the second statement only, so an init may      *)
(* commit another row in between.                                          *)
(***************************************************************************)
\* Mutant of LinkedMedia: forgets the uploads in progress.
LinkedReadyMedia(a) ==
  {m \in MediaIds : /\ media[m].account = a /\ ~media[m].orphaned
                    /\ media[m].status = "ready"}

LinkedMedia(a) == {m \in MediaIds : media[m].account = a /\ ~media[m].orphaned}

DeactivateRead(r, a, force) ==
  /\ acct[a].active /\ acct[a].role # Primary
  /\ Start(r, [Idle EXCEPT !.pc = "deactivate_count", !.target = a, !.flag = force])
  /\ UNCHANGED <<acct, media, parts>>

DeactivateCount(r) ==
  /\ req[r].pc = "deactivate_count"
  /\ LET linked == LinkedMedia(req[r].target) # {}
     IN  IF linked /\ ~req[r].flag
           THEN Finish(r)
           ELSE Goto(r, [req[r] EXCEPT
                           !.pc = IF linked THEN "deactivate_orphan" ELSE "deactivate_write",
                           !.orphans = {}])
  /\ UNCHANGED <<acct, media, parts>>

\* UPDATE media: waits for a row that another deactivation has marked.
DeactivateOrphan(r) ==
  /\ req[r].pc = "deactivate_orphan"
  /\ LET linked == LinkedMedia(req[r].target)
     IN  /\ \A m \in linked : ~MediaLocked(r, m)
         /\ Goto(r, [req[r] EXCEPT !.pc = "deactivate_write", !.orphans = linked])
  /\ UNCHANGED <<acct, media, parts>>

\* UPDATE cloudinary_accounts, and the commit of both.
DeactivateWrite(r) ==
  /\ req[r].pc = "deactivate_write"
  /\ media' = [m \in MediaIds |->
                 IF m \in req[r].orphans THEN [media[m] EXCEPT !.orphaned = TRUE]
                                         ELSE media[m]]
  /\ acct' = [acct EXCEPT ![req[r].target].active = FALSE]
  /\ Finish(r)
  /\ UNCHANGED parts
=============================================================================
