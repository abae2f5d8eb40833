---------------------------- MODULE MediaUpload ----------------------------
(***************************************************************************)
(* MediaService: the upload flow whose state is the media row (init,       *)
(* complete, abort) and the deletion of a media item.  The client chooses  *)
(* the media id.  directUploadSignPart, list and preflight change nothing. *)
(***************************************************************************)
EXTENDS VaultState

(***************************************************************************)
(* directUploadInit.  The media id is looked up and the accounts are read  *)
(* before the transaction; the transaction locks the active accounts (FOR  *)
(* UPDATE), selects again and refuses when the choice has changed.         *)
(***************************************************************************)
InitCheckExisting(r, m, size, total) ==
  /\ media[m] = AbsentMedia
  /\ Start(r, [Idle EXCEPT !.pc = "preflight", !.m = m,
                 !.entity = [status |-> "uploading", account |-> None,
                             size |-> size, total |-> total, orphaned |-> FALSE]])
  /\ UNCHANGED <<acct, media, parts>>

InitPreflight(r) ==
  /\ req[r].pc = "preflight"
  /\ LET a == SelectAccount(acct, req[r].entity.size)
     IN  IF a = None
           THEN Finish(r)
           ELSE Goto(r, [req[r] EXCEPT !.pc = "reserve", !.target = a])
  /\ UNCHANGED <<acct, media, parts>>

\* Mutant of InitReserve: trusts the preflight, selects nothing under the lock.
InitReserveOnPreflight(r) ==
  /\ req[r].pc = "reserve"
  /\ ~MediaLocked(r, req[r].m)
  /\ LET a == req[r].target
         e == req[r].entity
     IN  /\ acct'  = [acct EXCEPT ![a] = AdjustedRow(acct[a], e.size)]
         /\ media' = [media EXCEPT ![req[r].m] = [e EXCEPT !.account = a]]
  /\ Finish(r)
  /\ UNCHANGED parts

\* mediaRepo.save finds no row with the id and inserts one, or finds one
\* (another init was faster) and overwrites it.
InitReserve(r) ==
  /\ req[r].pc = "reserve"
  /\ ~MediaLocked(r, req[r].m)
  /\ LET a == req[r].target
         e == req[r].entity
     IN  IF SelectAccount(acct, e.size) = a
           THEN /\ acct'  = [acct EXCEPT ![a] = AdjustedRow(acct[a], e.size)]
                /\ media' = [media EXCEPT ![req[r].m] = [e EXCEPT !.account = a]]
           ELSE UNCHANGED <<acct, media>>
  /\ Finish(r)
  /\ UNCHANGED parts

(***************************************************************************)
(* The account read of adjustAccountUsage.  It takes no lock, so the row   *)
(* written at the commit may have changed in between.                      *)
(***************************************************************************)
LoadAccount(r, from, to) ==
  /\ req[r].pc = from
  /\ Goto(r, [req[r] EXCEPT !.pc = to, !.snap = acct[req[r].entity.account]])
  /\ UNCHANGED <<acct, media, parts>>

\* The account table as the transaction of r leaves it.
Settled(r) ==
  IF req[r].delta = 0
    THEN acct
    ELSE [acct EXCEPT ![req[r].entity.account] =
                         AdjustedRow(req[r].snap, -req[r].delta)]

(***************************************************************************)
(* directUploadComplete.  Status, parts and size are checked against the   *)
(* row as read before the transaction.                                     *)
(***************************************************************************)
PartsComplete(indices, total) == indices = 0 .. (total - 1)

\* Mutant of CompleteRead: finalizes an item of any status.
CompleteReadAnyStatus(r, m, indices, compressed) ==
  /\ media[m] # AbsentMedia
  /\ PartsComplete(indices, media[m].total)
  /\ compressed <= media[m].size
  /\ LET delta == media[m].size - compressed
     IN  Start(r, [Idle EXCEPT
                     !.pc = IF delta > 0 THEN "complete_load" ELSE "complete_commit",
                     !.m = m, !.entity = media[m], !.parts = indices, !.delta = delta])
  /\ UNCHANGED <<acct, media, parts>>

CompleteRead(r, m, indices, compressed) ==
  /\ media[m].status = "uploading"
  /\ PartsComplete(indices, media[m].total)
  /\ compressed <= media[m].size
  /\ LET delta == media[m].size - compressed
     IN  Start(r, [Idle EXCEPT
                     !.pc = IF delta > 0 THEN "complete_load" ELSE "complete_commit",
                     !.m = m, !.entity = media[m], !.parts = indices, !.delta = delta])
  /\ UNCHANGED <<acct, media, parts>>

(***************************************************************************)
(* The transaction starts with its part rows.  A second transaction that   *)
(* inserts the same indices waits for the first to end and, when it        *)
(* commits, breaks the unique index on them: that is Fail(r).              *)
(***************************************************************************)
PartsInserted(q) == req[q].pc = "complete_commit" /\ req[q].delta > 0

PartsLocked(r) == \E q \in Requests \ {r} : PartsInserted(q) /\ req[q].m = req[r].m

CompleteLoad(r) ==
  /\ ~PartsLocked(r)
  /\ LoadAccount(r, "complete_load", "complete_commit")

\* Repository.save writes every column the first query selected, or inserts
\* the row again when it is gone.
CompleteCommit(r) ==
  /\ req[r].pc = "complete_commit"
  /\ PartsInserted(r) \/ ~PartsLocked(r)
  /\ ~MediaLocked(r, req[r].m)
  /\ LET e == req[r].entity
     IN  IF DatabaseAccepts(Settled(r))
           THEN /\ acct'  = Settled(r)
                /\ media' = [media EXCEPT ![req[r].m] =
                               [e EXCEPT !.status = "ready", !.size = @ - req[r].delta]]
                /\ parts' = [parts EXCEPT ![req[r].m] = req[r].parts]
           ELSE UNCHANGED <<acct, media, parts>>
  /\ Finish(r)

(***************************************************************************)
(* directUploadAbort.  The parts are destroyed on a best-effort basis      *)
(* before the transaction.  The query selects only some columns, so save   *)
(* cannot insert a row that is gone (NOT NULL) and the transaction fails.  *)
(***************************************************************************)
\* Mutant of AbortRead: aborts an item of any status.
AbortReadAnyStatus(r, m) ==
  /\ media[m] # AbsentMedia
  /\ Start(r, [Idle EXCEPT !.pc = "abort_load", !.m = m, !.entity = media[m],
                 !.delta = media[m].size])
  /\ UNCHANGED <<acct, media, parts>>

AbortRead(r, m) ==
  /\ media[m].status = "uploading"
  /\ Start(r, [Idle EXCEPT !.pc = "abort_load", !.m = m, !.entity = media[m],
                 !.delta = media[m].size])
  /\ UNCHANGED <<acct, media, parts>>

AbortLoad(r) == LoadAccount(r, "abort_load", "abort_commit")

\* The part rows of an upload completed since the first query may have been
\* inserted too late for the DELETE to see them.
PartsDeleted(m, e) ==
  {[parts EXCEPT ![m] = {}]} \cup (IF media[m] = e THEN {} ELSE {parts})

AbortCommit(r) ==
  /\ req[r].pc = "abort_commit"
  /\ ~MediaLocked(r, req[r].m)
  /\ LET m == req[r].m
         e == req[r].entity
     IN  IF media[m] # AbsentMedia /\ DatabaseAccepts(Settled(r))
           THEN /\ acct'  = Settled(r)
                /\ media' = [media EXCEPT ![m].account = e.account,
                               ![m].size = e.size, ![m].status = "failed"]
                /\ parts' \in PartsDeleted(m, e)
           ELSE UNCHANGED <<acct, media, parts>>
  /\ Finish(r)

\* Mutant of Releasable: an aborted item gives its bytes back again.
ReleasableIfLive(e) == IF ~e.orphaned THEN e.size ELSE 0

(***************************************************************************)
(* remove.  The files of an orphaned item are left alone; otherwise a      *)
(* failure to destroy them keeps the row.                                  *)
(***************************************************************************)
Releasable(e) == IF ~e.orphaned /\ e.status # "failed" THEN e.size ELSE 0

RemoveTransaction(e) == IF Releasable(e) > 0 THEN "remove_load" ELSE "remove_commit"

RemoveRead(r, m) ==
  /\ media[m] # AbsentMedia
  /\ Start(r, [Idle EXCEPT
                 !.pc = IF media[m].orphaned THEN RemoveTransaction(media[m])
                                             ELSE "remove_destroy",
                 !.m = m, !.entity = media[m], !.delta = Releasable(media[m])])
  /\ UNCHANGED <<acct, media, parts>>

\* When destroy throws, the answer is 502 and the request ends: Fail(r).
RemoveDestroy(r) ==
  /\ req[r].pc = "remove_destroy"
  /\ Goto(r, [req[r] EXCEPT !.pc = RemoveTransaction(req[r].entity)])
  /\ UNCHANGED <<acct, media, parts>>

RemoveLoad(r) == LoadAccount(r, "remove_load", "remove_commit")

RemoveCommit(r) ==
  /\ req[r].pc = "remove_commit"
  /\ ~MediaLocked(r, req[r].m)
  /\ IF DatabaseAccepts(Settled(r))
       THEN /\ acct'  = Settled(r)
            /\ media' = [media EXCEPT ![req[r].m] = AbsentMedia]
            /\ parts' \in PartsDeleted(req[r].m, req[r].entity)
       ELSE UNCHANGED <<acct, media, parts>>
  /\ Finish(r)

MediaNext(r) ==
  \/ \E m \in MediaIds, size \in Sizes, total \in 1..MaxParts :
        InitCheckExisting(r, m, size, total)
  \/ InitPreflight(r)
  \/ InitReserve(r)
  \/ \E m \in MediaIds, indices \in SUBSET PartIndices, compressed \in Sizes :
        CompleteRead(r, m, indices, compressed)
  \/ CompleteLoad(r)
  \/ CompleteCommit(r)
  \/ \E m \in MediaIds : AbortRead(r, m)
  \/ AbortLoad(r)
  \/ AbortCommit(r)
  \/ \E m \in MediaIds : RemoveRead(r, m)
  \/ RemoveDestroy(r)
  \/ RemoveLoad(r)
  \/ RemoveCommit(r)
=============================================================================
