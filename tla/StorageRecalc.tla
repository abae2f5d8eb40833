--------------------------- MODULE StorageRecalc ---------------------------
(***************************************************************************)
(* The hourly storage recalculation: the cron tick that enqueues the job,  *)
(* the BullMQ worker that pages through the active accounts and overwrites *)
(* the usage of each with what Cloudinary reports, and, beside them, the   *)
(* uploads, deletions and deactivations of the API.                        *)
(*                                                                         *)
(* Bytes the books count and Cloudinary does not store (reserved and not   *)
(* yet uploaded, or destroyed and not yet given back) are `claims`.  What  *)
(* two requests do to one and the same file is in Vault and DirectUpload.  *)
(* Accounts are numbered in the order of (createdAt, id).                  *)
(***************************************************************************)
EXTENDS Integers, FiniteSets

CONSTANTS
  MaxAccounts,      \* bound: accounts ever added
  InitialAccounts,  \* accounts 1 .. InitialAccounts exist at the start
  Givers,           \* requests that may be giving bytes back at a time
  MaxBytes,         \* bound: bytes of an account, stored and claimed
  BatchSize         \* STORAGE_RECALC_BATCH_SIZE

VARIABLES
  created, active,  \* accounts added, and those not deactivated
  usedBytes,        \* storageUsedBytes
  remote,           \* what Cloudinary stores, and its usage API reports
  claims,           \* bytes counted in usedBytes and not stored
  give,             \* what each giver has read of the account it adjusts
  job,              \* the job with the stable id, in the queue
  tick,             \* the scheduler, between getJob and add
  run,              \* the local variables of the worker
  history           \* what this run has visited and what it has missed

rowVars  == <<created, active, usedBytes>>
byteVars == <<remote, claims, give>>
jobVars  == <<job, tick, run, history>>
recalcVars == <<rowVars, byteVars, jobVars>>

Ids == 1 .. MaxAccounts

ASSUME RecalcConstants ==
  /\ MaxAccounts \in Nat /\ InitialAccounts \in 0 .. MaxAccounts
  /\ MaxBytes \in Nat \ {0} /\ BatchSize \in Nat \ {0}
  /\ IsFiniteSet(Givers)

IdleRun == [pc |-> "idle", offset |-> 0, page |-> {}, usage |-> 0, found |-> FALSE]
NoRun   == [visited |-> {}, throughout |-> {}, shifted |-> FALSE]
NoGive  == [account |-> 0, usage |-> 0, found |-> FALSE]

RecalcTypeOK ==
  /\ active \subseteq created /\ created \subseteq Ids
  /\ usedBytes \in [Ids -> Nat] /\ remote \in [Ids -> Nat] /\ claims \in [Ids -> Nat]
  /\ give \in [Givers -> [account: Ids, usage: Nat, found: BOOLEAN] \cup {NoGive}]
  /\ job \in [state: {"absent", "waiting", "active", "failed", "completed"},
              stalled: BOOLEAN]
  /\ tick \in {"idle", "add"}
  /\ run \in [pc: {"idle", "list", "fetch", "find", "save"}, offset: Nat,
              page: SUBSET Ids, usage: Nat, found: BOOLEAN]
  /\ history \in [visited: SUBSET Ids, throughout: SUBSET Ids, shifted: BOOLEAN]

NoJob == [state |-> "absent", stalled |-> FALSE]

RecalcInit ==
  /\ created = 1 .. InitialAccounts /\ active = created
  /\ usedBytes = [a \in Ids |-> 0] /\ remote = usedBytes /\ claims = usedBytes
  /\ give = [g \in Givers |-> NoGive]
  /\ job = NoJob /\ tick = "idle" /\ run = IdleRun /\ history = NoRun

-----------------------------------------------------------------------------
(***************************************************************************)
(* The requests of the API, as far as the books of an account see them.    *)
(***************************************************************************)
\* The givers of account a; and a claim that none of them is giving back.
Giving(a)  == {g \in Givers : give[g].account = a}
Claimed(a) == claims[a] > Cardinality(Giving(a))

Reserve(a) ==
  /\ a \in active /\ remote[a] + claims[a] < MaxBytes /\ usedBytes[a] < MaxBytes
  /\ usedBytes'   = [usedBytes EXCEPT ![a] = @ + 1]
  /\ claims' = [claims EXCEPT ![a] = @ + 1]
  /\ UNCHANGED <<created, active, remote, give, jobVars>>

\* The browser's upload arrives at Cloudinary.
Arrive(a) ==
  /\ Claimed(a)
  /\ claims' = [claims EXCEPT ![a] = @ - 1]
  /\ remote' = [remote EXCEPT ![a] = @ + 1]
  /\ UNCHANGED <<rowVars, give, jobVars>>

\* A delete or an abort removes the asset before it gives its bytes back.
Destroy(a) ==
  /\ remote[a] > 0
  /\ remote' = [remote EXCEPT ![a] = @ - 1]
  /\ claims' = [claims EXCEPT ![a] = @ + 1]
  /\ UNCHANGED <<rowVars, give, jobVars>>

\* adjustAccountUsage reads the row, active or not, without a lock.
GiveBackRead(g, a) ==
  /\ give[g] = NoGive /\ Claimed(a)
  /\ give' = [give EXCEPT ![g] = [account |-> a, usage |-> usedBytes[a], found |-> a \in active]]
  /\ UNCHANGED <<rowVars, remote, claims, jobVars>>

\* The rows a run pages through are one fewer.
Leaves(a) == history' = [history EXCEPT !.throughout = @ \ {a}, !.shifted = TRUE]

\* The save writes the whole row as it was read, with the usage lowered, not
\* below zero.
GiveBackSave(g) ==
  LET a == give[g].account IN
  /\ give[g] # NoGive
  /\ usedBytes' = [usedBytes EXCEPT ![a] = IF give[g].usage > 0 THEN give[g].usage - 1 ELSE 0]
  /\ active' = IF give[g].found THEN active \cup {a} ELSE active \ {a}
  /\ IF a \in active /\ ~give[g].found THEN Leaves(a) ELSE UNCHANGED history
  /\ claims' = [claims EXCEPT ![a] = @ - 1]
  /\ give' = [give EXCEPT ![g] = NoGive]
  /\ UNCHANGED <<created, remote, job, tick, run>>

\* The transaction fails, and the bytes are still to be given back.
GiveBackFails(g) ==
  /\ give[g] # NoGive
  /\ give' = [give EXCEPT ![g] = NoGive]
  /\ UNCHANGED <<rowVars, remote, claims, jobVars>>

AddAccount(a) ==
  /\ a \notin created /\ a = Cardinality(created) + 1
  /\ created' = created \cup {a} /\ active' = active \cup {a}
  /\ UNCHANGED <<usedBytes, byteVars, jobVars>>

Deactivate(a) ==
  /\ a \in active
  /\ active' = active \ {a}
  /\ Leaves(a)
  /\ UNCHANGED <<created, usedBytes, byteVars, job, tick, run>>

Api == \/ \E a \in Ids : \/ Reserve(a) \/ Arrive(a) \/ Destroy(a)
                         \/ AddAccount(a) \/ Deactivate(a)
                         \/ \E g \in Givers : GiveBackRead(g, a)
       \/ \E g \in Givers : GiveBackSave(g) \/ GiveBackFails(g)

-----------------------------------------------------------------------------
(***************************************************************************)
(* StorageRecalcScheduler: getJob, then add, which has no effect when a    *)
(* job with that id is in the queue, whatever its state.                   *)
(***************************************************************************)
TickGetJob ==
  /\ tick = "idle"
  /\ tick' = IF job = NoJob THEN "add" ELSE "idle"
  /\ UNCHANGED <<rowVars, byteVars, job, run, history>>

TickAdd ==
  /\ tick = "add"
  /\ tick' = "idle"
  /\ job' = IF job = NoJob THEN [NoJob EXCEPT !.state = "waiting"] ELSE job
  /\ UNCHANGED <<rowVars, byteVars, run, history>>

-----------------------------------------------------------------------------
(***************************************************************************)
(* StorageRecalcProcessor and StorageRecalcService.                        *)
(***************************************************************************)
Process ==
  /\ job.state = "waiting"
  /\ job' = [job EXCEPT !.state = "active"]
  /\ run' = [IdleRun EXCEPT !.pc = "list"]
  /\ history' = [NoRun EXCEPT !.throughout = active]
  /\ UNCHANGED <<rowVars, byteVars, tick>>

\* listActiveAccountsForReconciliation: isActive, by (createdAt, id), skip and
\* take.  Before(a) is the number of rows that come before a.
Before(a)    == Cardinality({b \in active : b < a})
Page(offset) == {a \in active : Before(a) \in offset .. offset + BatchSize - 1}

\* The account of the page that is next.
Current == CHOOSE a \in run.page : \A b \in run.page : a <= b

\* Mutant of AfterAccount: the offset counts pages as one row too many.
AfterAccountSkips ==
  LET rest == run.page \ {Current}
  IN  IF rest # {} THEN [run EXCEPT !.pc = "fetch", !.page = rest, !.usage = 0, !.found = FALSE]
      ELSE [IdleRun EXCEPT !.pc = "list", !.offset = run.offset + 1]

\* The next account of the page, or the next page.
AfterAccount ==
  LET rest == run.page \ {Current}
  IN  [run EXCEPT !.pc = IF rest # {} THEN "fetch" ELSE "list", !.page = rest,
                  !.usage = 0, !.found = FALSE]

\* Mutant of Completed: the job is kept.
CompletedKept == job' = [job EXCEPT !.state = "completed"]

\* removeOnComplete.
Completed == job' = NoJob

List ==
  /\ run.pc = "list"
  /\ LET page == Page(run.offset)
     IN  IF page = {}
           THEN Completed /\ run' = IdleRun
           ELSE /\ run' = [run EXCEPT !.pc = "fetch", !.page = page,
                             !.offset = @ + Cardinality(page)]
                /\ UNCHANGED job
  /\ UNCHANGED <<rowVars, byteVars, tick, history>>

FetchUsage ==
  /\ run.pc = "fetch"
  /\ run' = [run EXCEPT !.pc = "find", !.usage = remote[Current]]
  /\ UNCHANGED <<rowVars, byteVars, job, tick, history>>

StillActive(a) == a \in active

\* applyStorageReconciliation: findOne by id and isActive.
FindAccount ==
  /\ run.pc = "find"
  /\ LET a == Current IN
       /\ run' = IF StillActive(a)
                   THEN [run EXCEPT !.pc = "save", !.found = a \in active]
                   ELSE AfterAccount
       /\ history' = [history EXCEPT !.visited = @ \cup {a}]
  /\ UNCHANGED <<rowVars, byteVars, job, tick>>

\* Mutants of Saved: adds to the usage; never lowers it.
SavedAdded(a) == usedBytes' = [usedBytes EXCEPT ![a] = @ + run.usage]
SavedIfMore(a) ==
  usedBytes' = [usedBytes EXCEPT ![a] = IF run.usage > @ THEN run.usage ELSE @]

\* Repository.save updates each column in which the row, as it is now,
\* differs from the entity that was loaded, isActive among them.
Saved(a) == usedBytes' = [usedBytes EXCEPT ![a] = run.usage]

SaveAccount ==
  /\ run.pc = "save"
  /\ Saved(Current)
  /\ active' = IF run.found THEN active \cup {Current} ELSE active \ {Current}
  /\ run' = AfterAccount
  /\ UNCHANGED <<created, byteVars, job, tick, history>>

\* A query, the decryption or the usage call throws: the processor rethrows,
\* and the job, which has one attempt, stays in the queue as failed.
Throw ==
  /\ run.pc # "idle"
  /\ job' = [job EXCEPT !.state = "failed"] /\ run' = IdleRun
  /\ UNCHANGED <<rowVars, byteVars, tick, history>>

\* The API stops during a run: BullMQ puts a stalled job back once.
Restart ==
  /\ run.pc # "idle"
  /\ run' = IdleRun
  /\ job' = [state |-> IF job.stalled THEN "failed" ELSE "waiting", stalled |-> TRUE]
  /\ UNCHANGED <<rowVars, byteVars, tick, history>>

Worker == Process \/ List \/ FetchUsage \/ FindAccount \/ SaveAccount

RecalcNext == Api \/ TickGetJob \/ TickAdd \/ Worker \/ Throw \/ Restart

\* The cron fires every hour and the worker takes what waits.
RecalcSpec ==
  /\ RecalcInit /\ [][RecalcNext]_recalcVars
  /\ WF_recalcVars(TickGetJob) /\ WF_recalcVars(TickAdd) /\ WF_recalcVars(Worker)

-----------------------------------------------------------------------------
Balanced(a) == usedBytes[a] = remote[a] + claims[a]

\* The saves that may write account a and do harm: of the recalculation, and
\* of a giver that had read another usage, or the account in another state.
Recalculates(a) == run.pc = "save" /\ a = Current

LateGiver(a) ==
  \E g \in Givers : /\ give[g].account = a /\ give'[g] = NoGive
                   /\ \/ give[g].usage # usedBytes[a]
                      \/ give[g].found # (a \in active)

\* Whole-row saves do harm only by being late.  Books that balanced stop
\* doing so only when the recalculation writes a usage Cloudinary reported
\* before a change, or while bytes are claimed, so that what a request has
\* counted in between is overwritten (applyStorageReconciliation); or when
\* adjustAccountUsage saves a row that has changed since it was read.  And a
\* deactivated account is activated again, or its usage raised, only by a
\* save that still saw it active, or that had read another usage.
OnlyLateSavesDoHarm ==
  [][/\ \A a \in Ids : Balanced(a) /\ ~Balanced(a)' =>
          \/ Recalculates(a) /\ (claims[a] > 0 \/ remote[a] # run.usage)
          \/ LateGiver(a)
     /\ \A a \in created \ active : (a \in active' \/ usedBytes'[a] > usedBytes[a]) =>
          (Recalculates(a) /\ run.found) \/ LateGiver(a)]_recalcVars

\* A run that completes has visited every account that was active from its
\* start to its end, unless a deactivation has shifted the pages under its
\* offset (recalculateAllActiveAccounts).
CompletedRunVisitsAll ==
  [][run.pc = "list" /\ job' = NoJob =>
       history.shifted \/ history.throughout \subseteq history.visited]_recalcVars

\* The recalculation runs again and again, until a run fails: the failed job
\* keeps the stable id, and every later tick finds it (enqueueHourly...).
RunsUntilFailure == []<>(job.state = "active") \/ <>[](job.state = "failed")

\* When the requests have settled and no run fails, the books of the active
\* accounts end up right, whatever earlier runs have overwritten.
EventuallyBalanced ==
  <>[]((\A a \in Ids : claims[a] = 0) /\ job.state # "failed")
     => <>[](\A a \in active : Balanced(a))

-----------------------------------------------------------------------------
(***************************************************************************)
(* What makes these inductive.  Accounts are added behind all others, so   *)
(* that, unless a deactivation has shifted the pages, those active from    *)
(* the start of the run keep their places, and whichever are before the    *)
(* offset are visited or still on the page.                                *)
(***************************************************************************)
RunOfJob ==
  /\ run.pc # "idle" => job.state = "active"
  /\ run.page \subseteq created /\ (run.page = {} <=> run.pc \in {"idle", "list"})
  /\ run.pc = "save" =>
       run.found /\ Current \in history.visited /\ (Current \in active \/ history.shifted)

PagesInPlace ==
  run.pc # "idle" /\ ~history.shifted =>
    /\ history.throughout \subseteq active
    /\ \A a \in history.throughout : Before(a) < run.offset =>
         a \in history.visited \cup run.page

RecalcInv ==
  /\ RecalcTypeOK /\ \E n \in 0 .. MaxAccounts : created = 1 .. n
  /\ RunOfJob /\ PagesInPlace

\* What is being given back is claimed, of an account that was added.
GivesInv ==
  /\ \A a \in Ids : Cardinality(Giving(a)) <= claims[a]
  /\ \A g \in Givers : give[g].found => give[g].account \in created
=============================================================================
