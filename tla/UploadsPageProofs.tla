-------------------------- MODULE UploadsPageProofs --------------------------
(***************************************************************************)
(* Theorems about UploadsPage, for any files, kinds and parts of them, any *)
(* number of sessions and of retries.                                      *)
(*                                                                         *)
(* The invariant falls into three parts, which read different variables:   *)
(* the list and the promises, the engine with its names, and the rows.     *)
(***************************************************************************)
EXTENDS UploadsPage, FiniteSetTheorems, WellFoundedInduction, TLAPS

ListOK ==
  /\ item \in [Files -> Item \cup {NoItem}]
  /\ task \in [Files -> Task \cup {NoTask}]
  /\ job \in [Files -> Job]

StatusInv == ListOK /\ BusyWhileInFlight

NamesInv ==
  /\ engine \in {"idle", "loading", "ready", "failed", "stalled"} /\ hung \in BOOLEAN
  /\ {input, output, stamp} \subseteq [Files -> Files \cup {None}]
  /\ NamesHeld /\ BytesOfHolders

ServerInv ==
  /\ session \in [Uploads -> {"unused", "open", "closed", "expired"}]
  /\ rows \in [Files -> Nat] /\ unheard \in [Files -> BOOLEAN]
  /\ RowsHeardOf

LEMMA PageInvParts == PageInv <=> StatusInv /\ NamesInv /\ ServerInv
BY DEF PageInv, TypeOK, StatusInv, ListOK, NamesInv, ServerInv

LEMMA PageInvNext == StatusInv' /\ NamesInv' /\ ServerInv' => PageInv'
BY DEF PageInv, TypeOK, StatusInv, ListOK, NamesInv, ServerInv

-----------------------------------------------------------------------------
(***************************************************************************)
(* Items, tasks and jobs.                                                  *)
(***************************************************************************)
Statuses == {"probing", "checking", "ready", "processing", "processed", "processError",
             "uploading", "uploaded", "uploadError"}
Phases == {"queued", "preflight", "uploading", "finalizing", "completed", "failed"}
Pcs == {"idle", "probe", "check", "unanswered"} \cup ProcessPcs \cup UploadPcs

\* Where a job may hold names of the engine.
EnginePcs == ProcessPcs \cup {"unanswered"}

LEMMA PcsAre ==
  /\ UploadPcs \subseteq Pcs \ (EnginePcs \cup {"idle", "probe", "check"})
  /\ ProcessPcs \subseteq Pcs \ {"idle", "probe", "check", "unanswered"}
  /\ EnginePcs \subseteq Pcs \ {"idle", "probe", "check"}
  /\ ProcessPcs \subseteq EnginePcs /\ "unanswered" \in EnginePcs
BY DEF Pcs, UploadPcs, ProcessPcs, EnginePcs

WithStatus(it, status) == [it EXCEPT !.status = status]
WithPhase(tk, phase)   == [tk EXCEPT !.phase = phase]
WithPc(jb, pc)         == [jb EXCEPT !.pc = pc]

LEMMA ItemType ==
  /\ \A it \in Item \cup {NoItem}, status \in Statuses :
       WithStatus(it, status) \in Item /\ WithStatus(it, status).status = status
  /\ NoItem \notin Item /\ NoItem.status = "absent" /\ \A it \in Item : it.status \in Statuses
<1>1. /\ NoItem \notin Item /\ NoItem.status = "absent"
      /\ \A it \in Item : it.status \in Statuses
  BY DEF Item, NoItem, Statuses
<1>2. ASSUME NEW it \in Item, NEW status \in Statuses
      PROVE  WithStatus(it, status) \in Item /\ WithStatus(it, status).status = status
  BY DEF Item, Statuses, WithStatus
<1>3. ASSUME NEW status \in Statuses
      PROVE  WithStatus(NoItem, status) \in Item /\ WithStatus(NoItem, status).status = status
  BY DEF Item, NoItem, Statuses, WithStatus
<1> QED  BY <1>1, <1>2, <1>3

LEMMA TaskType ==
  /\ \A tk \in Task \cup {NoTask}, phase \in Phases :
       WithPhase(tk, phase) \in Task /\ WithPhase(tk, phase).session = tk.session
  /\ NoTask \notin Task /\ NoTask.session = None
BY DEF Task, NoTask, Phases, WithPhase

LEMMA JobType ==
  /\ \A pc \in Pcs : At(pc) \in Job /\ At(pc).pc = pc
  /\ \A jb \in Job, pc \in Pcs : WithPc(jb, pc) \in Job /\ WithPc(jb, pc).pc = pc
  /\ NoJob \in Job /\ NoJob.pc = "idle" /\ \A jb \in Job : jb.pc \in Pcs
BY DEF Job, Pcs, At, NoJob, WithPc

\* What BusyWhileInFlight says of one file.
FileOK(it, tk, jb) ==
  /\ it \in Item \cup {NoItem} /\ tk \in Task \cup {NoTask} /\ jb \in Job
  /\ jb.pc = "probe" => it.status = "probing"
  /\ jb.pc = "check" => it.status = "checking"
  /\ jb.pc \in ProcessPcs => it.status = "processing"
  /\ jb.pc \in UploadPcs => it.status = "uploading"
  /\ jb.pc = "unanswered" => it.status \in BusyStatuses
  /\ jb.pc = "idle" => it.status \notin BusyStatuses
  /\ it # NoItem <=> tk # NoTask

LEMMA StatusOfFiles ==
  StatusInv <=> ListOK /\ \A i \in Files : FileOK(item[i], task[i], job[i])
BY DEF StatusInv, ListOK, BusyWhileInFlight, FileOK

\* Only file i goes on.
Only(i) ==
  /\ item' = [item EXCEPT ![i] = item'[i]]
  /\ task' = [task EXCEPT ![i] = task'[i]]
  /\ job'  = [job EXCEPT ![i] = job'[i]]

LEMMA OnlyOthers ==
  ASSUME ListOK, NEW i \in Files, Only(i)
  PROVE  \A j \in Files \ {i} : item'[j] = item[j] /\ task'[j] = task[j] /\ job'[j] = job[j]
BY DEF ListOK, Only

LEMMA FileStep ==
  ASSUME StatusInv, NEW i \in Files, Only(i), FileOK(item'[i], task'[i], job'[i])
  PROVE  StatusInv'
<1>1. ListOK /\ \A j \in Files : FileOK(item[j], task[j], job[j])
  BY StatusOfFiles
<1>2. \A j \in Files : FileOK(item'[j], task'[j], job'[j])
  BY <1>1, OnlyOthers
<1>3. item' \in [Files -> Item \cup {NoItem}]
  BY <1>1, <1>2 DEF Only, ListOK, FileOK
<1>4. task' \in [Files -> Task \cup {NoTask}]
  BY <1>1, <1>2 DEF Only, ListOK, FileOK
<1>5. job' \in [Files -> Job]
  BY <1>1, <1>2 DEF Only, ListOK, FileOK
<1>6. BusyWhileInFlight'
  BY <1>2 DEF FileOK, BusyWhileInFlight
<1> QED  BY <1>3, <1>4, <1>5, <1>6 DEF StatusInv, ListOK

\* What a step writes: the whole item, task or job of file i.
LEMMA Writes ==
  ASSUME ListOK, NEW i \in Files
  PROVE  /\ \A x : item' = [item EXCEPT ![i] = x]
                     => item'[i] = x /\ item' = [item EXCEPT ![i] = item'[i]]
         /\ \A x : task' = [task EXCEPT ![i] = x]
                     => task'[i] = x /\ task' = [task EXCEPT ![i] = task'[i]]
         /\ \A x : job' = [job EXCEPT ![i] = x]
                     => job'[i] = x /\ job' = [job EXCEPT ![i] = job'[i]]
         /\ item' = item => item'[i] = item[i] /\ item' = [item EXCEPT ![i] = item'[i]]
         /\ task' = task => task'[i] = task[i] /\ task' = [task EXCEPT ![i] = task'[i]]
         /\ job' = job => job'[i] = job[i] /\ job' = [job EXCEPT ![i] = job'[i]]
BY DEF ListOK

-----------------------------------------------------------------------------
(***************************************************************************)
(* The list and the promises: what the steps of one file make of it.       *)
(***************************************************************************)
LEMMA OneFile ==
  ASSUME StatusInv, NEW i \in Files, NEW a, NEW b, NEW c,
         item' = [item EXCEPT ![i] = a], task' = [task EXCEPT ![i] = b],
         job' = [job EXCEPT ![i] = c], FileOK(a, b, c)
  PROVE  StatusInv' /\ Only(i) /\ item'[i] = a /\ task'[i] = b /\ job'[i] = c
<1>1. ListOK
  BY DEF StatusInv
<1>2. Only(i) /\ item'[i] = a /\ task'[i] = b /\ job'[i] = c
  BY <1>1, Writes DEF Only
<1> QED  BY <1>2, FileStep

LEMMA Own ==
  ASSUME StatusInv, NEW i \in Files
  PROVE  /\ FileOK(item[i], task[i], job[i])
         /\ item = [item EXCEPT ![i] = item[i]] /\ task = [task EXCEPT ![i] = task[i]]
         /\ job = [job EXCEPT ![i] = job[i]]
BY StatusOfFiles DEF StatusInv, ListOK

\* The promise is over, and the item shows how.
LEMMA Settle ==
  ASSUME StatusInv, NEW i \in Files, NEW status \in Statuses \ BusyStatuses,
         NEW b \in Task,
         item' = [item EXCEPT ![i].status = status], task' = [task EXCEPT ![i] = b],
         job' = [job EXCEPT ![i] = NoJob]
  PROVE  StatusInv' /\ Only(i) /\ item'[i].status = status /\ task'[i] = b /\ job'[i] = NoJob
<1> DEFINE a == WithStatus(item[i], status)
<1>1. FileOK(item[i], task[i], job[i])
  BY Own
<1>2. a \in Item /\ a.status = status
  BY <1>1, ItemType DEF FileOK
<1>3. item' = [item EXCEPT ![i] = a]
  BY DEF WithStatus
<1> HIDE DEF a
<1>4. FileOK(a, b, NoJob)
  BY <1>2, ItemType, TaskType, JobType, PcsAre DEF FileOK
<1> QED  BY <1>2, <1>3, <1>4, OneFile

\* The promise goes on with a status that fits.
LEMMA GoOn ==
  ASSUME StatusInv, NEW i \in Files, NEW status \in Statuses, NEW c \in Job,
         NEW b \in Task,
         item' = [item EXCEPT ![i].status = status], task' = [task EXCEPT ![i] = b],
         job' = [job EXCEPT ![i] = c],
         \/ status = "probing" /\ c.pc = "probe"
         \/ status = "checking" /\ c.pc = "check"
         \/ status = "processing" /\ c.pc \in ProcessPcs
         \/ status = "uploading" /\ c.pc \in UploadPcs
  PROVE  StatusInv' /\ Only(i) /\ item'[i].status = status /\ task'[i] = b /\ job'[i] = c
<1> DEFINE a == WithStatus(item[i], status)
<1>1. FileOK(item[i], task[i], job[i])
  BY Own
<1>2. a \in Item /\ a.status = status
  BY <1>1, ItemType DEF FileOK
<1>3. item' = [item EXCEPT ![i] = a]
  BY DEF WithStatus
<1> HIDE DEF a
<1>4. FileOK(a, b, c)
  BY <1>2, ItemType, TaskType, PcsAre DEF FileOK, Pcs
<1> QED  BY <1>2, <1>3, <1>4, OneFile

\* What a step of the upload of a file starts from.
LEMMA InUpload ==
  ASSUME StatusInv, NEW i \in Files, job[i].pc \in UploadPcs
  PROVE  /\ item[i] \in Item /\ item[i].status = "uploading" /\ task[i] \in Task
         /\ job[i] \in Job /\ ListOK
         /\ item = [item EXCEPT ![i].status = "uploading"]
         /\ task = [task EXCEPT ![i] = task[i]]
<1>1. FileOK(item[i], task[i], job[i]) /\ ListOK
  BY Own DEF StatusInv
<1>2. /\ item[i] \in Item /\ item[i].status = "uploading" /\ task[i] \in Task
      /\ job[i] \in Job
  BY <1>1, ItemType, TaskType, PcsAre DEF FileOK
<1>3. item[i] = [item[i] EXCEPT !.status = "uploading"]
  BY <1>2 DEF Item
<1> QED  BY <1>1, <1>2, <1>3 DEF ListOK

LEMMA UploadGoesOn ==
  ASSUME StatusInv, NEW i \in Files, job[i].pc \in UploadPcs,
         NEW c \in Job, c.pc \in UploadPcs, NEW b \in Task,
         UNCHANGED item, task' = [task EXCEPT ![i] = b], job' = [job EXCEPT ![i] = c]
  PROVE  /\ StatusInv' /\ Only(i) /\ item'[i].status = "uploading"
         /\ task'[i] = b /\ job'[i] = c
<1>1. item' = [item EXCEPT ![i].status = "uploading"] /\ "uploading" \in Statuses
  BY InUpload DEF Statuses
<1> QED  BY <1>1, GoOn

LEMMA CatchStep ==
  ASSUME StatusInv, NEW i \in Files, job[i].pc \in UploadPcs, Catch(i)
  PROVE  /\ StatusInv' /\ Only(i) /\ task'[i].session = task[i].session
         /\ item'[i].status \in {"uploading", "uploadError"}
         /\ job'[i].pc = IF task[i].session = None THEN "idle" ELSE "abort"
<1> DEFINE b == WithPhase(task[i], "failed")
<1>1. b \in Task /\ b.session = task[i].session
  BY InUpload, TaskType DEF Phases
<1>2. task' = [task EXCEPT ![i] = b]
  BY DEF Catch, WithPhase
<1> HIDE DEF b
<1>3. CASE task[i].session = None
  <2>1. item' = [item EXCEPT ![i].status = "uploadError"] /\ job' = [job EXCEPT ![i] = NoJob]
    BY <1>3 DEF Catch, Rejected
  <2>2. "uploadError" \in Statuses \ BusyStatuses
    BY DEF Statuses, BusyStatuses
  <2> QED  BY <1>1, <1>2, <1>3, <2>1, <2>2, Settle, JobType
<1>4. CASE task[i].session # None
  <2>1. job' = [job EXCEPT ![i] = At("abort")] /\ UNCHANGED item
    BY <1>4 DEF Catch
  <2>2. At("abort") \in Job /\ At("abort").pc = "abort" /\ "abort" \in UploadPcs
    BY JobType DEF Pcs, UploadPcs
  <2> DEFINE c == At("abort")
  <2>3. c \in Job /\ c.pc \in UploadPcs /\ job' = [job EXCEPT ![i] = c]
    BY <2>1, <2>2
  <2> HIDE DEF c
  <2>4. /\ StatusInv' /\ Only(i) /\ item'[i].status = "uploading"
        /\ task'[i] = b /\ job'[i] = c
    BY <1>1, <1>2, <2>1, <2>3, UploadGoesOn
  <2> QED  BY <1>1, <1>4, <2>2, <2>4 DEF c
<1> QED  BY <1>3, <1>4

\* A file whose promise has settled, with or without its row.
LEMMA UploadEnds ==
  ASSUME StatusInv, NEW i \in Files, job[i].pc \in UploadPcs, NEW b \in Task,
         Resolved(i) \/ Rejected(i), task' = [task EXCEPT ![i] = b]
  PROVE  /\ StatusInv' /\ Only(i) /\ task'[i] = b /\ job'[i].pc = "idle"
         /\ item'[i].status \in {"uploaded", "uploadError"}
<1>1. {"uploaded", "uploadError"} \subseteq Statuses \ BusyStatuses
  BY DEF Statuses, BusyStatuses
<1>2. PICK status \in {"uploaded", "uploadError"} :
        item' = [item EXCEPT ![i].status = status] /\ job' = [job EXCEPT ![i] = NoJob]
  BY DEF Resolved, Rejected
<1> QED  BY <1>1, <1>2, Settle, JobType

-----------------------------------------------------------------------------
\* The least of the sessions that are left is one of them.
LEMMA UnusedUpload ==
  ASSUME \E u \in Uploads : session[u] = "unused"
  PROVE  NextUpload \in Uploads /\ session[NextUpload] = "unused"
<1> DEFINE unused == {u \in Uploads : session[u] = "unused"}
<1>1. unused \subseteq Nat /\ unused # {}
  BY UploadsPageConstants
<1> HIDE DEF unused
<1>2. \E u \in unused : \A v \in unused : ~ (<<v, u>> \in OpToRel(<, Nat))
  BY <1>1, NatLessThanWellFounded, WFMin, Zenon
<1>3. \A u, v \in Nat : ~ (<<v, u>> \in OpToRel(<, Nat)) => u <= v
  BY DEF OpToRel
<1>4. \E u \in unused : \A v \in unused : u <= v
  BY <1>1, <1>2, <1>3
<1>5. Min(unused) \in unused
  BY <1>4 DEF Min
<1> QED  BY <1>5 DEF unused, NextUpload

LEMMA UploadStatus ==
  ASSUME StatusInv, NEW i \in Files, UploadStep(i)
  PROVE  /\ StatusInv' /\ Only(i) /\ job[i].pc \in UploadPcs
         /\ job'[i].pc \in UploadPcs \cup {"idle"}
<1>1. job[i].pc \in UploadPcs
  BY DEF UploadStep, PreflightAccepted, PreflightRefused, InitAnswered, OpenSession, InitAnswerLost,
         PartStored, PartSigned, PartRetried, BackoffOver, CompleteAnswered, CompleteSession,
         CompleteAnswerLost, CompleteSession, CallFailed, AbortAnswered, AbortSession, AbortFailed, UploadPcs
<1>2. /\ item[i] \in Item /\ item[i].status = "uploading" /\ task[i] \in Task
      /\ job[i] \in Job /\ ListOK /\ task = [task EXCEPT ![i] = task[i]]
  BY <1>1, InUpload
<1>3. CASE PreflightAccepted(i)
  <2>1. At("init") \in Job /\ At("init").pc \in UploadPcs
    BY JobType DEF Pcs, UploadPcs
  <2>2. UNCHANGED item /\ task' = [task EXCEPT ![i] = task[i]] /\ job' = [job EXCEPT ![i] = At("init")]
    BY <1>2, <1>3 DEF PreflightAccepted
  <2> QED  BY <1>1, <1>2, <2>1, <2>2, UploadGoesOn
<1>4. CASE PreflightRefused(i)
  <2> DEFINE b == WithPhase(task[i], "failed")
  <2>1. b \in Task
    BY <1>2, TaskType DEF Phases
  <2>2. task' = [task EXCEPT ![i] = b] /\ Resolved(i)
    BY <1>4 DEF PreflightRefused, WithPhase
  <2> HIDE DEF b
  <2> QED  BY <1>1, <2>1, <2>2, UploadEnds
<1>5. CASE InitAnswerLost(i) \/ CompleteAnswerLost(i) \/ CallFailed(i)
  <2>1. Catch(i) /\ "abort" \in UploadPcs
    BY <1>5 DEF InitAnswerLost, OpenSession, CompleteAnswerLost, CompleteSession, CallFailed, UploadPcs
  <2> QED  BY <1>1, <2>1, CatchStep
<1>6. CASE InitAnswered(i)
  <2> DEFINE u == NextUpload
             b == [task[i] EXCEPT !.session = u, !.phase = "uploading"]
  <2>1. u \in Uploads
    BY <1>6, UnusedUpload DEF InitAnswered, OpenSession
  <2> HIDE DEF u
  <2>2. b \in Task
    BY <1>2, <2>1 DEF Task
  <2>3. UNCHANGED item /\ task' = [task EXCEPT ![i] = b] /\ job' = [job EXCEPT ![i] = At("part")]
    BY <1>6 DEF InitAnswered, OpenSession, StoreSession, u
  <2>4. At("part") \in Job /\ At("part").pc \in UploadPcs
    BY JobType DEF Pcs, UploadPcs
  <2> HIDE DEF b
  <2> QED  BY <1>1, <2>2, <2>3, <2>4, UploadGoesOn
<1>7. CASE PartStored(i)
  <2> DEFINE last == job[i].part + 1 = Parts[i]
             next == job[i].part + 1
             b == IF last THEN WithPhase(task[i], "finalizing") ELSE task[i]
             c == IF last THEN At("complete") ELSE [At("sign") EXCEPT !.part = next]
  <2>1. b \in Task
    BY <1>2, TaskType DEF Phases
  <2>2. At("complete") \in Job /\ At("complete").pc \in UploadPcs
    BY JobType DEF Pcs, UploadPcs
  <2>3. next \in Nat
    BY <1>2 DEF Job
  <2> HIDE DEF next
  <2>4. [At("sign") EXCEPT !.part = next] \in Job /\ [At("sign") EXCEPT !.part = next].pc \in UploadPcs
    BY <2>3 DEF Job, At, NoJob, UploadPcs
  <2>5. c \in Job /\ c.pc \in UploadPcs
    BY <2>2, <2>4
  <2>6. UNCHANGED item /\ job' = [job EXCEPT ![i] = c]
    BY <1>7 DEF PartStored, next
  <2>7. task' = [task EXCEPT ![i] = b]
    BY <1>2, <1>7 DEF PartStored, WithPhase, Task
  <2> HIDE DEF b, c
  <2> QED  BY <1>1, <2>1, <2>5, <2>6, <2>7, UploadGoesOn
<1>8. CASE PartSigned(i) \/ BackoffOver(i)
  <2> DEFINE c == WithPc(job[i], "part")
  <2>1. c \in Job /\ c.pc \in UploadPcs
    BY <1>2, JobType DEF Pcs, UploadPcs
  <2>2. /\ UNCHANGED item /\ task' = [task EXCEPT ![i] = task[i]]
        /\ job' = [job EXCEPT ![i] = c]
    BY <1>2, <1>8 DEF PartSigned, BackoffOver, WithPc
  <2> HIDE DEF c
  <2> QED  BY <1>1, <1>2, <2>1, <2>2, UploadGoesOn
<1>9. CASE PartRetried(i)
  <2>1. PICK n \in Nat : n = job[i].try + 1
    BY <1>2 DEF Job
  <2> DEFINE c == [job[i] EXCEPT !.pc = "backoff", !.try = n]
  <2>2. c \in Job /\ c.pc \in UploadPcs
    BY <1>2, <2>1 DEF Job, UploadPcs
  <2>3. /\ UNCHANGED item /\ task' = [task EXCEPT ![i] = task[i]]
        /\ job' = [job EXCEPT ![i] = c]
    BY <1>2, <1>9, <2>1 DEF PartRetried, ListOK, Job
  <2> HIDE DEF c
  <2> QED  BY <1>1, <1>2, <2>2, <2>3, UploadGoesOn
<1>10. CASE CompleteAnswered(i)
  <2> DEFINE b == WithPhase(task[i], "completed")
  <2>1. b \in Task
    BY <1>2, TaskType DEF Phases
  <2>2. task' = [task EXCEPT ![i] = b] /\ Resolved(i)
    BY <1>10 DEF CompleteAnswered, CompleteSession, WithPhase
  <2> HIDE DEF b
  <2> QED  BY <1>1, <2>1, <2>2, UploadEnds
<1>11. CASE AbortAnswered(i) \/ AbortFailed(i)
  <2>1. task' = [task EXCEPT ![i] = task[i]] /\ Rejected(i)
    BY <1>2, <1>11 DEF AbortAnswered, AbortSession, AbortFailed
  <2> QED  BY <1>1, <1>2, <2>1, UploadEnds
<1> QED  BY <1>3, <1>4, <1>5, <1>6, <1>7, <1>8, <1>9, <1>10, <1>11 DEF UploadStep

\* A file whose item is in the list has a task, and the status says at which
\* point its promise is, if there is one.
LEMMA Listed ==
  ASSUME StatusInv, NEW i \in Files, item[i] # NoItem
  PROVE  /\ item[i] \in Item /\ task[i] \in Task /\ job[i] \in Job /\ ListOK
         /\ task = [task EXCEPT ![i] = task[i]]
         /\ item[i].status \notin BusyStatuses => job[i].pc = "idle"
<1>1. FileOK(item[i], task[i], job[i]) /\ ListOK
  BY Own DEF StatusInv
<1>2. item[i].status \notin BusyStatuses => job[i].pc = "idle"
  BY <1>1, JobType DEF FileOK, BusyStatuses, Pcs
<1> QED  BY <1>1, <1>2, ItemType, TaskType DEF FileOK, ListOK

LEMMA AtWork ==
  ASSUME StatusInv, NEW i \in Files, job[i].pc # "idle"
  PROVE  item[i] # NoItem /\ item[i].status \in BusyStatuses
<1>1. FileOK(item[i], task[i], job[i])
  BY Own
<1> QED  BY <1>1, ItemType, JobType DEF FileOK, BusyStatuses, Pcs, Statuses

LEMMA FirstAwaitType ==
  ASSUME NEW i \in Files
  PROVE  FirstAwait(i) \in {"reprobe", "write", "pass"} /\ FirstAwait(i) \in ProcessPcs \ {"load"}
BY DEF FirstAwait, ProcessPcs

Restarted(it, preflight) ==
  [it EXCEPT !.status = "processing", !.file = None, !.preflight = preflight]

LEMMA ProcessOneStatus ==
  ASSUME StatusInv, NEW i \in Files, item[i] # NoItem, NEW preflight \in BOOLEAN,
         ProcessOne(i, preflight), UNCHANGED task
  PROVE  /\ StatusInv' /\ Only(i) /\ item'[i].status = "processing"
         /\ job'[i] = At(IF engine = "ready" THEN FirstAwait(i) ELSE "load")
         /\ job'[i].pc = IF engine = "ready" THEN FirstAwait(i) ELSE "load"
<1> DEFINE a == Restarted(item[i], preflight)
           pc == IF engine = "ready" THEN FirstAwait(i) ELSE "load"
           c == At(pc)
<1>1. item[i] \in Item /\ task[i] \in Task /\ task = [task EXCEPT ![i] = task[i]]
  BY Listed
<1>2. a \in Item /\ a.status = "processing"
  BY <1>1 DEF Restarted, Item
<1>3. item' = [item EXCEPT ![i] = a]
  BY DEF ProcessOne, Restarted
<1>4. job' = [job EXCEPT ![i] = c]
  BY DEF ProcessOne
<1>5. pc \in ProcessPcs
  BY FirstAwaitType DEF ProcessPcs
<1> HIDE DEF a, pc
<1>6. c \in Job /\ c.pc = pc
  BY <1>5, JobType, PcsAre
<1> HIDE DEF c
<1>7. FileOK(a, task[i], c)
  BY <1>1, <1>2, <1>5, <1>6, ItemType, TaskType, PcsAre DEF FileOK
<1>8. task' = [task EXCEPT ![i] = task[i]]
  BY <1>1
<1>9. StatusInv' /\ Only(i) /\ item'[i] = a /\ job'[i] = c
  BY <1>3, <1>4, <1>7, <1>8, OneFile
<1> QED  BY <1>2, <1>6, <1>9 DEF c, pc

Processed(it, bytes, status) ==
  [it EXCEPT !.file = bytes, !.probe = "none", !.status = status]

LEMMA ProcessedStatus ==
  ASSUME StatusInv, NEW i \in Files, job[i].pc \in ProcessPcs, NEW bytes \in Files,
         UploadProcessed(i, bytes)
  PROVE  /\ StatusInv' /\ Only(i) /\ job'[i].pc \in {"preflight", "idle"}
         /\ item'[i].status \in {"uploading", "processed"}
<1>1. /\ item[i] \in Item /\ task[i] \in Task /\ task = [task EXCEPT ![i] = task[i]]
  BY PcsAre, AtWork, Listed
<1>2. \A status \in Statuses : /\ Processed(item[i], bytes, status) \in Item
                               /\ Processed(item[i], bytes, status).status = status
  BY <1>1 DEF Processed, Item, Statuses
<1>3. CASE item[i].preflight
  <2> DEFINE a == Processed(item[i], bytes, "uploading")
             b == WithPhase(task[i], "preflight")
  <2>1. item' = [item EXCEPT ![i] = a]
    BY <1>3 DEF UploadProcessed, Processed
  <2>2. task' = [task EXCEPT ![i] = b] /\ job' = [job EXCEPT ![i] = At("preflight")]
    BY <1>3 DEF UploadProcessed, BeginPreflight, WithPhase
  <2>3. a \in Item /\ a.status = "uploading" /\ b \in Task
    BY <1>1, <1>2, TaskType DEF Statuses, Phases
  <2>4. /\ At("preflight") \in Job /\ At("preflight").pc = "preflight"
        /\ "preflight" \in UploadPcs
    BY JobType DEF Pcs, UploadPcs
  <2> DEFINE c == At("preflight")
  <2> HIDE DEF a, b
  <2>5. FileOK(a, b, c)
    BY <2>3, <2>4, ItemType, TaskType, PcsAre DEF FileOK
  <2>6. job' = [job EXCEPT ![i] = c]
    BY <2>2
  <2> HIDE DEF c
  <2>7. StatusInv' /\ Only(i) /\ item'[i] = a /\ job'[i] = c
    BY <2>1, <2>2, <2>5, <2>6, OneFile
  <2> QED  BY <2>3, <2>4, <2>7 DEF c
<1>4. CASE ~item[i].preflight
  <2> DEFINE a == Processed(item[i], bytes, "processed")
  <2>1. item' = [item EXCEPT ![i] = a]
    BY <1>4 DEF UploadProcessed, Processed
  <2>2. task' = [task EXCEPT ![i] = task[i]] /\ job' = [job EXCEPT ![i] = NoJob]
    BY <1>1, <1>4 DEF UploadProcessed
  <2>3. a \in Item /\ a.status = "processed" /\ "processed" \notin BusyStatuses
    BY <1>2 DEF Statuses, BusyStatuses
  <2> HIDE DEF a
  <2>4. FileOK(a, task[i], NoJob)
    BY <1>1, <2>3, ItemType, TaskType, JobType, PcsAre DEF FileOK
  <2> DEFINE b == task[i]
  <2>5. FileOK(a, b, NoJob) /\ task' = [task EXCEPT ![i] = b]
    BY <2>2, <2>4
  <2> HIDE DEF b
  <2>6. StatusInv' /\ Only(i) /\ item'[i] = a /\ job'[i] = NoJob
    BY <2>1, <2>2, <2>5, OneFile
  <2> QED  BY <2>3, <2>6, JobType
<1> QED  BY <1>3, <1>4

\* The steps of a transcoding that do not end it.
LEMMA TranscodingStatus ==
  ASSUME StatusInv, NEW i \in Files, job[i].pc \in ProcessPcs,
         NEW c \in Job, c.pc \in ProcessPcs,
         UNCHANGED <<item, task>>, job' = [job EXCEPT ![i] = c]
  PROVE  StatusInv' /\ Only(i) /\ job'[i] = c
<1>1. /\ FileOK(item[i], task[i], job[i]) /\ item = [item EXCEPT ![i] = item[i]]
      /\ task = [task EXCEPT ![i] = task[i]]
  BY Own
<1> DEFINE a == item[i]
           b == task[i]
<1>2. FileOK(a, b, c)
  BY <1>1, PcsAre DEF FileOK
<1>3. item' = [item EXCEPT ![i] = a] /\ task' = [task EXCEPT ![i] = b]
  BY <1>1
<1> HIDE DEF a, b
<1> QED  BY <1>2, <1>3, OneFile

LEMMA ProcessFailedStatus ==
  ASSUME StatusInv, NEW i \in Files, job[i].pc \in ProcessPcs,
         ProcessFailed(i), UNCHANGED task
  PROVE  /\ StatusInv' /\ Only(i) /\ job'[i].pc = "idle"
         /\ item'[i].status = "processError"
<1>1. /\ item[i] \in Item /\ task[i] \in Task /\ task = [task EXCEPT ![i] = task[i]]
  BY PcsAre, AtWork, Listed
<1>2. "processError" \in Statuses \ BusyStatuses
  BY DEF Statuses, BusyStatuses
<1> QED  BY <1>1, <1>2, Settle, JobType DEF ProcessFailed

-----------------------------------------------------------------------------
\* What every step but those of executeDirectUpload leaves alone: a running
\* upload, and whether a file is shown as uploaded.
Quiet ==
  \A j \in Files :
    /\ job[j].pc \in UploadPcs => job'[j] = job[j] /\ task'[j] = task[j]
    /\ item[j].status \in {"uploaded", "absent"} =>
         item'[j].status \in {"uploaded", "absent"} \/ rows'[j] = 0
    /\ item'[j].status = "uploaded" => item[j].status = "uploaded"

\* The jobs that go on are not at work on the engine.
OffEngine ==
  \A j \in Files :
    job'[j] = job[j] \/ (job[j].pc \notin EnginePcs /\ job'[j].pc \notin EnginePcs)

LEMMA QuietStep ==
  ASSUME ListOK, NEW i \in Files, Only(i), job[i].pc \notin UploadPcs,
         item[i].status \notin {"uploaded", "absent"} \/ rows'[i] = 0,
         item'[i].status # "uploaded"
  PROVE  Quiet
BY OnlyOthers DEF Quiet

LEMMA OffEngineStep ==
  ASSUME ListOK, NEW i \in Files, Only(i),
         job[i].pc \notin EnginePcs, job'[i].pc \notin EnginePcs
  PROVE  OffEngine
BY OnlyOthers DEF OffEngine

LEMMA AddStatus ==
  ASSUME StatusInv, rows \in [Files -> Nat], NEW i \in Files, NEW kind \in Kinds[i], Add(i, kind)
  PROVE  StatusInv' /\ Quiet /\ OffEngine
<1> DEFINE status == CASE kind = "video" -> "probing"
                       [] kind = "image" -> "checking"
                       [] OTHER          -> "uploadError"
           a == [NoItem EXCEPT !.kind = kind, !.status = status]
           b == WithPhase(NoTask, "queued")
           c == CASE kind = "video" -> At("probe")
                  [] kind = "image" -> At("check")
                  [] OTHER          -> NoJob
<1>1. kind \in {"video", "image", "invalid"}
  BY UploadsPageConstants
<1>2. item[i] = NoItem /\ job[i] = NoJob /\ ListOK
  BY DEF Add, StatusInv
<1>3. /\ item' = [item EXCEPT ![i] = a] /\ task' = [task EXCEPT ![i] = b]
      /\ job' = [job EXCEPT ![i] = c]
  BY <1>2 DEF Add, ListOK, WithPhase
<1>4. a \in Item /\ a.status = status /\ b \in Task
  BY <1>1, TaskType DEF NoItem, Item, Phases
<1>5. /\ At("probe") \in Job /\ At("probe").pc = "probe"
      /\ At("check") \in Job /\ At("check").pc = "check"
  BY JobType DEF Pcs
<1>6. \/ c = At("probe") /\ status = "probing"
      \/ c = At("check") /\ status = "checking"
      \/ c = NoJob /\ status = "uploadError"
  BY <1>1
<1> HIDE DEF a, b, c, status
<1>7. FileOK(a, b, c)
  BY <1>4, <1>5, <1>6, ItemType, TaskType, JobType, PcsAre DEF FileOK, BusyStatuses
<1>8. StatusInv' /\ Only(i) /\ item'[i] = a /\ job'[i] = c
  BY <1>3, <1>7, OneFile
<1>9. c.pc \notin EnginePcs /\ job[i].pc \notin EnginePcs \cup UploadPcs
  BY <1>2, <1>5, <1>6, JobType, PcsAre
<1>10. rows'[i] = 0 /\ a.status # "uploaded"
  BY <1>4, <1>6 DEF Add
<1> QED  BY <1>2, <1>8, <1>9, <1>10, QuietStep, OffEngineStep

Checking(it) == [it EXCEPT !.status = "checking", !.preflight = FALSE]

LEMMA CheckingType ==
  \A it \in Item : Checking(it) \in Item /\ Checking(it).status = "checking"
BY DEF Checking, Item

LEMMA CheckOK ==
  ASSUME NEW it \in Item, it.status = "checking", NEW tk \in Task
  PROVE  /\ FileOK(it, tk, At("check"))
         /\ At("check").pc = "check" /\ "check" \notin EnginePcs \cup UploadPcs
<1>1. At("check") \in Job /\ At("check").pc = "check"
  BY JobType DEF Pcs
<1> QED  BY <1>1, ItemType, TaskType, PcsAre DEF FileOK

\* A probe has ended, or the user asks for a check: the check begins.
LEMMA CheckBegins ==
  ASSUME StatusInv, NEW i \in Files, item[i] # NoItem, NEW a \in Item, a.status = "checking",
         job[i].pc \notin EnginePcs \cup UploadPcs,
         item[i].status \notin {"uploaded", "absent"},
         item' = [item EXCEPT ![i] = a], UNCHANGED task, job' = [job EXCEPT ![i] = At("check")]
  PROVE  StatusInv' /\ Quiet /\ OffEngine
<1> DEFINE b == task[i]
           c == At("check")
<1>1. b \in Task /\ ListOK /\ task' = [task EXCEPT ![i] = b] /\ job' = [job EXCEPT ![i] = c]
  BY Listed
<1>2. FileOK(a, b, c) /\ c.pc \notin EnginePcs \cup UploadPcs
  BY <1>1, CheckOK
<1> HIDE DEF b, c
<1>3. StatusInv' /\ Only(i) /\ item'[i] = a /\ job'[i] = c
  BY <1>1, <1>2, OneFile
<1> QED  BY <1>1, <1>2, <1>3, QuietStep, OffEngineStep

LEMMA CheckStatus ==
  ASSUME StatusInv, NEW i \in Files, Probed(i) \/ Recheck(i)
  PROVE  StatusInv' /\ Quiet /\ OffEngine
<1>1. CASE Probed(i)
  <2>1. PICK probe \in {"none", "compatible", "transcode"} :
          item' = [item EXCEPT ![i].status = "checking", ![i].probe = probe]
    BY <1>1 DEF Probed
  <2> DEFINE a == [item[i] EXCEPT !.status = "checking", !.probe = probe]
  <2>2. job[i].pc = "probe" /\ "probe" \notin EnginePcs \cup UploadPcs
    BY <1>1, PcsAre DEF Probed
  <2>3. item[i] \in Item /\ item[i] # NoItem /\ item[i].status \notin {"uploaded", "absent"}
    BY <2>2, AtWork, Listed DEF BusyStatuses
  <2>4. a \in Item /\ a.status = "checking" /\ item' = [item EXCEPT ![i] = a]
    BY <2>1, <2>3 DEF Item
  <2>5. UNCHANGED task /\ job' = [job EXCEPT ![i] = At("check")]
    BY <1>1 DEF Probed
  <2> HIDE DEF a
  <2> QED  BY <2>2, <2>3, <2>4, <2>5, CheckBegins
<1>2. CASE Recheck(i)
  <2> DEFINE a == Checking(item[i])
  <2>1. item[i].status \in {"processed", "uploadError"}
    BY <1>2 DEF Recheck, Pending
  <2>2. item[i] \in Item /\ item[i] # NoItem /\ job[i].pc = "idle"
    BY <2>1, Listed, ItemType DEF BusyStatuses
  <2>3. a \in Item /\ a.status = "checking"
    BY <2>2, CheckingType
  <2>4. /\ item' = [item EXCEPT ![i] = a] /\ UNCHANGED task
        /\ job' = [job EXCEPT ![i] = At("check")]
    BY <1>2 DEF Recheck, RunPreflight, Checking
  <2> HIDE DEF a
  <2> QED  BY <2>1, <2>2, <2>3, <2>4, CheckBegins, PcsAre
<1> QED  BY <1>1, <1>2

\* A file whose promise is at none of the points of upload and engine ends
\* there, or starts to be processed.
LEMMA OutsideEnds ==
  ASSUME StatusInv, NEW i \in Files, item[i] # NoItem,
         job[i].pc \notin EnginePcs \cup UploadPcs,
         item[i].status \notin {"uploaded", "absent"},
         NEW a \in Item, a.status \notin BusyStatuses \cup {"uploaded"},
         item' = [item EXCEPT ![i] = a], UNCHANGED task, job' = [job EXCEPT ![i] = NoJob]
  PROVE  StatusInv' /\ Quiet /\ OffEngine
<1> DEFINE b == task[i]
<1>1. b \in Task /\ ListOK /\ task' = [task EXCEPT ![i] = b]
  BY Listed
<1>2. FileOK(a, b, NoJob) /\ NoJob.pc \notin EnginePcs \cup UploadPcs
  BY <1>1, ItemType, TaskType, JobType, PcsAre DEF FileOK
<1> HIDE DEF b
<1>3. StatusInv' /\ Only(i) /\ item'[i] = a /\ job'[i] = NoJob
  BY <1>1, <1>2, OneFile
<1>4. a.status # "uploaded"
  OBVIOUS
<1> QED  BY <1>1, <1>2, <1>3, <1>4, QuietStep, OffEngineStep

LEMMA ProcessOneQuiet ==
  ASSUME StatusInv, NEW i \in Files, item[i] # NoItem, NEW preflight \in BOOLEAN,
         ProcessOne(i, preflight), UNCHANGED task,
         job[i].pc \notin UploadPcs, item[i].status \notin {"uploaded", "absent"}
  PROVE  StatusInv' /\ Quiet
<1>1. StatusInv' /\ Only(i) /\ item'[i].status = "processing"
  BY ProcessOneStatus
<1> QED  BY <1>1, QuietStep DEF StatusInv

LEMMA CheckEndsStatus ==
  ASSUME StatusInv, NEW i \in Files, Checked(i) \/ CheckFailed(i)
  PROVE  /\ StatusInv' /\ Quiet
         /\ item[i] # NoItem /\ job[i].pc \notin EnginePcs \cup UploadPcs
         /\ \/ OffEngine /\ UNCHANGED engineVars
            \/ ProcessOne(i, TRUE) /\ UNCHANGED <<task, hung, input, output>>
<1>1. job[i].pc = "check" /\ "check" \notin EnginePcs \cup UploadPcs
  BY PcsAre DEF Checked, CheckFailed
<1>2. /\ item[i] \in Item /\ item[i] # NoItem
      /\ item[i].status \notin {"uploaded", "absent"}
  BY <1>1, AtWork, Listed DEF BusyStatuses
<1>3. CASE CheckFailed(i)
  <2> DEFINE a == WithStatus(item[i], "uploadError")
  <2>1. a \in Item /\ a.status \notin BusyStatuses \cup {"uploaded"}
    BY <1>2, ItemType DEF Statuses, BusyStatuses
  <2>2. /\ item' = [item EXCEPT ![i] = a] /\ UNCHANGED task /\ UNCHANGED engineVars
        /\ job' = [job EXCEPT ![i] = NoJob]
    BY <1>3 DEF CheckFailed, Rejected, WithStatus
  <2> HIDE DEF a
  <2> QED  BY <1>1, <1>2, <2>1, <2>2, OutsideEnds
<1>4. CASE Checked(i) /\ item[i].kind = "video" /\ item[i].file = None
  <2>1. ProcessOne(i, TRUE) /\ UNCHANGED task /\ UNCHANGED <<hung, input, output>>
    BY <1>4 DEF Checked
  <2> QED  BY <1>1, <1>2, <2>1, ProcessOneQuiet
<1>5. CASE Checked(i) /\ ~(item[i].kind = "video" /\ item[i].file = None)
  <2> DEFINE a == [item[i] EXCEPT !.status = "ready", !.preflight = TRUE]
  <2>1. a \in Item /\ a.status \notin BusyStatuses \cup {"uploaded"}
    BY <1>2 DEF Item, BusyStatuses
  <2>2. /\ item' = [item EXCEPT ![i] = a] /\ UNCHANGED task /\ UNCHANGED engineVars
        /\ job' = [job EXCEPT ![i] = NoJob]
    BY <1>5 DEF Checked, engineVars
  <2> HIDE DEF a
  <2> QED  BY <1>1, <1>2, <2>1, <2>2, OutsideEnds
<1> QED  BY <1>3, <1>4, <1>5

LEMMA RetryStatus ==
  ASSUME StatusInv, NEW i \in Files, RetryProcessing(i)
  PROVE  /\ StatusInv' /\ Quiet
         /\ item[i] # NoItem /\ job[i].pc \notin EnginePcs \cup UploadPcs
         /\ item[i].preflight \in BOOLEAN
<1>1. item[i].status = "processError" /\ ProcessOne(i, item[i].preflight) /\ UNCHANGED task
  BY DEF RetryProcessing
<1>2. /\ item[i] \in Item /\ item[i] # NoItem /\ job[i].pc = "idle"
      /\ item[i].status \notin {"uploaded", "absent"}
  BY <1>1, Listed, ItemType DEF BusyStatuses
<1>3. item[i].preflight \in BOOLEAN
  BY <1>2 DEF Item
<1>4. job[i].pc \notin EnginePcs \cup UploadPcs
  BY <1>2, PcsAre
<1> QED  BY <1>1, <1>2, <1>3, <1>4, ProcessOneQuiet

LEMMA UploadClicked ==
  ASSUME StatusInv, NEW i \in Files, Upload(i)
  PROVE  StatusInv' /\ Quiet /\ OffEngine
<1>1. item[i].status = "ready"
  BY DEF Upload, MayUpload
<1>2. /\ item[i] \in Item /\ task[i] \in Task /\ job[i].pc = "idle" /\ ListOK
  BY <1>1, Listed, ItemType DEF BusyStatuses
<1> DEFINE b == WithPhase(task[i], "preflight")
           c == At("preflight")
<1>3. b \in Task
  BY <1>2, TaskType DEF Phases
<1>4. c \in Job /\ c.pc = "preflight" /\ "preflight" \in UploadPcs
  BY JobType DEF Pcs, UploadPcs
<1>5. /\ item' = [item EXCEPT ![i].status = "uploading"]
      /\ task' = [task EXCEPT ![i] = b] /\ job' = [job EXCEPT ![i] = c]
  BY DEF Upload, BeginPreflight, WithPhase
<1> HIDE DEF b, c
<1>6. StatusInv' /\ Only(i) /\ item'[i].status = "uploading" /\ job'[i] = c
  <2>1. "uploading" \in Statuses
    BY DEF Statuses
  <2>2. c.pc \in UploadPcs
    BY <1>4
  <2> QED  BY ONLY StatusInv, i \in Files, <1>3, <1>4, <1>5, <2>1, <2>2, GoOn
<1> QED  BY <1>1, <1>2, <1>4, <1>6, PcsAre, QuietStep, OffEngineStep

LEMMA RemoveStatus ==
  ASSUME StatusInv, NEW i \in Files, Remove(i)
  PROVE  StatusInv' /\ Quiet /\ OffEngine
<1> DEFINE c == job[i]
<1>1. item[i] # NoItem /\ item[i].status \notin BusyStatuses /\ c.pc = "idle" /\ c \in Job
  BY Listed DEF Remove, MayRemove
<1>2. /\ item' = [item EXCEPT ![i] = NoItem] /\ task' = [task EXCEPT ![i] = NoTask]
      /\ job' = [job EXCEPT ![i] = c] /\ ListOK
  BY Own DEF Remove, StatusInv
<1>3. FileOK(NoItem, NoTask, c) /\ NoItem.status = "absent"
  BY <1>1, ItemType, TaskType, PcsAre DEF FileOK, BusyStatuses
<1> HIDE DEF c
<1>4. StatusInv' /\ Only(i) /\ item'[i] = NoItem /\ job'[i] = c
  BY <1>2, <1>3, OneFile
<1>5. Quiet
  BY <1>1, <1>2, <1>3, <1>4, OnlyOthers, PcsAre DEF Quiet, c
<1>6. OffEngine
  BY <1>1, <1>2, <1>4, PcsAre, OffEngineStep DEF c
<1> QED  BY <1>4, <1>5, <1>6

-----------------------------------------------------------------------------
(***************************************************************************)
(* What moves several files at once: "Check all", "Upload all", "Clear     *)
(* all" and the engine.                                                    *)
(***************************************************************************)
LEMMA NobodyBusy ==
  ASSUME StatusInv, ~Busy
  PROVE  /\ ListOK
         /\ \A i \in Files : /\ FileOK(item[i], task[i], job[i]) /\ job[i].pc = "idle"
                             /\ job[i].pc \notin EnginePcs \cup UploadPcs
<1>1. \A i \in Files : job[i].pc = "idle"
  BY AtWork DEF Busy
<1> QED  BY <1>1, Own, PcsAre DEF StatusInv

LEMMA RecheckAllStatus ==
  ASSUME StatusInv, RecheckAll
  PROVE  StatusInv' /\ Quiet /\ OffEngine
<1> DEFINE pending == {i \in Files : item[i].status \in Pending}
<1>1. /\ item' = [i \in Files |-> IF i \in pending THEN Checking(item[i]) ELSE item[i]]
      /\ job' = [i \in Files |-> IF i \in pending THEN At("check") ELSE job[i]]
      /\ task' = task /\ ~Busy
  BY DEF RecheckAll, Checking
<1>2. /\ ListOK
      /\ \A i \in Files : /\ FileOK(item[i], task[i], job[i]) /\ job[i].pc = "idle"
                          /\ job[i].pc \notin EnginePcs \cup UploadPcs
  BY <1>1, NobodyBusy
<1>3. \A i \in pending : item[i].status \notin {"uploaded", "absent"} /\ i \in Files
  BY DEF Pending
<1>4. \A i \in pending : item[i] \in Item /\ task[i] \in Task
  BY <1>2, <1>3, ItemType, Listed
<1>5. \A i \in pending : /\ item'[i].status = "checking" /\ job'[i].pc = "check"
                         /\ job'[i].pc \notin EnginePcs \cup UploadPcs
                         /\ FileOK(item'[i], task'[i], job'[i])
  <2> SUFFICES ASSUME NEW i \in pending
               PROVE  /\ item'[i].status = "checking" /\ job'[i].pc = "check"
                      /\ job'[i].pc \notin EnginePcs \cup UploadPcs
                      /\ FileOK(item'[i], task'[i], job'[i])
    OBVIOUS
  <2>1. Checking(item[i]) \in Item /\ Checking(item[i]).status = "checking"
    BY <1>4, CheckingType
  <2>2. item'[i] = Checking(item[i]) /\ task'[i] = task[i] /\ job'[i] = At("check")
    BY <1>1, <1>3
  <2> QED  BY <1>4, <2>1, <2>2, CheckOK
<1>6. \A i \in Files \ pending : item'[i] = item[i] /\ task'[i] = task[i] /\ job'[i] = job[i]
  BY <1>1
<1> HIDE DEF pending
<1>7. StatusInv'
  <2>1. \A i \in Files : FileOK(item'[i], task'[i], job'[i])
    BY <1>2, <1>5, <1>6
  <2>2. task' = [i \in Files |-> task[i]]
    BY <1>1, <1>2 DEF ListOK
  <2>3. ListOK'
    BY <1>1, <2>1, <2>2 DEF ListOK, FileOK
  <2> QED  BY <2>1, <2>3 DEF StatusInv, BusyWhileInFlight, FileOK
<1>8. Quiet
  BY <1>2, <1>3, <1>5, <1>6 DEF Quiet
<1>9. OffEngine
  BY <1>2, <1>5, <1>6 DEF OffEngine
<1> QED  BY <1>7, <1>8, <1>9

LEMMA UploadAllStatus ==
  ASSUME StatusInv, UploadAll
  PROVE  StatusInv' /\ Quiet /\ OffEngine
<1> DEFINE ready == {i \in Files : item[i].status = "ready"}
<1>1. /\ item' = [i \in Files |-> IF i \in ready THEN WithStatus(item[i], "uploading")
                                                 ELSE item[i]]
      /\ task' = [i \in Files |-> IF i \in ready THEN WithPhase(task[i], "preflight")
                                                 ELSE task[i]]
      /\ job' = [i \in Files |-> IF i \in ready THEN At("preflight") ELSE job[i]]
      /\ ~Busy
  BY DEF UploadAll, WithStatus, WithPhase
<1>2. /\ ListOK
      /\ \A i \in Files : /\ FileOK(item[i], task[i], job[i]) /\ job[i].pc = "idle"
                          /\ job[i].pc \notin EnginePcs \cup UploadPcs
  BY <1>1, NobodyBusy
<1>3. \A i \in ready : item[i].status \notin {"uploaded", "absent"} /\ i \in Files
  OBVIOUS
<1>4. \A i \in ready : item[i] \in Item /\ task[i] \in Task
  BY <1>2, <1>3, ItemType, Listed
<1>5. /\ At("preflight") \in Job /\ At("preflight").pc = "preflight"
      /\ "preflight" \in UploadPcs /\ "preflight" \notin EnginePcs
      /\ "uploading" \in Statuses /\ "preflight" \in Phases
  BY JobType, PcsAre DEF Pcs, UploadPcs, Statuses, Phases
<1>6. \A i \in ready : /\ item'[i].status = "uploading" /\ job'[i].pc \notin EnginePcs
                       /\ FileOK(item'[i], task'[i], job'[i])
  <2> SUFFICES ASSUME NEW i \in ready
               PROVE  /\ item'[i].status = "uploading" /\ job'[i].pc \notin EnginePcs
                      /\ FileOK(item'[i], task'[i], job'[i])
    OBVIOUS
  <2>1. /\ WithStatus(item[i], "uploading") \in Item
        /\ WithStatus(item[i], "uploading").status = "uploading"
        /\ WithPhase(task[i], "preflight") \in Task
    BY <1>4, <1>5, ItemType, TaskType
  <2>2. /\ item'[i] = WithStatus(item[i], "uploading")
        /\ task'[i] = WithPhase(task[i], "preflight") /\ job'[i] = At("preflight")
    BY <1>1, <1>3
  <2> QED  BY <1>5, <2>1, <2>2, ItemType, TaskType, PcsAre DEF FileOK
<1>7. \A i \in Files \ ready : item'[i] = item[i] /\ task'[i] = task[i] /\ job'[i] = job[i]
  BY <1>1
<1> HIDE DEF ready
<1>8. StatusInv'
  <2>1. \A i \in Files : FileOK(item'[i], task'[i], job'[i])
    BY <1>2, <1>6, <1>7
  <2>2. ListOK'
    BY <1>1, <2>1 DEF ListOK, FileOK
  <2> QED  BY <2>1, <2>2 DEF StatusInv, BusyWhileInFlight, FileOK
<1>9. Quiet
  BY <1>2, <1>3, <1>6, <1>7 DEF Quiet
<1>10. OffEngine
  BY <1>2, <1>6, <1>7 DEF OffEngine
<1> QED  BY <1>8, <1>9, <1>10

LEMMA ClearStatus ==
  ASSUME StatusInv, Clear
  PROVE  StatusInv' /\ Quiet /\ OffEngine
<1>1. /\ item' = [i \in Files |-> NoItem] /\ task' = [i \in Files |-> NoTask]
      /\ job' = job /\ ~Busy
  BY DEF Clear
<1>2. /\ ListOK
      /\ \A i \in Files : /\ FileOK(item[i], task[i], job[i]) /\ job[i].pc = "idle"
                          /\ job[i].pc \notin EnginePcs \cup UploadPcs
  BY <1>1, NobodyBusy
<1>3. \A i \in Files : FileOK(item'[i], task'[i], job'[i])
  BY <1>1, <1>2, ItemType, TaskType, PcsAre DEF FileOK, BusyStatuses
<1>4. ListOK'
  BY <1>1, <1>2 DEF ListOK
<1>5. StatusInv'
  BY <1>3, <1>4 DEF StatusInv, BusyWhileInFlight, FileOK
<1>6. Quiet /\ OffEngine
  BY <1>1, <1>2, ItemType DEF Quiet, OffEngine
<1> QED  BY <1>5, <1>6

LEMMA EngineStatus ==
  ASSUME StatusInv, EngineStep
  PROVE  StatusInv' /\ Quiet
<1> DEFINE waiting == {i \in Files : job[i].pc = "load"}
<1>1. ListOK /\ \A i \in Files : FileOK(item[i], task[i], job[i])
  BY StatusOfFiles
<1>2. "load" \in ProcessPcs /\ "load" \notin UploadPcs
  BY PcsAre DEF ProcessPcs
<1>3. \A i \in waiting : /\ i \in Files /\ item[i] \in Item /\ task[i] \in Task
                         /\ item[i].status = "processing" /\ job[i].pc \notin UploadPcs
  BY <1>1, <1>2, ItemType, TaskType DEF FileOK
<1>4. CASE EngineLoaded
  <2>1. /\ item' = item /\ task' = task
        /\ job' = [i \in Files |-> IF i \in waiting THEN At(FirstAwait(i)) ELSE job[i]]
    BY <1>4 DEF EngineLoaded
  <2>2. \A i \in waiting : At(FirstAwait(i)) \in Job /\ At(FirstAwait(i)).pc \in ProcessPcs
    BY FirstAwaitType, JobType, PcsAre
  <2>3. \A i \in waiting : FileOK(item[i], task[i], At(FirstAwait(i)))
    BY <1>3, <2>2, ItemType, TaskType, PcsAre DEF FileOK
  <2> HIDE DEF waiting
  <2>4. \A i \in Files : FileOK(item'[i], task'[i], job'[i])
    BY <1>1, <2>1, <2>3
  <2>5. ListOK'
    BY <1>1, <2>1, <2>4 DEF ListOK, FileOK
  <2>6. Quiet
    BY <1>3, <2>1 DEF Quiet
  <2> QED  BY <2>4, <2>5, <2>6 DEF StatusInv, BusyWhileInFlight, FileOK
<1>5. CASE EngineFailed
  <2>1. /\ item' = [i \in Files |-> IF i \in waiting THEN WithStatus(item[i], "processError")
                                                     ELSE item[i]]
        /\ job' = [i \in Files |-> IF i \in waiting THEN NoJob ELSE job[i]]
        /\ task' = task
    BY <1>5 DEF EngineFailed, WithStatus
  <2>2. \A i \in waiting : /\ WithStatus(item[i], "processError") \in Item
                           /\ WithStatus(item[i], "processError").status = "processError"
    BY <1>3, ItemType DEF Statuses
  <2>3. \A i \in waiting : FileOK(WithStatus(item[i], "processError"), task[i], NoJob)
    BY <1>3, <2>2, ItemType, TaskType, JobType, PcsAre DEF FileOK, BusyStatuses
  <2> HIDE DEF waiting
  <2>4. \A i \in Files : FileOK(item'[i], task'[i], job'[i])
    BY <1>1, <2>1, <2>3
  <2>5. ListOK'
    BY <1>1, <2>1, <2>4 DEF ListOK, FileOK
  <2>6. Quiet
    BY <1>3, <2>1, <2>2 DEF Quiet
  <2> QED  BY <2>4, <2>5, <2>6 DEF StatusInv, BusyWhileInFlight, FileOK
<1>6. CASE EngineStalls
  BY <1>6 DEF EngineStalls, pageVars, StatusInv, ListOK, BusyWhileInFlight, Quiet
<1> QED  BY <1>4, <1>5, <1>6 DEF EngineStep

-----------------------------------------------------------------------------
(***************************************************************************)
(* The engine and its names.                                               *)
(***************************************************************************)
LEMMA HolderType ==
  ASSUME NamesInv, NEW i \in Files
  PROVE  /\ job[i].pc \in {"exec"} \cup WorkerAwaits => stamp[i] \in Files
         /\ job[i].pc \notin EnginePcs => stamp[i] = None
         /\ stamp[i] \in Files \cup {None} /\ None \notin Files
         /\ \A name \in Files : input[name] \in Files \cup {None}
                                /\ output[name] \in Files \cup {None}
BY UploadsPageConstants DEF NamesInv, NamesHeld, ProcessPcs, EnginePcs, WorkerAwaits

\* A millisecond has a name of its own: there are more files than other
\* transcodings.
LEMMA FreshName ==
  ASSUME NamesInv, NEW i \in Files
  PROVE  \E s \in Files : \A j \in Files \ {i} : stamp[j] # s
<1> SUFFICES ASSUME \A s \in Files : \E j \in Files \ {i} : stamp[j] = s  PROVE FALSE
  OBVIOUS
<1> DEFINE others == Files \ {i}
           f == [j \in others |-> IF stamp[j] \in Files THEN stamp[j] ELSE i]
<1>1. IsFiniteSet(Files) /\ IsFiniteSet(others) /\ Cardinality(others) = Cardinality(Files) - 1
  BY UploadsPageConstants, FS_RemoveElement
<1>2. f \in Surjection(others, Files)
  <2>1. f \in [others -> Files]
    OBVIOUS
  <2>2. \A s \in Files : \E j \in others : f[j] = s
    OBVIOUS
  <2> QED  BY <2>1, <2>2 DEF Surjection
<1>3. Cardinality(Files) <= Cardinality(others)
  BY <1>1, <1>2, FS_Surjection DEF ExistsSurjection
<1>4. Cardinality(Files) \in Nat
  BY <1>1, FS_CardinalityType
<1> QED  BY <1>1, <1>3, <1>4

LEMMA StampsType ==
  ASSUME NamesInv, NEW i \in Files
  PROVE  \A s \in Stamps(i) : s \in Files
<1>1. (CHOOSE s \in Files : \A j \in Files \ {i} : stamp[j] # s) \in Files
  BY FreshName
<1>2. \A j \in Files : job[j].pc = "write" => stamp[j] \in Files
  BY HolderType DEF WorkerAwaits
<1> QED  BY <1>1, <1>2 DEF Stamps

LEMMA NamesKept ==
  ASSUME NamesInv, OffEngine, UNCHANGED <<hung, input, output, stamp>>,
         engine' = engine \/ Load
  PROVE  NamesInv'
<1>1. engine' \in {"idle", "loading", "ready", "failed", "stalled"}
  BY DEF NamesInv, Load
<1>2. \A i \in Files : job'[i] = job[i] \/ (job'[i].pc \notin EnginePcs /\ stamp[i] = None)
  BY HolderType DEF OffEngine
<1>3. \A i \in Files : /\ job'[i].pc \in {"exec"} \cup WorkerAwaits => stamp'[i] # None
                       /\ stamp'[i] # None => job'[i].pc \in {"exec", "unanswered"} \cup WorkerAwaits
  BY <1>2 DEF NamesInv, NamesHeld, EnginePcs, ProcessPcs, WorkerAwaits
<1>4. /\ engine = "ready" => engine' = "ready"
      /\ engine \in {"loading", "stalled"} => engine' \in {"loading", "stalled"}
  BY DEF Load
<1>5. \A i \in Files : job'[i].pc = "load" => engine' \in {"loading", "stalled"}
  BY <1>2, <1>4 DEF NamesInv, NamesHeld, EnginePcs, ProcessPcs
<1>6. \A i \in Files : stamp'[i] # None \/ job'[i].pc \in ProcessPcs \ {"load"} => engine' = "ready"
  BY <1>2, <1>4 DEF NamesInv, NamesHeld, EnginePcs
<1>7. BytesOfHolders'
  <2>1. \A name \in Files : input[name] # None =>
          stamp[input[name]] = name /\ job'[input[name]].pc # "rmOutput"
    <3> SUFFICES ASSUME NEW name \in Files, input[name] # None
                 PROVE  stamp[input[name]] = name /\ job'[input[name]].pc # "rmOutput"
      OBVIOUS
    <3>1. /\ input[name] \in Files /\ stamp[input[name]] = name /\ name # None
          /\ job[input[name]].pc # "rmOutput"
      BY HolderType DEF NamesInv, BytesOfHolders
    <3> QED  BY <1>2, <3>1
  <2> QED  BY <2>1 DEF NamesInv, BytesOfHolders
<1> QED  BY <1>1, <1>3, <1>5, <1>6, <1>7 DEF NamesInv, NamesHeld

\* A transcoding begins for a file that has no name, and takes one.
LEMMA NameTaken ==
  ASSUME NamesInv, ListOK, NEW i \in Files, Only(i), stamp[i] = None,
         job'[i].pc \in {"load", "reprobe", "write", "pass"},
         job'[i].pc = "load" => engine' \in {"loading", "stalled"},
         job'[i].pc # "load" => engine' = "ready",
         engine = "ready" => engine' = "ready",
         engine \in {"loading", "stalled"} => engine' \in {"loading", "stalled"},
         engine' \in {"loading", "ready", "stalled"},
         UNCHANGED <<hung, input, output>>,
         IF job'[i].pc = "write"
           THEN \E s \in Stamps(i) : stamp' = [stamp EXCEPT ![i] = s]
           ELSE UNCHANGED stamp
  PROVE  NamesInv'
<1>1. PICK s \in Files \cup {None} : /\ stamp' = [stamp EXCEPT ![i] = s]
                                     /\ s # None <=> job'[i].pc = "write"
  <2>1. stamp = [stamp EXCEPT ![i] = None] /\ None \notin Files
    BY UploadsPageConstants DEF NamesInv
  <2> QED  BY <2>1, StampsType
<1>2. /\ stamp' \in [Files -> Files \cup {None}] /\ stamp'[i] = s
      /\ \A j \in Files \ {i} : stamp'[j] = stamp[j]
  BY <1>1 DEF NamesInv
<1>3. \A j \in Files \ {i} : job'[j] = job[j]
  BY OnlyOthers
<1>4. \A j \in Files : /\ job'[j].pc \in {"exec"} \cup WorkerAwaits => stamp'[j] # None
                       /\ stamp'[j] # None => job'[j].pc \in {"exec", "unanswered"} \cup WorkerAwaits
  BY <1>1, <1>2, <1>3 DEF NamesInv, NamesHeld, WorkerAwaits
<1>5. \A j \in Files :
        /\ job'[j].pc = "load" => engine' \in {"loading", "stalled"}
        /\ stamp'[j] # None \/ job'[j].pc \in ProcessPcs \ {"load"} => engine' = "ready"
  BY <1>1, <1>2, <1>3 DEF NamesInv, NamesHeld
<1>6. BytesOfHolders'
  <2>1. \A name \in Files : name # None
    BY UploadsPageConstants
  <2>2. \A name, j \in Files : stamp[j] = name =>
          stamp'[j] = name /\ job'[j] = job[j]
    BY <1>2, <1>3, <2>1
  <2> QED  BY <2>2, HolderType DEF NamesInv, BytesOfHolders
<1> QED  BY <1>2, <1>4, <1>5, <1>6 DEF NamesInv, NamesHeld

LEMMA ProcessOneNames ==
  ASSUME StatusInv, NamesInv, NEW i \in Files, item[i] # NoItem, NEW preflight \in BOOLEAN,
         job[i].pc \notin EnginePcs, ProcessOne(i, preflight),
         UNCHANGED <<task, hung, input, output>>
  PROVE  NamesInv'
<1>1. Only(i) /\ ListOK /\ job'[i].pc = IF engine = "ready" THEN FirstAwait(i) ELSE "load"
  BY ProcessOneStatus DEF StatusInv
<1>2. stamp[i] = None /\ FirstAwait(i) \in {"reprobe", "write", "pass"}
  BY HolderType, FirstAwaitType
<1>3. engine' = IF engine \in {"ready", "stalled"} THEN engine ELSE "loading"
  BY DEF ProcessOne, Load
<1>4. IF job'[i].pc = "write"
        THEN \E s \in Stamps(i) : stamp' = [stamp EXCEPT ![i] = s]
        ELSE UNCHANGED stamp
  BY DEF ProcessOne
<1> QED  BY <1>1, <1>2, <1>3, <1>4, NameTaken

LEMMA EngineNames ==
  ASSUME StatusInv, NamesInv, EngineStep
  PROVE  NamesInv'
<1>1. /\ engine = "loading" /\ engine' \in {"ready", "failed", "stalled"}
      /\ UNCHANGED <<hung, input, output>>
  BY DEF EngineStep, EngineLoaded, EngineFailed, EngineStalls
<1>2. \A i \in Files : job[i].pc \notin ProcessPcs \ {"load"} /\ stamp[i] = None
  BY <1>1 DEF NamesInv, NamesHeld, ProcessPcs
<1>3. \A name \in Files : input[name] = None /\ output[name] = None
  BY <1>2, HolderType, UploadsPageConstants DEF NamesInv, BytesOfHolders
<1>4. BytesOfHolders'
  BY <1>1, <1>3 DEF BytesOfHolders
<1>5. CASE EngineLoaded
  <2>1. PICK now \in Files : stamp' = [i \in Files |-> IF job'[i].pc = "write" THEN now ELSE stamp[i]]
    BY <1>5 DEF EngineLoaded
  <2>2. /\ job' = [i \in Files |-> IF job[i].pc = "load" THEN At(FirstAwait(i)) ELSE job[i]]
        /\ engine' = "ready"
    BY <1>5 DEF EngineLoaded
  <2>3. \A i \in Files : At(FirstAwait(i)).pc \in {"reprobe", "write", "pass"}
    BY FirstAwaitType, JobType, PcsAre
  <2>4. \A i \in Files : job'[i].pc \notin {"load", "exec", "read", "rmInput", "rmOutput"}
    BY <1>2, <2>2, <2>3 DEF ProcessPcs
  <2>5. /\ stamp' \in [Files -> Files \cup {None}]
        /\ \A i \in Files : stamp'[i] # None <=> job'[i].pc = "write"
    BY <1>2, <2>1, UploadsPageConstants
  <2> QED  BY <1>1, <1>4, <2>2, <2>4, <2>5 DEF NamesInv, NamesHeld, WorkerAwaits
<1>6. CASE EngineFailed
  <2>1. /\ job' = [i \in Files |-> IF job[i].pc = "load" THEN NoJob ELSE job[i]]
        /\ stamp' = stamp
    BY <1>6 DEF EngineFailed
  <2>2. \A i \in Files : job'[i].pc \notin ProcessPcs
    BY <1>2, <2>1, JobType, PcsAre
  <2> QED  BY <1>1, <1>2, <1>4, <2>1, <2>2 DEF NamesInv, NamesHeld, ProcessPcs, WorkerAwaits
<1>7. CASE EngineStalls
  <2>1. UNCHANGED job /\ UNCHANGED stamp /\ engine' = "stalled"
    BY <1>7 DEF EngineStalls, pageVars
  <2> QED  BY <1>1, <1>2, <1>4, <2>1 DEF NamesInv, NamesHeld, ProcessPcs, WorkerAwaits
<1> QED  BY <1>5, <1>6, <1>7 DEF EngineStep

\* The end of a transcoding: its name is given back.
LEMMA NameGivenBack ==
  ASSUME NamesInv, ListOK, NEW i \in Files, Only(i), job[i].pc = "rmOutput",
         job'[i].pc \notin EnginePcs, UNCHANGED <<engine, hung, input>>,
         output' = [output EXCEPT ![stamp[i]] = None], stamp' = [stamp EXCEPT ![i] = None]
  PROVE  NamesInv'
<1>1. stamp[i] \in Files /\ None \notin Files
  BY HolderType DEF WorkerAwaits
<1>2. {input', output', stamp'} \subseteq [Files -> Files \cup {None}]
  BY <1>1 DEF NamesInv
<1>3. /\ stamp'[i] = None /\ \A j \in Files \ {i} : stamp'[j] = stamp[j] /\ job'[j] = job[j]
  BY OnlyOthers DEF NamesInv
<1>4. NamesHeld'
  BY <1>3 DEF NamesInv, NamesHeld, ProcessPcs, EnginePcs, WorkerAwaits
<1>5. ASSUME NEW name \in Files
      PROVE  /\ input'[name] # None =>
                  stamp'[input'[name]] = name /\ job'[input'[name]].pc # "rmOutput"
             /\ output'[name] # None => stamp'[output'[name]] = name
  <2>1. input[name] # None => input[name] \in Files \ {i}
    BY HolderType DEF NamesInv, BytesOfHolders
  <2>2. output'[name] # None => output[name] = output'[name] /\ output[name] \in Files \ {i}
    <3>1. CASE name = stamp[i]
      BY <1>1, <3>1 DEF NamesInv
    <3>2. CASE name # stamp[i]
      BY <3>2, HolderType DEF NamesInv, BytesOfHolders
    <3> QED  BY <3>1, <3>2
  <2> QED  BY <1>3, <2>1, <2>2 DEF NamesInv, BytesOfHolders
<1> QED  BY <1>2, <1>4, <1>5 DEF NamesInv, BytesOfHolders

\* A transcoding goes on, and writes no name.
LEMMA NamesGoOn ==
  ASSUME NamesInv, ListOK, NEW i \in Files, Only(i),
         job[i].pc \in ({"exec"} \cup WorkerAwaits) \ {"rmOutput"},
         job'[i].pc \in ({"exec"} \cup WorkerAwaits) \ {"rmOutput"},
         UNCHANGED <<engine, hung, input, output, stamp>>
  PROVE  NamesInv'
<1>1. \A j \in Files \ {i} : job'[j] = job[j]
  BY OnlyOthers
<1>2. NamesHeld'
  BY <1>1 DEF NamesInv, NamesHeld, ProcessPcs, WorkerAwaits
<1>3. BytesOfHolders'
  BY <1>1, HolderType DEF NamesInv, BytesOfHolders
<1> QED  BY <1>2, <1>3 DEF NamesInv

LEMMA ProcessSteps ==
  ASSUME StatusInv, NamesInv, NEW i \in Files, ProcessStep(i)
  PROVE  StatusInv' /\ NamesInv' /\ Quiet
<1>1. job[i].pc \in ProcessPcs \ {"load"} /\ ListOK
  BY DEF ProcessStep, Reprobed, ProbeFailed, InputWritten, Transcoded, OutputRead,
         TranscodingFailed, InputDeleted, OutputDeleted, PassedThrough, ProcessPcs, StatusInv
<1>2. /\ job[i].pc \notin UploadPcs /\ item[i].status \notin {"uploaded", "absent"}
      /\ engine = "ready" /\ item[i] # NoItem /\ job[i] \in Job
  BY <1>1, PcsAre, AtWork, Listed DEF NamesInv, NamesHeld, BusyStatuses
<1>3. ASSUME StatusInv', Only(i), item'[i].status # "uploaded"  PROVE Quiet
  BY <1>1, <1>2, <1>3, QuietStep
<1>4. ASSUME NEW c \in Job, c.pc \in ProcessPcs,
             UNCHANGED <<item, task>>, job' = [job EXCEPT ![i] = c]
      PROVE  StatusInv' /\ Only(i) /\ job'[i] = c /\ Quiet
  <2>1. StatusInv' /\ Only(i) /\ job'[i] = c
    BY <1>1, <1>4, TranscodingStatus
  <2>2. item'[i].status # "uploaded"
    BY <1>2, <1>4
  <2> QED  BY <1>3, <2>1, <2>2
<1>5. \A pc \in ProcessPcs : At(pc) \in Job /\ At(pc).pc = pc
  BY JobType, PcsAre
<1>6. CASE Reprobed(i)
  <2>1. PICK pc \in {"pass", "write"} :
          /\ job' = [job EXCEPT ![i] = At(pc)]
          /\ IF pc = "write" THEN \E s \in Stamps(i) : stamp' = [stamp EXCEPT ![i] = s]
                             ELSE UNCHANGED stamp
    BY <1>6 DEF Reprobed
  <2>2. UNCHANGED <<item, task>> /\ UNCHANGED <<hung, input, output>> /\ UNCHANGED engine
    BY <1>6 DEF Reprobed
  <2>3. pc \in ProcessPcs
    BY DEF ProcessPcs
  <2>4. StatusInv' /\ Only(i) /\ job'[i].pc = pc /\ Quiet
    BY <1>4, <1>5, <2>1, <2>2, <2>3
  <2>5. stamp[i] = None
    BY <1>6 DEF Reprobed, NamesInv, NamesHeld, WorkerAwaits
  <2>6. NamesInv'
    BY <1>1, <1>2, <2>1, <2>2, <2>4, <2>5, NameTaken
  <2> QED  BY <2>4, <2>6
<1>7. CASE ProbeFailed(i)
  <2>1. /\ StatusInv' /\ Only(i) /\ job'[i].pc = "idle"
        /\ item'[i].status = "processError"
    BY <1>1, <1>7, ProcessFailedStatus DEF ProbeFailed
  <2>2. \A j \in Files \ {i} : job'[j] = job[j]
    BY <1>1, <2>1, OnlyOthers
  <2>3. UNCHANGED <<engine, hung, input, output, stamp>> /\ job[i].pc = "reprobe"
    BY <1>7 DEF ProbeFailed, engineVars
  <2>4. NamesInv'
    BY <2>1, <2>2, <2>3 DEF NamesInv, NamesHeld, BytesOfHolders, ProcessPcs, WorkerAwaits
  <2> QED  BY <1>3, <2>1, <2>4
<1>8. CASE InputWritten(i)
  <2>1. StatusInv' /\ Only(i) /\ job'[i].pc = "exec" /\ Quiet
    BY <1>4, <1>5, <1>8 DEF InputWritten, ProcessPcs
  <2>2. /\ stamp[i] \in Files /\ input' = [input EXCEPT ![stamp[i]] = i]
        /\ UNCHANGED <<engine, hung, output, stamp>>
    BY <1>8, HolderType DEF InputWritten, InputName, WorkerAwaits
  <2>3. \A j \in Files \ {i} : job'[j] = job[j]
    BY <1>1, <2>1, OnlyOthers
  <2>4. NamesHeld'
    BY <1>2, <1>8, <2>1, <2>2, <2>3
    DEF InputWritten, NamesInv, NamesHeld, ProcessPcs, WorkerAwaits
  <2>5. BytesOfHolders' /\ input' \in [Files -> Files \cup {None}]
    BY <2>1, <2>2, <2>3, HolderType DEF NamesInv, BytesOfHolders
  <2> QED  BY <2>1, <2>2, <2>4, <2>5 DEF NamesInv
<1>9. CASE Transcoded(i)
  <2>1. StatusInv' /\ Only(i) /\ job'[i].pc = "read" /\ Quiet
    BY <1>4, <1>5, <1>9 DEF Transcoded, ProcessPcs
  <2> DEFINE bytes == input[stamp[i]]
  <2>2. /\ stamp[i] \in Files /\ output' = [output EXCEPT ![stamp[i]] = bytes]
        /\ bytes # None /\ UNCHANGED <<engine, hung, input, stamp>>
    BY <1>9, HolderType DEF Transcoded, InputName
  <2>3. bytes \in Files /\ stamp[bytes] = stamp[i]
    BY <2>2, HolderType DEF NamesInv, BytesOfHolders
  <2> HIDE DEF bytes
  <2>4. \A j \in Files \ {i} : job'[j] = job[j]
    BY <1>1, <2>1, OnlyOthers
  <2>5. NamesHeld'
    BY <1>2, <1>9, <2>1, <2>2, <2>4
    DEF Transcoded, NamesInv, NamesHeld, ProcessPcs, WorkerAwaits
  <2>6. BytesOfHolders' /\ output' \in [Files -> Files \cup {None}]
    BY <2>1, <2>2, <2>3, <2>4, HolderType DEF NamesInv, BytesOfHolders
  <2> QED  BY <2>1, <2>2, <2>5, <2>6 DEF NamesInv
<1>10. CASE OutputRead(i) \/ TranscodingFailed(i)
  <2>1. At("rmInput") \in Job /\ At("rmInput").pc = "rmInput" /\ "rmInput" \in ProcessPcs
    BY <1>5 DEF ProcessPcs
  <2>2. PICK c \in Job : c.pc = "rmInput" /\ job' = [job EXCEPT ![i] = c]
    <3>1. CASE OutputRead(i)
      <4> DEFINE bytes == output[stamp[i]]
                 c == [At("rmInput") EXCEPT !.bytes = bytes]
      <4>1. bytes \in Files \cup {None}
        BY <3>1, HolderType DEF OutputRead, WorkerAwaits
      <4> HIDE DEF bytes
      <4>2. c \in Job /\ c.pc = "rmInput"
        BY <2>1, <4>1 DEF Job
      <4>3. job' = [job EXCEPT ![i] = c]
        BY <3>1 DEF OutputRead, bytes
      <4> QED  BY <4>2, <4>3
    <3>2. CASE TranscodingFailed(i)
      BY <2>1, <3>2 DEF TranscodingFailed
    <3> QED  BY <1>10, <3>1, <3>2
  <2>4. /\ UNCHANGED <<item, task>> /\ UNCHANGED <<engine, hung, input, output, stamp>>
        /\ job[i].pc \in {"write", "exec", "read"}
    BY <1>10 DEF OutputRead, TranscodingFailed, engineVars
  <2>5. StatusInv' /\ Only(i) /\ job'[i] = c /\ Quiet
    BY <1>4, <2>1, <2>2, <2>4
  <2>6. NamesInv'
    BY <1>1, <2>2, <2>4, <2>5, NamesGoOn DEF WorkerAwaits
  <2> QED  BY <2>5, <2>6
<1>11. CASE InputDeleted(i)
  <2> DEFINE c == WithPc(job[i], "rmOutput")
  <2>1. c \in Job /\ c.pc = "rmOutput" /\ "rmOutput" \in ProcessPcs
    BY <1>2, JobType DEF Pcs, ProcessPcs
  <2>2. job' = [job EXCEPT ![i] = c] /\ UNCHANGED <<item, task>>
    BY <1>11 DEF InputDeleted, WithPc
  <2> HIDE DEF c
  <2>3. StatusInv' /\ Only(i) /\ job'[i] = c /\ Quiet
    BY <1>4, <2>1, <2>2
  <2>4. /\ stamp[i] \in Files /\ input' = [input EXCEPT ![stamp[i]] = None]
        /\ UNCHANGED <<engine, hung, output, stamp>> /\ None \notin Files
    BY <1>11, HolderType DEF InputDeleted, InputName, WorkerAwaits
  <2>5. \A j \in Files \ {i} : job'[j] = job[j]
    BY <1>1, <2>3, OnlyOthers
  <2>6. NamesHeld'
    BY <1>2, <1>11, <2>1, <2>3, <2>4, <2>5
    DEF InputDeleted, NamesInv, NamesHeld, ProcessPcs, WorkerAwaits
  <2>7. \A name \in Files : input'[name] # None =>
          input'[name] = input[name] /\ input[name] \in Files \ {i}
    <3> SUFFICES ASSUME NEW name \in Files, input'[name] # None
                 PROVE  input'[name] = input[name] /\ input[name] \in Files \ {i}
      OBVIOUS
    <3>1. name # stamp[i] /\ input'[name] = input[name]
      BY <2>4 DEF NamesInv
    <3> QED  BY <3>1, HolderType DEF NamesInv, BytesOfHolders
  <2>8. BytesOfHolders' /\ input' \in [Files -> Files \cup {None}]
    BY <2>4, <2>5, <2>7 DEF NamesInv, BytesOfHolders
  <2> QED  BY <2>3, <2>4, <2>6, <2>8 DEF NamesInv
<1>12. CASE OutputDeleted(i)
  <2>1. /\ StatusInv' /\ Only(i) /\ job'[i].pc \in {"preflight", "idle"}
        /\ item'[i].status \in {"uploading", "processed", "processError"}
    <3>1. CASE job[i].bytes = None
      BY <1>1, <1>12, <3>1, ProcessFailedStatus DEF OutputDeleted
    <3>2. CASE job[i].bytes # None
      <4> DEFINE bytes == job[i].bytes
      <4>1. bytes \in Files /\ UploadProcessed(i, bytes)
        BY <1>2, <1>12, <3>2 DEF OutputDeleted, Job
      <4> HIDE DEF bytes
      <4> QED  BY <1>1, <4>1, ProcessedStatus
    <3> QED  BY <3>1, <3>2
  <2>2. job'[i].pc \notin EnginePcs
    BY <2>1, PcsAre DEF UploadPcs
  <2>3. NamesInv'
    BY <1>1, <1>12, <2>1, <2>2, NameGivenBack DEF OutputDeleted
  <2> QED  BY <1>3, <2>1, <2>3
<1>13. CASE PassedThrough(i)
  <2>1. /\ StatusInv' /\ Only(i) /\ job'[i].pc \in {"preflight", "idle"}
        /\ item'[i].status \in {"uploading", "processed"}
    BY <1>1, <1>13, ProcessedStatus DEF PassedThrough
  <2>2. \A j \in Files \ {i} : job'[j] = job[j]
    BY <1>1, <2>1, OnlyOthers
  <2>3. UNCHANGED <<engine, hung, input, output, stamp>>
    BY <1>13 DEF PassedThrough, engineVars
  <2>4. NamesInv'
    BY <1>13, <2>1, <2>2, <2>3
    DEF PassedThrough, NamesInv, NamesHeld, BytesOfHolders, ProcessPcs, WorkerAwaits
  <2> QED  BY <1>3, <2>1, <2>4
<1> QED  BY <1>6, <1>7, <1>8, <1>9, <1>10, <1>11, <1>12, <1>13 DEF ProcessStep

-----------------------------------------------------------------------------
(***************************************************************************)
(* The rows and the sessions.                                              *)
(***************************************************************************)
LEMMA ServerKept ==
  ASSUME ServerInv, Quiet, UNCHANGED session,
         rows' \in [Files -> Nat], unheard' \in [Files -> BOOLEAN],
         \A j \in Files : rows'[j] = 0 \/ (rows'[j] = rows[j] /\ unheard'[j] = unheard[j])
  PROVE  ServerInv'
BY DEF ServerInv, RowsHeardOf, Quiet

LEMMA AddServer ==
  ASSUME ServerInv, Quiet, NEW i \in Files, NEW kind, Add(i, kind)
  PROVE  ServerInv'
<1>1. /\ rows' = [rows EXCEPT ![i] = 0] /\ unheard' = [unheard EXCEPT ![i] = FALSE]
      /\ UNCHANGED session
  BY DEF Add
<1>2. rows' \in [Files -> Nat] /\ unheard' \in [Files -> BOOLEAN]
  BY <1>1 DEF ServerInv
<1>3. \A j \in Files : rows'[j] = 0 \/ (rows'[j] = rows[j] /\ unheard'[j] = unheard[j])
  BY <1>1 DEF ServerInv
<1> QED  BY <1>1, <1>2, <1>3, ServerKept

\* The steps of an upload that show the file as uploaded.
LEMMA UploadShows ==
  ASSUME StatusInv, NEW i \in Files, UploadStep(i), item'[i].status = "uploaded"
  PROVE  PreflightRefused(i) \/ CompleteAnswered(i)
<1>1. job[i].pc \in UploadPcs
  BY UploadStatus
<1>2. item[i] \in Item /\ item[i].status = "uploading" /\ ListOK
  BY <1>1, InUpload
<1>3. ~Catch(i)
  BY <1>1, CatchStep
<1>4. ~Rejected(i) /\ item' # item
  BY <1>2 DEF Rejected, ListOK, Item
<1> QED  BY <1>3, <1>4
         DEF UploadStep, PreflightAccepted, InitAnswered, OpenSession, InitAnswerLost, PartStored, PartSigned,
             PartRetried, BackoffOver, CompleteAnswerLost, CompleteSession, CallFailed, AbortAnswered, AbortSession, AbortFailed

LEMMA UploadServer ==
  ASSUME StatusInv, ServerInv, NEW i \in Files, UploadStep(i)
  PROVE  ServerInv'
<1>1. /\ StatusInv' /\ Only(i) /\ job[i].pc \in UploadPcs /\ ListOK
  BY UploadStatus DEF StatusInv
<1>2. /\ item[i].status = "uploading" /\ item[i] \in Item
      /\ \A j \in Files \ {i} : item'[j] = item[j]
  BY <1>1, InUpload, OnlyOthers
<1> DEFINE Written == /\ rows' \in [Files -> Nat]
                      /\ \A j \in Files \ {i} : rows'[j] = rows[j]
<1>3. ASSUME rows' = [rows EXCEPT ![i] = @ + 1]  PROVE Written
  BY <1>3 DEF ServerInv
<1> HIDE DEF Written
<1>4. CASE CompleteAnswered(i)
  <2>1. /\ rows' = [rows EXCEPT ![i] = @ + 1] /\ UNCHANGED unheard
        /\ session' = [session EXCEPT ![task[i].session] = "closed"]
        /\ item' = [item EXCEPT ![i].status = "uploaded"]
    BY <1>4 DEF CompleteAnswered, CompleteSession, Resolved
  <2>2. item'[i].status = "uploaded"
    BY <1>1, <1>2, <2>1 DEF ListOK, Item
  <2>3. Written
    BY <1>3, <2>1
  <2> QED  BY <1>2, <2>1, <2>2, <2>3 DEF ServerInv, RowsHeardOf, Written
<1>5. CASE CompleteAnswerLost(i)
  <2>1. /\ rows' = [rows EXCEPT ![i] = @ + 1] /\ unheard' = [unheard EXCEPT ![i] = TRUE]
        /\ session' = [session EXCEPT ![task[i].session] = "closed"]
    BY <1>5 DEF CompleteAnswerLost, CompleteSession
  <2>2. Written
    BY <1>3, <2>1
  <2> QED  BY <1>2, <2>1, <2>2 DEF ServerInv, RowsHeardOf, Written
<1>6. CASE ~CompleteAnswered(i) /\ ~CompleteAnswerLost(i)
  <2>1. UNCHANGED <<rows, unheard>>
    BY <1>6 DEF UploadStep, PreflightAccepted, PreflightRefused, InitAnswered, OpenSession, InitAnswerLost,
                PartStored, PartSigned, PartRetried, BackoffOver, CallFailed, AbortAnswered, AbortSession,
                AbortFailed, serverVars
  <2>2. session' \in [Uploads -> {"unused", "open", "closed", "expired"}]
    BY <1>6 DEF ServerInv, UploadStep, PreflightAccepted, PreflightRefused, InitAnswered, OpenSession,
                InitAnswerLost, OpenSession, PartStored, PartSigned, PartRetried, BackoffOver, CallFailed,
                AbortAnswered, AbortSession, AbortFailed, serverVars
  <2> QED  BY <1>2, <2>1, <2>2 DEF ServerInv, RowsHeardOf
<1> QED  BY <1>4, <1>5, <1>6

-----------------------------------------------------------------------------
\* What nobody on the page does.
LEMMA ReloadInv ==
  ASSUME PageInv, Reload
  PROVE  PageInv'
<1>1. ListOK'
  BY ItemType, TaskType, JobType DEF Reload, ListOK
<1>2. \A i \in Files : FileOK(item'[i], task'[i], job'[i])
  BY ItemType, TaskType, JobType, PcsAre DEF Reload, FileOK, BusyStatuses
<1>3. StatusInv'
  BY <1>1, <1>2 DEF StatusInv, BusyWhileInFlight, FileOK
<1>4. NamesInv'
  <2>1. \A i \in Files : /\ input'[i] = None /\ output'[i] = None /\ stamp'[i] = None
                         /\ job'[i].pc = "idle"
    BY JobType DEF Reload
  <2>2. /\ engine' = "idle" /\ hung' = FALSE
        /\ {input', output', stamp'} \subseteq [Files -> Files \cup {None}]
    BY DEF Reload
  <2>3. NamesHeld' /\ BytesOfHolders'
    BY <2>1 DEF NamesHeld, BytesOfHolders, ProcessPcs, WorkerAwaits
  <2> QED  BY <2>2, <2>3 DEF NamesInv
<1>5. ServerInv'
  BY ItemType, PageInvParts DEF Reload, ServerInv, RowsHeardOf, serverVars
<1> QED  BY <1>3, <1>4, <1>5, PageInvNext

LEMMA ExpiryInv ==
  ASSUME PageInv, NEW u \in Uploads, SessionExpires(u)
  PROVE  PageInv'
<1>1. UNCHANGED <<item, task, job, engine, hung, input, output, stamp, rows, unheard>>
  BY DEF SessionExpires, pageVars, engineVars
<1>2. session' \in [Uploads -> {"unused", "open", "closed", "expired"}]
  BY DEF SessionExpires, PageInv, TypeOK
<1> QED  BY <1>1, <1>2
         DEF PageInv, TypeOK, BusyWhileInFlight, NamesHeld, BytesOfHolders, RowsHeardOf

LEMMA NeverAnsweredInv ==
  ASSUME PageInv, NEW i \in Files, NeverAnswered(i)
  PROVE  /\ PageInv' /\ item[i].status \in BusyStatuses
         /\ \A j \in Files : rows'[j] = rows[j] \/ (j = i /\ job[i].pc = "complete")
<1>1. StatusInv /\ NamesInv /\ ServerInv
  BY PageInvParts
<1>2. /\ job[i].pc \in {"probe", "check", "exec"} \cup ProcessPcs \cup UploadPcs
      /\ job[i].pc # "idle" /\ item[i].status \in BusyStatuses
  <2>1. job[i].pc \in {"probe", "check"} \cup ProcessPcs \cup UploadPcs
    BY DEF NeverAnswered, NetworkAwaits, WorkerAwaits, ProcessPcs, UploadPcs
  <2> QED  BY <1>1, <2>1, PcsAre, AtWork
<1> DEFINE a == item[i]
           b == task[i]
           c == At("unanswered")
<1>3. /\ FileOK(a, b, job[i]) /\ item = [item EXCEPT ![i] = a]
      /\ task = [task EXCEPT ![i] = b]
  BY <1>1, Own
<1>4. c \in Job /\ c.pc = "unanswered"
  BY JobType DEF Pcs
<1>5. FileOK(a, b, c)
  BY <1>2, <1>3, <1>4, PcsAre DEF FileOK
<1>6. /\ item' = [item EXCEPT ![i] = a] /\ task' = [task EXCEPT ![i] = b]
      /\ job' = [job EXCEPT ![i] = c]
  BY <1>3 DEF NeverAnswered
<1> HIDE DEF a, b, c
<1>7. StatusInv' /\ Only(i) /\ job'[i].pc = "unanswered"
  BY <1>1, <1>4, <1>5, <1>6, OneFile
<1>8. \A j \in Files \ {i} : job'[j] = job[j]
  BY <1>1, <1>7, OnlyOthers DEF StatusInv
<1>9. UNCHANGED <<item, engine, hung, input, output, stamp>>
  BY DEF NeverAnswered, engineVars
<1>10. NamesInv'
  <2>1. NamesHeld'
    BY <1>1, <1>7, <1>8, <1>9 DEF NamesInv, NamesHeld, ProcessPcs, WorkerAwaits
  <2>2. BytesOfHolders'
    BY <1>1, <1>7, <1>8, <1>9, HolderType DEF NamesInv, BytesOfHolders
  <2> QED  BY <1>1, <1>9, <2>1, <2>2 DEF NamesInv
<1>11. /\ session' \in [Uploads -> {"unused", "open", "closed", "expired"}]
       /\ \/ UNCHANGED <<rows, unheard>>
          \/ /\ rows' = [rows EXCEPT ![i] = @ + 1] /\ job[i].pc = "complete"
             /\ unheard' = [unheard EXCEPT ![i] = TRUE]
  <2>1. CASE UNCHANGED serverVars
    BY <1>1, <2>1 DEF ServerInv, serverVars
  <2>2. CASE OpenSession(i) \/ AbortSession(i)
    BY <1>1, <2>2 DEF ServerInv, OpenSession, AbortSession
  <2>3. CASE CompleteSession(i, FALSE)
    BY <1>1, <2>3 DEF ServerInv, CompleteSession
  <2> QED  BY <2>1, <2>2, <2>3 DEF NeverAnswered
<1>12. /\ rows' \in [Files -> Nat] /\ unheard' \in [Files -> BOOLEAN]
       /\ \A j \in Files : rows'[j] = rows[j] \/ (j = i /\ job[i].pc = "complete" /\ unheard'[i])
       /\ \A j \in Files : unheard[j] => unheard'[j]
  <2>1. rows \in [Files -> Nat] /\ unheard \in [Files -> BOOLEAN]
    BY <1>1 DEF ServerInv
  <2>2. CASE UNCHANGED <<rows, unheard>>
    BY <2>1, <2>2
  <2>3. CASE /\ rows' = [rows EXCEPT ![i] = @ + 1] /\ job[i].pc = "complete"
             /\ unheard' = [unheard EXCEPT ![i] = TRUE]
    <3>1. rows' \in [Files -> Nat] /\ \A j \in Files : j # i => rows'[j] = rows[j]
      BY <2>1, <2>3
    <3>2. unheard' \in [Files -> BOOLEAN] /\ unheard'[i]
      BY <2>1, <2>3
    <3>3. \A j \in Files : unheard[j] => unheard'[j]
      BY <2>1, <2>3
    <3> QED  BY <2>3, <3>1, <3>2, <3>3
  <2> QED  BY <1>11, <2>2, <2>3
<1>13. ServerInv'
  BY <1>1, <1>9, <1>11, <1>12 DEF ServerInv, RowsHeardOf
<1> QED  BY <1>2, <1>7, <1>10, <1>12, <1>13, PageInvNext

\* Every step is one of the upload of a file, or leaves what is uploaded, and
\* what is shown of it, alone, or is nobody's on the page.
LEMMA PageSteps ==
  ASSUME PageInv, GalleryNext
  PROVE  /\ PageInv'
         /\ \/ \E i \in Files : UploadStep(i)
            \/ Reload
            \/ \E u \in Uploads : SessionExpires(u)
            \/ \E i \in Files : NeverAnswered(i)
            \/ /\ Quiet /\ UNCHANGED session
               /\ \A j \in Files : rows'[j] \in {0, rows[j]}
<1>1. StatusInv /\ NamesInv /\ ServerInv /\ rows \in [Files -> Nat]
  BY PageInvParts DEF ServerInv
<1>2. ASSUME NEW i \in Files, UploadStep(i)  PROVE PageInv'
  <2>1. /\ StatusInv' /\ Only(i) /\ job[i].pc \in UploadPcs
        /\ job'[i].pc \in UploadPcs \cup {"idle"} /\ ListOK
    BY <1>1, <1>2, UploadStatus DEF StatusInv
  <2>2. OffEngine
    BY <2>1, PcsAre, OffEngineStep
  <2>3. UNCHANGED engineVars
    BY <1>2 DEF UploadStep, PreflightAccepted, PreflightRefused, InitAnswered, OpenSession, InitAnswerLost,
                PartStored, PartSigned, PartRetried, BackoffOver, CompleteAnswered, CompleteSession,
                CompleteAnswerLost, CompleteSession, CallFailed, AbortAnswered, AbortSession, AbortFailed
  <2>4. NamesInv'
    BY <1>1, <2>2, <2>3, NamesKept DEF engineVars
  <2>5. ServerInv'
    BY <1>1, <1>2, UploadServer
  <2> QED  BY <2>1, <2>4, <2>5, PageInvNext
<1>3. ASSUME StatusInv', NamesInv', Quiet, UNCHANGED serverVars
      PROVE  PageInv' /\ Quiet /\ UNCHANGED session /\ \A j \in Files : rows'[j] \in {0, rows[j]}
  <2>1. ServerInv'
    BY <1>1, <1>3, ServerKept DEF serverVars, ServerInv
  <2>2. UNCHANGED <<session, rows, unheard>>
    BY <1>3 DEF serverVars
  <2> QED  BY <1>3, <2>1, <2>2, PageInvNext
<1>4. ASSUME StatusInv', Quiet, OffEngine, UNCHANGED engineVars, UNCHANGED serverVars
      PROVE  PageInv' /\ Quiet /\ UNCHANGED session /\ \A j \in Files : rows'[j] \in {0, rows[j]}
  <2>1. NamesInv'
    BY <1>1, <1>4, NamesKept DEF engineVars
  <2> QED  BY <1>3, <1>4, <2>1
<1>5. ASSUME NEW i \in Files, NEW kind \in Kinds[i], Add(i, kind)
      PROVE  PageInv' /\ Quiet /\ UNCHANGED session /\ \A j \in Files : rows'[j] \in {0, rows[j]}
  <2>1. StatusInv' /\ Quiet /\ OffEngine
    BY <1>1, <1>5, AddStatus
  <2>2. ServerInv' /\ UNCHANGED session
    BY <1>1, <1>5, <2>1, AddServer DEF Add
  <2>3. UNCHANGED <<hung, input, output, stamp>> /\ (engine' = engine \/ Load)
    BY <1>5 DEF Add
  <2>4. NamesInv'
    BY <1>1, <2>1, <2>3, NamesKept
  <2>5. \A j \in Files : rows'[j] \in {0, rows[j]}
    BY <1>1, <1>5 DEF Add
  <2> QED  BY <2>1, <2>2, <2>4, <2>5, PageInvNext
<1>6. ASSUME NEW i \in Files, Recheck(i) \/ Upload(i) \/ Remove(i) \/ Probed(i)
      PROVE  PageInv' /\ Quiet /\ UNCHANGED session /\ \A j \in Files : rows'[j] \in {0, rows[j]}
  <2>1. StatusInv' /\ Quiet /\ OffEngine
    BY <1>1, <1>6, CheckStatus, UploadClicked, RemoveStatus
  <2>2. UNCHANGED engineVars /\ UNCHANGED serverVars
    BY <1>6 DEF Recheck, Upload, Remove, Probed
  <2> QED  BY <1>4, <2>1, <2>2
<1>7. ASSUME RecheckAll \/ UploadAll \/ Clear
      PROVE  PageInv' /\ Quiet /\ UNCHANGED session /\ \A j \in Files : rows'[j] \in {0, rows[j]}
  <2>1. StatusInv' /\ Quiet /\ OffEngine
    BY <1>1, <1>7, RecheckAllStatus, UploadAllStatus, ClearStatus
  <2>2. UNCHANGED engineVars /\ UNCHANGED serverVars
    BY <1>7 DEF RecheckAll, UploadAll, Clear
  <2> QED  BY <1>4, <2>1, <2>2
<1>8. ASSUME NEW i \in Files, RetryProcessing(i)
      PROVE  PageInv' /\ Quiet /\ UNCHANGED session /\ \A j \in Files : rows'[j] \in {0, rows[j]}
  <2>1. /\ StatusInv' /\ Quiet /\ item[i] # NoItem
        /\ job[i].pc \notin EnginePcs /\ item[i].preflight \in BOOLEAN
    BY <1>1, <1>8, RetryStatus
  <2>2. ProcessOne(i, item[i].preflight) /\ UNCHANGED <<task, hung, input, output>>
        /\ UNCHANGED serverVars
    BY <1>8 DEF RetryProcessing
  <2>3. NamesInv'
    BY <1>1, <2>1, <2>2, ProcessOneNames
  <2> QED  BY <1>3, <2>1, <2>2, <2>3
<1>9. ASSUME NEW i \in Files, Checked(i) \/ CheckFailed(i)
      PROVE  PageInv' /\ Quiet /\ UNCHANGED session /\ \A j \in Files : rows'[j] \in {0, rows[j]}
  <2>1. /\ StatusInv' /\ Quiet /\ item[i] # NoItem /\ job[i].pc \notin EnginePcs
        /\ \/ OffEngine /\ UNCHANGED engineVars
           \/ ProcessOne(i, TRUE) /\ UNCHANGED <<task, hung, input, output>>
    BY <1>1, <1>9, CheckEndsStatus
  <2>2. UNCHANGED serverVars
    BY <1>9 DEF Checked, CheckFailed
  <2>3. CASE OffEngine /\ UNCHANGED engineVars
    BY <1>4, <2>1, <2>2, <2>3
  <2>4. CASE ProcessOne(i, TRUE) /\ UNCHANGED <<task, hung, input, output>>
    <3>1. NamesInv'
      BY <1>1, <2>1, <2>4, ProcessOneNames
    <3> QED  BY <1>3, <2>1, <2>2, <3>1
  <2> QED  BY <2>1, <2>3, <2>4
<1>10. ASSUME EngineStep
       PROVE  PageInv' /\ Quiet /\ UNCHANGED session /\ \A j \in Files : rows'[j] \in {0, rows[j]}
  <2>1. StatusInv' /\ Quiet /\ NamesInv'
    BY <1>1, <1>10, EngineStatus, EngineNames
  <2>2. UNCHANGED serverVars
    BY <1>10 DEF EngineStep, EngineLoaded, EngineFailed, EngineStalls
  <2> QED  BY <1>3, <2>1, <2>2
<1>11. ASSUME NEW i \in Files, ProcessStep(i)
       PROVE  PageInv' /\ Quiet /\ UNCHANGED session /\ \A j \in Files : rows'[j] \in {0, rows[j]}
  <2>1. StatusInv' /\ Quiet /\ NamesInv'
    BY <1>1, <1>11, ProcessSteps
  <2>2. UNCHANGED serverVars
    BY <1>11 DEF ProcessStep, Reprobed, ProbeFailed, InputWritten, Transcoded, OutputRead,
                 TranscodingFailed, InputDeleted, OutputDeleted, PassedThrough
  <2> QED  BY <1>3, <2>1, <2>2
<1>12. ASSUME WorkerHangs
       PROVE  PageInv' /\ Quiet /\ UNCHANGED session /\ \A j \in Files : rows'[j] \in {0, rows[j]}
  <2>1. /\ UNCHANGED <<item, task, job, engine, input, output, stamp>> /\ hung' = TRUE
        /\ UNCHANGED serverVars
    BY <1>12 DEF WorkerHangs, pageVars
  <2>2. StatusInv' /\ Quiet
    BY <1>1, <2>1 DEF StatusInv, ListOK, BusyWhileInFlight, Quiet
  <2>3. NamesInv'
    BY <1>1, <2>1 DEF NamesInv, NamesHeld, BytesOfHolders
  <2> QED  BY <1>3, <2>1, <2>2, <2>3
<1> QED  BY <1>2, <1>5, <1>6, <1>7, <1>8, <1>9, <1>10, <1>11, <1>12, ReloadInv, ExpiryInv,
            NeverAnsweredInv
         DEF GalleryNext, UserStep, Continue

LEMMA InitPage == GalleryInit => PageInv
<1> SUFFICES ASSUME GalleryInit  PROVE PageInv
  OBVIOUS
<1>1. ListOK
  BY ItemType, TaskType, JobType DEF GalleryInit, ListOK
<1>2. \A i \in Files : FileOK(item[i], task[i], job[i])
  BY ItemType, TaskType, JobType, PcsAre DEF GalleryInit, FileOK, BusyStatuses
<1>3. NamesInv
  <2>1. \A i \in Files : /\ input[i] = None /\ output[i] = None /\ stamp[i] = None
                         /\ job[i].pc = "idle"
    BY JobType DEF GalleryInit
  <2>2. /\ engine = "idle" /\ hung = FALSE
        /\ {input, output, stamp} \subseteq [Files -> Files \cup {None}]
    BY DEF GalleryInit
  <2>3. NamesHeld /\ BytesOfHolders
    BY <2>1 DEF NamesHeld, BytesOfHolders, ProcessPcs, WorkerAwaits
  <2> QED  BY <2>2, <2>3 DEF NamesInv
<1>4. ServerInv
  BY DEF GalleryInit, ServerInv, RowsHeardOf
<1> QED  BY <1>1, <1>2, <1>3, <1>4, StatusOfFiles, PageInvParts

\* The status of a file says what is in flight for it, whatever the user
\* clicks and however calls and transcodings end (isBusy, uploadOne,
\* processOne, processVideo, executeDirectUpload).
THEOREM StatusTellsWhatIsInFlight == GallerySpec => []PageInv
<1>1. PageInv /\ [GalleryNext]_galleryVars => PageInv'
  <2> SUFFICES ASSUME PageInv, [GalleryNext]_galleryVars  PROVE PageInv'
    OBVIOUS
  <2>1. CASE UNCHANGED galleryVars
    BY <2>1 DEF galleryVars, pageVars, engineVars, serverVars, PageInv, TypeOK,
                BusyWhileInFlight, NamesHeld, BytesOfHolders, RowsHeardOf
  <2> QED  BY <2>1, PageSteps
<1> QED  BY <1>1, InitPage, PTL DEF GallerySpec

-----------------------------------------------------------------------------
\* A step of the upload of file i leaves a session without anybody at work on
\* it only when an answer of init is lost or an abort fails.
LEMMA UploadAttends ==
  ASSUME StatusInv, ServerInv, NEW i \in Files, UploadStep(i),
         ~InitAnswerLost(i), ~AbortFailed(i),
         NEW u \in Uploads, Attended(u)
  PROVE  Attended(u)'
<1> DEFINE Working == UploadPcs \ {"preflight", "init"}
<1>1. /\ Only(i) /\ job[i].pc \in UploadPcs /\ ListOK
      /\ \A j \in Files \ {i} : task'[j] = task[j] /\ job'[j] = job[j]
  BY UploadStatus, OnlyOthers DEF StatusInv
<1>2. task[i] \in Task /\ job[i] \in Job
  BY <1>1, InUpload
<1>3. ASSUME task'[i].session = task[i].session, job'[i].pc \in Working,
             session'[u] \in {session[u], "unused", "closed"}
      PROVE  Attended(u)'
  BY <1>1, <1>3 DEF Attended
<1>4. ASSUME job[i].pc \notin Working, UNCHANGED session  PROVE Attended(u)'
  BY <1>1, <1>4 DEF Attended
<1>5. CASE PreflightAccepted(i)
  BY <1>4, <1>5 DEF PreflightAccepted, serverVars
<1>6. CASE PreflightRefused(i)
  BY <1>4, <1>6 DEF PreflightRefused, serverVars
<1>7. CASE InitAnswered(i)
  <2>1. NextUpload \in Uploads /\ session' = [session EXCEPT ![NextUpload] = "open"]
    BY <1>7, UnusedUpload DEF InitAnswered, OpenSession
  <2>2. task'[i].session = NextUpload /\ job'[i].pc \in Working
    <3> DEFINE n == NextUpload
    <3> HIDE DEF n
    <3>1. task' = [task EXCEPT ![i].session = n, ![i].phase = "uploading"]
          /\ job' = [job EXCEPT ![i] = At("part")]
      BY <1>7 DEF InitAnswered, OpenSession, StoreSession, n
    <3>2. task'[i].session = n /\ job'[i] = At("part")
      BY <1>1, <1>2, <3>1 DEF ListOK, Task
    <3>3. "part" \in Pcs /\ "part" \in Working
      BY DEF Pcs, UploadPcs
    <3> QED  BY <3>2, <3>3, JobType DEF n
  <2>3. CASE u = NextUpload
    <3>1. session'[u] = "open"
      BY <2>1, <2>3 DEF ServerInv
    <3> QED  BY <2>2, <2>3, <3>1 DEF Attended
  <2>4. CASE u # NextUpload
    <3>1. session'[u] = session[u]
      BY <2>1, <2>4
    <3>2. job[i].pc = "init"
      BY <1>7 DEF InitAnswered, OpenSession
    <3> QED  BY <1>1, <3>1, <3>2 DEF Attended
  <2> QED  BY <2>3, <2>4
<1>8. CASE PartStored(i)
  <2>1. task'[i].session = task[i].session /\ UNCHANGED session
    BY <1>1, <1>2, <1>8 DEF PartStored, ListOK, Task, serverVars
  <2>2. job'[i].pc \in Working
    <3>1. job'[i] \in {At("complete"), [At("sign") EXCEPT !.part = job[i].part + 1]}
      BY <1>1, <1>8 DEF PartStored, ListOK
    <3> QED  BY <3>1 DEF At, NoJob, UploadPcs
  <2> QED  BY <1>3, <2>1, <2>2
<1>9. CASE PartSigned(i) \/ PartRetried(i) \/ BackoffOver(i)
  <2>1. UNCHANGED task /\ UNCHANGED session
    BY <1>9 DEF PartSigned, PartRetried, BackoffOver, serverVars
  <2>2. job'[i].pc \in {"part", "backoff"}
    BY <1>1, <1>2, <1>9 DEF PartSigned, PartRetried, BackoffOver, ListOK, Job
  <2> QED  BY <1>3, <2>1, <2>2 DEF UploadPcs
<1>10. ASSUME NEW s, session' = [session EXCEPT ![task[i].session] = s],
              s = "closed" \/ (s = session[task[i].session] /\ s # "open")
       PROVE  Attended(u)'
  <2>1. CASE task[i].session = u
    BY <1>10, <2>1 DEF ServerInv, Attended
  <2>2. CASE task[i].session # u
    <3>1. session'[u] = session[u]
      BY <1>10, <2>2 DEF ServerInv
    <3> QED  BY <1>1, <2>2, <3>1 DEF Attended
  <2> QED  BY <2>1, <2>2
<1>11. CASE CompleteAnswered(i) \/ CompleteAnswerLost(i)
  BY <1>10, <1>11 DEF CompleteAnswered, CompleteSession, CompleteAnswerLost, CompleteSession
<1>12. CASE AbortAnswered(i)
  <2> DEFINE s == IF session[task[i].session] = "open" THEN "closed"
                  ELSE session[task[i].session]
  <2>1. /\ session' = [session EXCEPT ![task[i].session] = s]
        /\ s = "closed" \/ (s = session[task[i].session] /\ s # "open")
    BY <1>12 DEF AbortAnswered, AbortSession
  <2> HIDE DEF s
  <2> QED  BY <1>10, <2>1
<1>13. CASE CallFailed(i)
  <2>1. Catch(i) /\ UNCHANGED session
    BY <1>13 DEF CallFailed, serverVars
  <2>2. /\ task'[i].session = task[i].session
        /\ job'[i].pc = IF task[i].session = None THEN "idle" ELSE "abort"
    BY <1>1, <2>1, CatchStep
  <2>3. CASE task[i].session = None
    BY <1>1, <2>1, <2>3, UploadsPageConstants DEF Attended
  <2>4. CASE task[i].session # None
    BY <1>3, <2>1, <2>2, <2>4 DEF UploadPcs
  <2> QED  BY <2>3, <2>4
<1> QED  BY <1>5, <1>6, <1>7, <1>8, <1>9, <1>11, <1>12, <1>13 DEF UploadStep

\* The uploads page gives every reservation of the server back, but for the
\* one whose init was not answered, the one whose abort failed, the one that
\* waits for an answer for ever, the one that a reload forgets, and the one
\* that lasts too long (executeDirectUpload and its catch block; isBusy,
\* removeItem, clearQueue).
THEOREM FailedUploadsGiveBack == GallerySpec => ReservationsAreGivenBack
<1> DEFINE Lost(u) == \/ SessionExpires(u) \/ Reload
                      \/ \E i \in Files : InitAnswerLost(i) \/ AbortFailed(i) \/ NeverAnswered(i)
           Body == \A u \in Uploads : Attended(u) /\ ~Attended(u)' => Lost(u)
<1>1. PageInv /\ [GalleryNext]_galleryVars => [Body]_galleryVars
  <2> SUFFICES ASSUME PageInv, GalleryNext, NEW u \in Uploads, Attended(u), ~Lost(u)
               PROVE  Attended(u)'
    OBVIOUS
  <2>1. ASSUME NEW i \in Files, UploadStep(i)  PROVE Attended(u)'
    BY <2>1, UploadAttends, PageInvParts
  <2>2. ASSUME Quiet, UNCHANGED session  PROVE Attended(u)'
    BY <2>2 DEF Quiet, Attended
  <2>3. ASSUME NEW w \in Uploads, SessionExpires(w)  PROVE Attended(u)'
    <3>1. session'[u] = session[u] /\ UNCHANGED <<task, job>>
      BY <2>3, PageInvParts DEF SessionExpires, pageVars, ServerInv
    <3> QED  BY <3>1 DEF Attended
  <2> QED  BY <2>1, <2>2, <2>3, PageSteps
<1> QED  BY <1>1, StatusTellsWhatIsInFlight, PTL DEF GallerySpec, ReservationsAreGivenBack

\* One row for each upload, and none shown that is not there: an upload that
\* has its row is repeated only when the answer of its complete was lost
\* (uploadOne, removeItem, addFiles), and "uploaded" means a row unless the
\* preflight of the queue has refused the file (uploadSinglePart).
THEOREM UploadedMeansRow == GallerySpec => ShownUploadsHaveTheirRow
<1> DEFINE Body(i) ==
      /\ rows'[i] > rows[i] /\ rows[i] > 0 => unheard[i]
      /\ item[i].status # "uploaded" /\ item'[i].status = "uploaded" =>
           rows'[i] > 0 \/ PreflightRefused(i)
<1>1. PageInv /\ [GalleryNext]_galleryVars => [\A i \in Files : Body(i)]_galleryVars
  <2> SUFFICES ASSUME PageInv, GalleryNext, NEW i \in Files  PROVE Body(i)
    OBVIOUS
  <2>1. StatusInv /\ ServerInv /\ rows \in [Files -> Nat]
    BY PageInvParts DEF ServerInv
  <2>2. CASE Quiet /\ \A j \in Files : rows'[j] \in {0, rows[j]}
    BY <2>1, <2>2 DEF Quiet
  <2>5. CASE Reload \/ \E u \in Uploads : SessionExpires(u)
    <3>1. rows'[i] = rows[i] /\ (item'[i].status = "uploaded" => item[i].status = "uploaded")
      BY <2>5, ItemType DEF Reload, SessionExpires, pageVars, serverVars
    <3> QED  BY <2>1, <3>1
  <2>6. ASSUME NEW k \in Files, NeverAnswered(k)  PROVE Body(i)
    <3>1. /\ item' = item /\ item[k].status \in BusyStatuses
          /\ rows'[i] = rows[i] \/ i = k
      BY <2>6, NeverAnsweredInv DEF NeverAnswered
    <3>2. i = k /\ rows[i] > 0 => unheard[i]
      BY <2>1, <3>1 DEF ServerInv, RowsHeardOf, BusyStatuses
    <3> QED  BY <2>1, <3>1, <3>2
  <2>3. ASSUME NEW k \in Files, UploadStep(k), k # i  PROVE Body(i)
    <3>1. item'[i] = item[i]
      BY <2>1, <2>3, UploadStatus, OnlyOthers DEF StatusInv
    <3>2. rows'[i] = rows[i]
      BY <2>1, <2>3 DEF UploadStep, PreflightAccepted, PreflightRefused, InitAnswered, OpenSession,
           InitAnswerLost, OpenSession, PartStored, PartSigned, PartRetried, BackoffOver, CompleteAnswered, CompleteSession,
           CompleteAnswerLost, CompleteSession, CallFailed, AbortAnswered, AbortSession, AbortFailed, serverVars
    <3> QED  BY <2>1, <3>1, <3>2
  <2>4. CASE UploadStep(i)
    <3>1. item[i].status = "uploading"
      BY <2>1, <2>4, UploadStatus, InUpload
    <3>2. rows[i] > 0 => unheard[i]
      BY <2>1, <3>1 DEF ServerInv, RowsHeardOf
    <3>3. item'[i].status = "uploaded" => CompleteAnswered(i) \/ PreflightRefused(i)
      BY <2>1, <2>4, UploadShows
    <3>4. CompleteAnswered(i) => rows'[i] > 0
      BY <2>1 DEF CompleteAnswered, CompleteSession
    <3> QED  BY <3>2, <3>3, <3>4
  <2> QED  BY <2>2, <2>3, <2>4, <2>5, <2>6, PageSteps
<1> QED  BY <1>1, StatusTellsWhatIsInFlight, PTL DEF GallerySpec, ShownUploadsHaveTheirRow

\* A transcoding reads bytes of another file only when that file's
\* transcoding has the same name (transcodeToMp4, doLoad).
THEOREM ForeignBytesOnlyOfSharers == GallerySpec => OwnBytesUnlessSameMillisecond
<1> DEFINE Body ==
      \A i \in Files :
        OutputRead(i) /\ output[stamp[i]] # i => \E j \in Files \ {i} : stamp[j] = stamp[i]
<1>1. PageInv => [Body]_galleryVars
  <2> SUFFICES ASSUME PageInv, NEW i \in Files, OutputRead(i), output[stamp[i]] # i
               PROVE  \E j \in Files \ {i} : stamp[j] = stamp[i]
    OBVIOUS
  <2>1. NamesInv /\ stamp[i] \in Files
    BY PageInvParts, HolderType DEF OutputRead, WorkerAwaits
  <2>2. output[stamp[i]] \in Files
    BY <2>1, HolderType DEF OutputRead
  <2> QED  BY <2>1, <2>2, UploadsPageConstants DEF NamesInv, BytesOfHolders
<1> QED  BY <1>1, StatusTellsWhatIsInFlight, PTL DEF OwnBytesUnlessSameMillisecond
=============================================================================
