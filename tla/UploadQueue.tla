---------------------------- MODULE UploadQueue ----------------------------
(***************************************************************************)
(* UploadQueueService.executeDirectUpload and DirectUploadApiService: the  *)
(* second preflight, init, the parts one after the other with retries,     *)
(* complete, and abort when one of them fails.  Each action is the         *)
(* continuation after one await.  A call that fails either had no effect   *)
(* on the server or had it and its answer was lost.                        *)
(***************************************************************************)
EXTENDS UploadsPageState

\* The promise of uploadSinglePart or uploadChunked settles.
Resolved(i) ==
  /\ job' = [job EXCEPT ![i] = NoJob]
  /\ item' = [item EXCEPT ![i].status = "uploaded"]

Rejected(i) ==
  /\ job' = [job EXCEPT ![i] = NoJob]
  /\ item' = [item EXCEPT ![i].status = "uploadError"]

\* Mutant of Catch: rethrows without an abort.
CatchWithoutAbort(i) ==
  /\ task' = [task EXCEPT ![i].phase = "failed"]
  /\ Rejected(i)

\* The catch block: markFailed, then an abort of the session the task names,
\* be it of this execution or of an earlier one.
Catch(i) ==
  /\ task' = [task EXCEPT ![i].phase = "failed"]
  /\ IF task[i].session = None
       THEN Rejected(i)
       ELSE job' = [job EXCEPT ![i] = At("abort")] /\ UNCHANGED item

\* executeDirectUpload up to its first await; the page has set its item.
BeginPreflight(i) ==
  /\ task' = [task EXCEPT ![i].phase = "preflight"]
  /\ job' = [job EXCEPT ![i] = At("preflight")]

\* The queue asks for a preflight of its own, after the page has.
PreflightAccepted(i) ==
  /\ job[i].pc = "preflight" /\ item[i].kind # "invalid"
  /\ job' = [job EXCEPT ![i] = At("init")]
  /\ UNCHANGED <<item, task, engineVars, serverVars>>

\* canUpload is false: the task is returned, nothing is thrown.
PreflightRefused(i) ==
  /\ job[i].pc = "preflight"
  /\ task' = [task EXCEPT ![i].phase = "failed"]
  /\ Resolved(i)
  /\ UNCHANGED <<engineVars, serverVars>>

\* storeDirectUploadSession, and the first part, for which init has signed.
StoreSession(i, u) ==
  /\ task' = [task EXCEPT ![i].session = u, ![i].phase = "uploading"]
  /\ job' = [job EXCEPT ![i] = At("part")]

NextUpload == Min({u \in Uploads : session[u] = "unused"})

\* What init does on the server.
OpenSession(i) ==
  /\ job[i].pc = "init" /\ \E u \in Uploads : session[u] = "unused"
  /\ session' = [session EXCEPT ![NextUpload] = "open"]
  /\ UNCHANGED <<rows, unheard>>

InitAnswered(i) ==
  /\ OpenSession(i)
  /\ StoreSession(i, NextUpload)
  /\ UNCHANGED <<item, engineVars>>

InitAnswerLost(i) ==
  /\ OpenSession(i)
  /\ Catch(i)
  /\ UNCHANGED engineVars

\* trackUploadedPartFromResult; then the next part is signed, or the upload
\* is finalized.
PartStored(i) ==
  /\ job[i].pc = "part"
  /\ LET last == job[i].part + 1 = Parts[i] IN
       /\ task' = [task EXCEPT ![i].phase = IF last THEN "finalizing" ELSE @]
       /\ job' = [job EXCEPT ![i] = IF last THEN At("complete")
                                            ELSE [At("sign") EXCEPT !.part = job[i].part + 1]]
  /\ UNCHANGED <<item, engineVars, serverVars>>

\* signPart, which needs the session, then beginUploading of the part.
PartSigned(i) ==
  /\ job[i].pc = "sign" /\ session[task[i].session] = "open"
  /\ job' = [job EXCEPT ![i].pc = "part"]
  /\ UNCHANGED <<item, task, engineVars, serverVars>>

\* Mutant of PartRetried: the attempts are not counted.
PartRetriedForever(i) ==
  /\ job[i].pc = "part"
  /\ job' = [job EXCEPT ![i].pc = "backoff"]
  /\ UNCHANGED <<item, task, engineVars, serverVars>>

\* isRetryableCloudinaryError: the network or a 5xx.
PartRetried(i) ==
  /\ job[i].pc = "part" /\ job[i].try < MaxRetries
  /\ job' = [job EXCEPT ![i].pc = "backoff", ![i].try = @ + 1]
  /\ UNCHANGED <<item, task, engineVars, serverVars>>

BackoffOver(i) ==
  /\ job[i].pc = "backoff"
  /\ job' = [job EXCEPT ![i].pc = "part"]
  /\ UNCHANGED <<item, task, engineVars, serverVars>>

\* What complete does on the server, and whether the page hears of it.
CompleteSession(i, heard) ==
  /\ job[i].pc = "complete" /\ session[task[i].session] = "open"
  /\ session' = [session EXCEPT ![task[i].session] = "closed"]
  /\ rows' = [rows EXCEPT ![i] = @ + 1]
  /\ unheard' = IF heard THEN unheard ELSE [unheard EXCEPT ![i] = TRUE]

\* markCompleted.
CompleteAnswered(i) ==
  /\ CompleteSession(i, TRUE)
  /\ task' = [task EXCEPT ![i].phase = "completed"]
  /\ Resolved(i)
  /\ UNCHANGED engineVars

CompleteAnswerLost(i) ==
  /\ CompleteSession(i, FALSE)
  /\ Catch(i)
  /\ UNCHANGED engineVars

\* A call of executeDirectUpload fails and changes nothing on the server: it
\* is refused, never arrives, or has been retried often enough.
CallFailed(i) ==
  /\ job[i].pc \in {"preflight", "init", "sign", "part", "complete"}
  /\ Catch(i)
  /\ UNCHANGED <<engineVars, serverVars>>

\* abortDirectUpload, silent when the session has gone.
AbortSession(i) ==
  /\ job[i].pc = "abort"
  /\ session' = [session EXCEPT ![task[i].session] = IF @ = "open" THEN "closed" ELSE @]
  /\ UNCHANGED <<rows, unheard>>

AbortAnswered(i) ==
  /\ AbortSession(i)
  /\ Rejected(i)
  /\ UNCHANGED <<task, engineVars>>

\* "Best-effort cleanup": its failure is swallowed.
AbortFailed(i) ==
  /\ job[i].pc = "abort"
  /\ Rejected(i)
  /\ UNCHANGED <<task, engineVars, serverVars>>

UploadStep(i) ==
  \/ PreflightAccepted(i)
  \/ PreflightRefused(i)
  \/ InitAnswered(i)
  \/ InitAnswerLost(i)
  \/ PartStored(i)
  \/ PartSigned(i)
  \/ PartRetried(i)
  \/ BackoffOver(i)
  \/ CompleteAnswered(i)
  \/ CompleteAnswerLost(i)
  \/ CallFailed(i)
  \/ AbortAnswered(i)
  \/ AbortFailed(i)
=============================================================================
