----------------------------- MODULE UploadsPage -----------------------------
(***************************************************************************)
(* UploadsPageComponent: what a user does to the list, and the chain of    *)
(* promises that carries a file from probe to upload.  The buttons are     *)
(* disabled while any file is busy (isBusy in the template), except those  *)
(* that add files or remove one that is not busy itself.                   *)
(***************************************************************************)
EXTENDS VideoProcessing

\* What runPreflightAll checks, as far as the chain of promises rests there.
Pending == {"processed", "processError", "uploadError"}

\* runPreflightOne up to its HTTP call.
RunPreflight(i) ==
  /\ item' = [item EXCEPT ![i].status = "checking", ![i].preflight = FALSE]
  /\ job' = [job EXCEPT ![i] = At("check")]

\* addFiles, makeItem and addFile: a file that is refused is listed with its
\* error, a video is probed, which starts the engine, an image is checked.
Add(i, kind) ==
  /\ item[i] = NoItem /\ job[i] = NoJob
  /\ task' = [task EXCEPT ![i] = [NoTask EXCEPT !.phase = "queued"]]
  /\ item' = [item EXCEPT ![i].kind = kind,
                          ![i].status = CASE kind = "video" -> "probing"
                                          [] kind = "image" -> "checking"
                                          [] OTHER          -> "uploadError"]
  /\ job' = [job EXCEPT ![i] = CASE kind = "video" -> At("probe")
                                 [] kind = "image" -> At("check")
                                 [] OTHER          -> NoJob]
  /\ IF kind = "video" THEN Load ELSE UNCHANGED engine
  /\ rows' = [rows EXCEPT ![i] = 0]
  /\ unheard' = [unheard EXCEPT ![i] = FALSE]
  /\ UNCHANGED <<hung, input, output, stamp, session>>

\* probeOne ends with a result or an error; the preflight follows either way.
\* A hung worker answers no ffprobe, and none of the calls that clean up after
\* its timeout, but a file that the browser cannot read comes not so far.
Probed(i) ==
  /\ job[i].pc = "probe"
  /\ \E probe \in IF hung THEN {"none"} ELSE {"none", "compatible", "transcode"} :
       item' = [item EXCEPT ![i].status = "checking", ![i].probe = probe]
  /\ job' = [job EXCEPT ![i] = At("check")]
  /\ UNCHANGED <<task, engineVars, serverVars>>

\* The preflight accepts: a video without a processed file is processed, all
\* else waits for a click.
Checked(i) ==
  /\ job[i].pc = "check" /\ item[i].kind # "invalid"
  /\ IF item[i].kind = "video" /\ item[i].file = None
       THEN ProcessOne(i, TRUE)
       ELSE /\ item' = [item EXCEPT ![i].status = "ready", ![i].preflight = TRUE]
            /\ job' = [job EXCEPT ![i] = NoJob]
            /\ UNCHANGED <<engine, stamp>>
  /\ UNCHANGED <<task, hung, input, output, serverVars>>

\* The preflight refuses or fails.
CheckFailed(i) ==
  /\ job[i].pc = "check"
  /\ Rejected(i)
  /\ UNCHANGED <<task, engineVars, serverVars>>

\* "Check" and "Re-check".
Recheck(i) ==
  /\ ~Busy /\ item[i].status \in Pending \ {"processError"}
  /\ RunPreflight(i)
  /\ UNCHANGED <<task, engineVars, serverVars>>

\* "Check all": runPreflightAll.
RecheckAll ==
  LET pending == {i \in Files : item[i].status \in Pending} IN
    /\ ~Busy /\ pending # {}
    /\ item' = [i \in Files |->
                  IF i \in pending
                    THEN [item[i] EXCEPT !.status = "checking", !.preflight = FALSE]
                    ELSE item[i]]
    /\ job' = [i \in Files |-> IF i \in pending THEN At("check") ELSE job[i]]
    /\ UNCHANGED <<task, engineVars, serverVars>>

\* "Retry" after an error of the processing.
RetryProcessing(i) ==
  /\ ~Busy /\ item[i].status = "processError"
  /\ ProcessOne(i, item[i].preflight)
  /\ UNCHANGED <<task, hung, input, output, serverVars>>

\* Mutant of MayUpload: the status is not looked at.
MayUploadAnything(i) == item[i] # NoItem

\* The guard of uploadOne.
MayUpload(i) == item[i].status = "ready"

\* "Upload": uploadOne, with one part or several.
Upload(i) ==
  /\ ~Busy /\ MayUpload(i)
  /\ item' = [item EXCEPT ![i].status = "uploading"]
  /\ BeginPreflight(i)
  /\ UNCHANGED <<engineVars, serverVars>>

\* "Upload all": uploadAll.
UploadAll ==
  LET ready == {i \in Files : item[i].status = "ready"} IN
    /\ ~Busy /\ ready # {}
    /\ item' = [i \in Files |-> IF i \in ready THEN [item[i] EXCEPT !.status = "uploading"]
                                               ELSE item[i]]
    /\ task' = [i \in Files |-> IF i \in ready THEN [task[i] EXCEPT !.phase = "preflight"]
                                               ELSE task[i]]
    /\ job' = [i \in Files |-> IF i \in ready THEN At("preflight") ELSE job[i]]
    /\ UNCHANGED <<engineVars, serverVars>>

\* Mutant of MayRemove: the button is not hidden while a preflight runs.
MayRemoveChecking(i) ==
  item[i] # NoItem /\ item[i].status \notin {"uploading", "probing", "processing"}

\* When the template offers "Remove".
MayRemove(i) == item[i] # NoItem /\ item[i].status \notin BusyStatuses

\* removeItem and removeTask.
Remove(i) ==
  /\ MayRemove(i)
  /\ item' = [item EXCEPT ![i] = NoItem]
  /\ task' = [task EXCEPT ![i] = NoTask]
  /\ UNCHANGED <<job, engineVars, serverVars>>

\* "Clear all": clearQueue and clear.
Clear ==
  /\ ~Busy
  /\ item' = [i \in Files |-> NoItem]
  /\ task' = [i \in Files |-> NoTask]
  /\ UNCHANGED <<job, engineVars, serverVars>>

\* The page is loaded anew, or its tab opened again: all that is left is what
\* the server has.
Reload ==
  /\ item' = [i \in Files |-> NoItem]
  /\ task' = [i \in Files |-> NoTask]
  /\ job' = [i \in Files |-> NoJob]
  /\ engine' = "idle" /\ hung' = FALSE
  /\ input' = [i \in Files |-> None]
  /\ output' = [i \in Files |-> None]
  /\ stamp' = [i \in Files |-> None]
  /\ UNCHANGED serverVars

\* The two hours of a session are over.
SessionExpires(u) ==
  /\ session[u] = "open"
  /\ session' = [session EXCEPT ![u] = "expired"]
  /\ UNCHANGED <<pageVars, engineVars, rows, unheard>>

\* The awaits that end with an event or an answer of the network, for which
\* nobody has set a timeout, and those on the worker.
NetworkAwaits == {"probe", "check", "reprobe", "read", "preflight", "init", "sign", "part",
                  "complete", "abort"}
WorkerAwaits == {"write", "read", "rmInput", "rmOutput"}

\* The answer never comes, whatever the server has done.
NeverAnswered(i) ==
  /\ job[i].pc \in NetworkAwaits \cup (IF hung THEN WorkerAwaits ELSE {})
  /\ \/ UNCHANGED serverVars
     \/ OpenSession(i)
     \/ CompleteSession(i, FALSE)
     \/ AbortSession(i)
  /\ job' = [job EXCEPT ![i] = At("unanswered")]
  /\ UNCHANGED <<item, task, engineVars>>

\* The continuations of promises: the browser runs each of them.
Continue(i) ==
  \/ Probed(i)
  \/ Checked(i)
  \/ CheckFailed(i)
  \/ ProcessStep(i)
  \/ UploadStep(i)
  \/ NeverAnswered(i)

UserStep ==
  \/ \E i \in Files :
       \/ \E kind \in Kinds[i] : Add(i, kind)
       \/ Recheck(i)
       \/ RetryProcessing(i)
       \/ Upload(i)
       \/ Remove(i)
  \/ RecheckAll
  \/ UploadAll
  \/ Clear

GalleryNext ==
  \/ UserStep
  \/ EngineStep
  \/ WorkerHangs
  \/ Reload
  \/ \E u \in Uploads : SessionExpires(u)
  \/ \E i \in Files : Continue(i)

\* An await ends with its answer, with an error, or by NeverAnswered; that of
\* a timer, of exec among them, ends.  Nothing else is owed.
GallerySpec ==
  /\ GalleryInit /\ [][GalleryNext]_galleryVars
  /\ WF_galleryVars(EngineStep)
  /\ \A i \in Files : WF_galleryVars(Continue(i))

-----------------------------------------------------------------------------
TypeOK ==
  /\ item \in [Files -> Item \cup {NoItem}]
  /\ task \in [Files -> Task \cup {NoTask}]
  /\ job \in [Files -> Job]
  /\ engine \in {"idle", "loading", "ready", "failed", "stalled"} /\ hung \in BOOLEAN
  /\ {input, output, stamp} \subseteq [Files -> Files \cup {None}]
  /\ session \in [Uploads -> {"unused", "open", "closed", "expired"}]
  /\ rows \in [Files -> Nat] /\ unheard \in [Files -> BOOLEAN]

\* isBusy and the hidden buttons look at the status alone, so the status must
\* say what is in flight: as long as a promise of a file is pending its item
\* is in the list, busy, and has a task.  Only then is no file removed or
\* started twice under a running upload.
BusyWhileInFlight ==
  \A i \in Files :
    /\ job[i].pc = "probe" => item[i].status = "probing"
    /\ job[i].pc = "check" => item[i].status = "checking"
    /\ job[i].pc \in ProcessPcs => item[i].status = "processing"
    /\ job[i].pc \in UploadPcs => item[i].status = "uploading"
    /\ job[i].pc = "unanswered" => item[i].status \in BusyStatuses
    /\ job[i].pc = "idle" => item[i].status \notin BusyStatuses
    /\ item[i] # NoItem <=> task[i] # NoTask

\* Only a file that is being transcoded, or whose transcoding waits for ever,
\* holds a name of ffmpeg's file system, and only on an engine that is there.
NamesHeld ==
  \A i \in Files :
    /\ job[i].pc \in {"exec"} \cup WorkerAwaits => stamp[i] # None
    /\ stamp[i] # None => job[i].pc \in {"exec", "unanswered"} \cup WorkerAwaits
    /\ job[i].pc = "load" => engine \in {"loading", "stalled"}
    /\ stamp[i] # None \/ job[i].pc \in ProcessPcs \ {"load"} => engine = "ready"

\* Nobody leaves bytes behind: what a name holds was written for a
\* transcoding that still has it, and has not deleted it.
BytesOfHolders ==
  \A name \in Files :
    /\ input[name] # None =>
         stamp[input[name]] = name /\ job[input[name]].pc # "rmOutput"
    /\ output[name] # None => stamp[output[name]] = name

\* A file that has its row is shown as uploaded, or was removed, unless the
\* page never heard of the row.
RowsHeardOf ==
  \A i \in Files :
    rows[i] > 0 => unheard[i] \/ item[i].status \in {"uploaded", "absent"}

\* The types of the page's state, the agreement of status and promise, of
\* names and transcodings, and of rows and list.
PageInv == TypeOK /\ BusyWhileInFlight /\ NamesHeld /\ BytesOfHolders /\ RowsHeardOf

\* The session holds no reservation, or an execution that opened it, or aborts
\* it, is still at work.
Attended(u) ==
  \/ session[u] \in {"unused", "closed"}
  \/ /\ session[u] = "open"
     /\ \E i \in Files :
          task[i].session = u /\ job[i].pc \in UploadPcs \ {"preflight", "init"}

\* A reservation on the server is left behind only when the answer of init is
\* lost, the abort fails, an answer never comes, the page is loaded anew, or
\* the session has lasted too long: every other failure gives it back.
ReservationsAreGivenBack ==
  [][\A u \in Uploads : Attended(u) /\ ~Attended(u)' =>
       \/ SessionExpires(u) \/ Reload
       \/ \E i \in Files : InitAnswerLost(i) \/ AbortFailed(i) \/ NeverAnswered(i)]_galleryVars

\* What the page shows and what the server holds agree: no order of clicks,
\* retries and answers writes two media rows for one upload, but for the user
\* who uploads again after the answer of a complete was lost, and a file is
\* shown as uploaded ("media row(s) created") only when it has its row, but
\* for the file that the queue's own preflight refuses.
ShownUploadsHaveTheirRow ==
  [][\A i \in Files :
       /\ rows'[i] > rows[i] /\ rows[i] > 0 => unheard[i]
       /\ item[i].status # "uploaded" /\ item'[i].status = "uploaded" =>
            rows'[i] > 0 \/ PreflightRefused(i)]_galleryVars

\* "Use a timestamp-based name to avoid collisions when multiple files are
\* processed concurrently": a transcoding reads the bytes of another file only
\* when both took their names in one millisecond.  It can, because all videos
\* that wait for the engine go on in one turn.
OwnBytesUnlessSameMillisecond ==
  [][\A i \in Files :
       OutputRead(i) /\ output[stamp[i]] # i =>
         \E j \in Files \ {i} : stamp[j] = stamp[i]]_galleryVars

\* What nothing will ever carry on: an await without an answer, and a wait for
\* an engine whose load does not end.
Forsaken(i) ==
  \/ job[i].pc = "unanswered"
  \/ job[i].pc = "load" /\ engine = "stalled"

\* Whatever a file is busy with comes to an end, through retries, timeouts, the
\* finally block and the shared load of the engine, unless an await that has no
\* timeout gets no answer.  This is less than what the comments say, "so the
\* queue never stays stuck" (uploads-page.component.ts 323-324) and "never leaves
\* the queue stuck" (video-processing.service.ts 194-195, 290-291): when exec
\* hangs, its timeout ends the wait for it, and the deletes of the finally block
\* then wait behind it.
NeverStuck ==
  \A i \in Files :
    item[i].status \in BusyStatuses ~> item[i].status \notin BusyStatuses \/ Forsaken(i)
=============================================================================
