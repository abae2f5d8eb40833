-------------------------- MODULE UploadsPageState --------------------------
(***************************************************************************)
(* The state of the uploads page of gallery-web: the list of the page, the *)
(* tasks of UploadQueueService, the ffmpeg engine, and what the server and *)
(* Cloudinary hold of it.  Every file has one item, one task and at most   *)
(* one chain of promises, whose program point is job[i].pc.                *)
(***************************************************************************)
EXTENDS FiniteSetsExt

CONSTANTS
  None,
  Files,          \* the files a user may add
  Kinds,          \* what each of them may be: a video, an image, or of a type or
                  \* size that the page and the server refuse
  Parts,          \* into how many parts the upload of a file is split
  Uploads,        \* ids of upload sessions, in the order the server gives them
  MaxRetries      \* Len(CLOUDINARY_RETRY_DELAYS_MS)

ASSUME UploadsPageConstants ==
  /\ None \notin Files /\ None \notin Uploads /\ IsFiniteSet(Files)
  /\ Kinds \in [Files -> SUBSET {"video", "image", "invalid"}]
  /\ Parts \in [Files -> Nat \ {0}]
  /\ Uploads \subseteq Nat /\ IsFiniteSet(Uploads)
  /\ MaxRetries \in Nat

VARIABLES
  item,           \* queue: the items of the page
  task,           \* taskList: the tasks of the queue service
  job,            \* the promises in flight
  engine,         \* loadState of the ffmpeg engine; "stalled" when its load never ends
  hung,           \* its worker runs a command that never ends
  input, output,  \* the virtual file system of ffmpeg: the file whose bytes a name holds
  stamp,          \* Date.now() of the transcodings in flight; a millisecond is named by a file
  session,        \* the upload sessions of the server
  rows,           \* the media rows the server has written for a file
  unheard         \* history: a complete of the file succeeded and was not heard of

pageVars   == <<item, task, job>>
engineVars == <<engine, hung, input, output, stamp>>
serverVars == <<session, rows, unheard>>
galleryVars == <<pageVars, engineVars, serverVars>>

\* UploadQueueItem.  `file` is the file whose bytes processedFile holds, `probe`
\* what processVideo concludes from probeResult.  Once there is a processedFile
\* nobody asks for that again, and it is forgotten here.
Item ==
  [status: {"probing", "checking", "ready", "processing", "processed", "processError",
            "uploading", "uploaded", "uploadError"},
   kind: {"video", "image", "invalid"}, preflight: BOOLEAN,
   probe: {"none", "compatible", "transcode"}, file: Files \cup {None}]

NoItem == [status |-> "absent", kind |-> "image", preflight |-> FALSE, probe |-> "none",
           file |-> None]

\* UploadTask; completedMedia is there when the phase is "completed".
Task ==
  [phase: {"queued", "preflight", "uploading", "finalizing", "completed", "failed"},
   session: Uploads \cup {None}]

NoTask == [phase |-> "absent", session |-> None]

\* The program points of probeOne, runPreflightOne, processOne and
\* executeDirectUpload: the await at which each is suspended, "unanswered" when
\* nothing will ever answer it.  `bytes` is what the finally block returns.
UploadPcs  == {"preflight", "init", "sign", "part", "backoff", "complete", "abort"}
ProcessPcs == {"load", "reprobe", "write", "exec", "read", "rmInput", "rmOutput", "pass"}
Job == [pc: {"idle", "probe", "check", "unanswered"} \cup ProcessPcs \cup UploadPcs,
        part: Nat, try: Nat, bytes: Files \cup {None}]
NoJob == [pc |-> "idle", part |-> 0, try |-> 0, bytes |-> None]

GalleryInit ==
  /\ item = [i \in Files |-> NoItem]
  /\ task = [i \in Files |-> NoTask]
  /\ job = [i \in Files |-> NoJob]
  /\ engine = "idle" /\ hung = FALSE
  /\ input = [i \in Files |-> None]
  /\ output = [i \in Files |-> None]
  /\ stamp = [i \in Files |-> None]
  /\ session = [u \in Uploads |-> "unused"]
  /\ rows = [i \in Files |-> 0]
  /\ unheard = [i \in Files |-> FALSE]

\* The job that awaits at point pc.
At(pc) == [NoJob EXCEPT !.pc = pc]

\* isBusy
BusyStatuses == {"checking", "uploading", "probing", "processing"}
Busy == \E i \in Files : item[i].status \in BusyStatuses
=============================================================================
