-------------------------- MODULE VideoProcessing --------------------------
(***************************************************************************)
(* VideoProcessingService and processOne of the page: the ffmpeg engine is *)
(* loaded once and shared, a transcoding runs as awaits on its worker, and *)
(* its files in the virtual file system are named by Date.now().  The      *)
(* worker takes its calls one by one, and is never terminated: once a      *)
(* command hangs in it, it answers no call any more.  Only the wait for    *)
(* exec has a timeout.                                                     *)
(***************************************************************************)
EXTENDS UploadQueue

\* load: the calls made while the engine loads share one promise.
Load == engine' = IF engine \in {"ready", "stalled"} THEN engine ELSE "loading"

\* The catch block of processOne.
ProcessFailed(i) ==
  /\ item' = [item EXCEPT ![i].status = "processError"]
  /\ job' = [job EXCEPT ![i] = NoJob]

\* processOne has its file: processed, ready at once when the preflight has
\* passed, and uploadOne.
UploadProcessed(i, bytes) ==
  /\ item' = [item EXCEPT ![i].file = bytes, ![i].probe = "none",
                          ![i].status = IF item[i].preflight THEN "uploading"
                                                             ELSE "processed"]
  /\ IF item[i].preflight THEN BeginPreflight(i)
                          ELSE job' = [job EXCEPT ![i] = NoJob] /\ UNCHANGED task

\* processVideo up to its first await, for a video whose probe is known.
FirstAwait(i) == CASE item[i].probe = "none"      -> "reprobe"
                   [] item[i].probe = "transcode" -> "write"
                   [] OTHER                       -> "pass"

\* Date.now() is new, or still that of a transcoding which began in this
\* millisecond and has written nothing.
Stamps(i) ==
  {stamp[j] : j \in {k \in Files \ {i} : job[k].pc = "write"}}
    \cup {CHOOSE s \in Files : \A j \in Files \ {i} : stamp[j] # s}

\* The engine is there: those who wait for it go on in one turn of the event
\* loop, hence with one Date.now().
EngineLoaded ==
  /\ engine = "loading"
  /\ engine' = "ready"
  /\ LET waiting == {i \in Files : job[i].pc = "load"} IN
       /\ job' = [i \in Files |-> IF i \in waiting THEN At(FirstAwait(i)) ELSE job[i]]
       /\ \E now \in Files :
            /\ \A i \in Files : stamp[i] # now
            /\ stamp' = [i \in Files |-> IF job'[i].pc = "write" THEN now ELSE stamp[i]]
  /\ UNCHANGED <<item, task, hung, input, output, serverVars>>

\* doLoad catches its error; processVideo then throws for want of an engine.
EngineFailed ==
  /\ engine = "loading"
  /\ engine' = "failed"
  /\ LET waiting == {i \in Files : job[i].pc = "load"} IN
       /\ job' = [i \in Files |-> IF i \in waiting THEN NoJob ELSE job[i]]
       /\ item' = [i \in Files |-> IF i \in waiting
                                     THEN [item[i] EXCEPT !.status = "processError"]
                                     ELSE item[i]]
  /\ UNCHANGED <<task, hung, input, output, stamp, serverVars>>

\* No timeout bounds the import of ffmpeg and the fetch of its core.
EngineStalls ==
  /\ engine = "loading"
  /\ engine' = "stalled"
  /\ UNCHANGED <<pageVars, hung, input, output, stamp, serverVars>>

\* A command never returns, or the worker has died of it.
WorkerHangs ==
  /\ ~hung /\ engine = "ready"
  /\ \E i \in Files : job[i].pc \in {"probe", "reprobe", "write", "exec", "read"}
  /\ hung' = TRUE
  /\ UNCHANGED <<pageVars, engine, input, output, stamp, serverVars>>

\* processOne up to its first await.
ProcessOne(i, preflight) ==
  /\ Load
  /\ item' = [item EXCEPT ![i].status = "processing", ![i].file = None,
                          ![i].preflight = preflight]
  /\ job' = [job EXCEPT ![i] = At(IF engine = "ready" THEN FirstAwait(i) ELSE "load")]
  /\ IF job'[i].pc = "write"
       THEN \E s \in Stamps(i) : stamp' = [stamp EXCEPT ![i] = s]
       ELSE UNCHANGED stamp

\* The page had no probe: processVideo probes itself, with ffprobe.
Reprobed(i) ==
  /\ job[i].pc = "reprobe" /\ ~hung
  /\ \/ job' = [job EXCEPT ![i] = At("pass")] /\ UNCHANGED stamp
     \/ /\ job' = [job EXCEPT ![i] = At("write")]
        /\ \E s \in Stamps(i) : stamp' = [stamp EXCEPT ![i] = s]
  /\ UNCHANGED <<item, task, engine, hung, input, output, serverVars>>

\* The browser cannot read the video: nothing has been written yet.
ProbeFailed(i) ==
  /\ job[i].pc = "reprobe"
  /\ ProcessFailed(i)
  /\ UNCHANGED <<task, engineVars, serverVars>>

\* Mutant of InputName: one name for all.
FixedInputName(i) == CHOOSE s \in Files : TRUE

InputName(i) == stamp[i]

InputWritten(i) ==
  /\ job[i].pc = "write" /\ ~hung
  /\ input' = [input EXCEPT ![InputName(i)] = i]
  /\ job' = [job EXCEPT ![i] = At("exec")]
  /\ UNCHANGED <<item, task, engine, hung, output, stamp, serverVars>>

Transcoded(i) ==
  /\ job[i].pc = "exec" /\ ~hung /\ input[InputName(i)] # None
  /\ output' = [output EXCEPT ![stamp[i]] = input[InputName(i)]]
  /\ job' = [job EXCEPT ![i] = At("read")]
  /\ UNCHANGED <<item, task, engine, hung, input, stamp, serverVars>>

\* readFile, and the native probe of what it read.
OutputRead(i) ==
  /\ job[i].pc = "read" /\ ~hung /\ output[stamp[i]] # None
  /\ job' = [job EXCEPT ![i] = [At("rmInput") EXCEPT !.bytes = output[stamp[i]]]]
  /\ UNCHANGED <<item, task, engineVars, serverVars>>

\* FFMPEG_EXEC_TIMEOUT_MS pass, ffmpeg exits with an error or misses a file,
\* or the file cannot be read: the finally block follows.
TranscodingFailed(i) ==
  /\ job[i].pc \in {"write", "exec"} \cup (IF hung THEN {} ELSE {"read"})
  /\ job' = [job EXCEPT ![i] = At("rmInput")]
  /\ UNCHANGED <<item, task, engineVars, serverVars>>

\* The finally block: it awaits deleteFile of both names.
InputDeleted(i) ==
  /\ job[i].pc = "rmInput" /\ ~hung
  /\ input' = [input EXCEPT ![InputName(i)] = None]
  /\ job' = [job EXCEPT ![i].pc = "rmOutput"]
  /\ UNCHANGED <<item, task, engine, hung, output, stamp, serverVars>>

OutputDeleted(i) ==
  /\ job[i].pc = "rmOutput" /\ ~hung
  /\ output' = [output EXCEPT ![stamp[i]] = None]
  /\ stamp' = [stamp EXCEPT ![i] = None]
  /\ \/ job[i].bytes = None /\ ProcessFailed(i) /\ UNCHANGED task
     \/ job[i].bytes # None /\ UploadProcessed(i, job[i].bytes)
  /\ UNCHANGED <<engine, hung, input, serverVars>>

\* The fast path: the original is passed through.
PassedThrough(i) ==
  /\ job[i].pc = "pass"
  /\ UploadProcessed(i, i)
  /\ UNCHANGED <<engineVars, serverVars>>

EngineStep == EngineLoaded \/ EngineFailed \/ EngineStalls

ProcessStep(i) ==
  \/ Reprobed(i)
  \/ ProbeFailed(i)
  \/ InputWritten(i)
  \/ Transcoded(i)
  \/ OutputRead(i)
  \/ TranscodingFailed(i)
  \/ InputDeleted(i)
  \/ OutputDeleted(i)
  \/ PassedThrough(i)
=============================================================================
