----------------------------- MODULE UploadDesc -----------------------------
(***************************************************************************)
(* One description file and its media going up: UploadTask::uploadOneDesc  *)
(* on the upload worker, the queue and the thread of StorageServClient,    *)
(* the server's answers, which carry no file name, stop() and crashes.     *)
(*                                                                         *)
(* File 0 is the description, files 1 .. NMedia are its media.  The worker *)
(* passes over the description again and again (scanAndUploadOnePass)      *)
(* until it has removed it.  Everything that may go wrong on the way (a    *)
(* rejection, a lost answer, a failed send, an answer that is late, a      *)
(* crash) counts as a fault, and a behaviour has at most MaxFaults.        *)
(***************************************************************************)
EXTENDS Integers, Sequences

CONSTANTS
    NMedia,
    Exclusive,   \* m2: the directory of the description is removed with it
    AckTimely,   \* an answer that comes at all comes before the timeout
    MayStop,     \* stop() may be called
    MayCrash,    \* the device may lose power and boot again
    MaxFaults

ASSUME UploadAssumption ==
    /\ NMedia \in Nat /\ MaxFaults \in Nat
    /\ {Exclusive, AckTimely, MayStop, MayCrash} \subseteq BOOLEAN

Desc  == 0
Media == 1 .. NMedia
Files == {Desc} \cup Media
Idle  == -1    \* no file in the hands of the upload thread

VARIABLES
    descFile,      \* on disk: "whole", "torn" while rewritten, "absent"
    tag,           \* the F_UploadedTags in it
    present,       \* media on disk
    worker,        \* how far uploadOneDesc has got
    root,          \* the tags in the worker's copy of the description
    next,          \* next file of the file_inf loop
    descUploaded,  \* descfile_uploaded
    uploadedList,  \* uploaded_file_list
    allUploaded,   \* allFileUploaded
    callback,      \* upload_callback: "none", "desc" or "media"
    threadRun,     \* upload_thread_run
    queue,         \* upload_queue
    current,       \* file being uploaded (upload_in_progress), or Idle
    phase,         \* how far upload() has got
    outcome,       \* what upload() returned
    received,      \* upload_result_received
    success,       \* upload_success
    inbox,         \* files the server has to answer
    replies,       \* answers on their way back
    accepted,      \* files the server has accepted
    stopping,      \* stop(): how far it has got
    faults         \* bound

diskVars   == <<descFile, tag, present>>
workVars   == <<worker, root, next, descUploaded, uploadedList, allUploaded>>
clientVars == <<callback, threadRun, queue, current, phase, outcome>>
ackVars    == <<received, success>>
serverVars == <<inbox, replies, accepted>>
vars == <<diskVars, workVars, clientVars, ackVars, serverVars, stopping, faults>>

FlagsOK ==
    /\ descUploaded \in BOOLEAN /\ allUploaded \in BOOLEAN /\ threadRun \in BOOLEAN
    /\ outcome \in BOOLEAN /\ received \in BOOLEAN /\ success \in BOOLEAN

TypeOK ==
    /\ FlagsOK
    /\ descFile \in {"whole", "torn", "absent"}
    /\ tag \in [Files -> {0, 1}] /\ root \in [Files -> {0, 1}]
    /\ present \subseteq Media
    /\ worker \in {"scan", "descWait", "descWrite", "bind", "queue", "settle",
                   "rewrite", "finish", "exited"}
    /\ next \in 1 .. NMedia + 1
    /\ uploadedList \subseteq Files
    /\ callback \in {"none", "desc", "media"}
    /\ queue \in Seq(Files) /\ inbox \in Seq(Files) /\ replies \in Seq(BOOLEAN)
    /\ current \in Files \cup {Idle}
    /\ phase \in {"idle", "open", "sent", "over", "exited"}
    /\ accepted \subseteq Files
    /\ stopping \in {"no", "queue", "result", "done"}
    /\ faults \in 0 .. MaxFaults

Init ==
    /\ descFile = "whole"
    /\ tag = [f \in Files |-> 0]
    /\ present = Media
    /\ accepted = {}
    /\ faults = 0
    /\ worker = "scan" /\ root = [f \in Files |-> 0] /\ next = 1
    /\ descUploaded = FALSE /\ uploadedList = {} /\ allUploaded = TRUE
    /\ callback = "none" /\ threadRun = TRUE /\ queue = <<>>
    /\ current = Idle /\ phase = "idle" /\ outcome = FALSE
    /\ received = FALSE /\ success = FALSE
    /\ inbox = <<>> /\ replies = <<>>
    /\ stopping = "no"

Fault == faults < MaxFaults /\ faults' = faults + 1
-----------------------------------------------------------------------------
(* StorageServClient: uploadFile, uploadThread and upload().               *)

\* uploadFile: a file offered after requestStop is skipped without a word.
Enqueued(f) == IF threadRun THEN Append(queue, f) ELSE queue

\* The client is made from a connection that stands, so its socket_fd is never -1.
TakeFile ==
    /\ phase = "idle" /\ threadRun /\ queue # <<>>
    /\ current' = Head(queue)
    /\ queue' = Tail(queue)
    /\ phase' = "open"
    /\ UNCHANGED <<diskVars, workVars, callback, threadRun, outcome, ackVars,
                   serverVars, stopping, faults>>

ThreadExits ==
    /\ phase = "idle" /\ ~threadRun
    /\ phase' = "exited"
    /\ UNCHANGED <<diskVars, workVars, callback, threadRun, queue, current, outcome,
                   ackVars, serverVars, stopping, faults>>

OnDisk(f) == IF f = Desc THEN descFile # "absent" ELSE f \in present

UploadReturns(ok) ==
    /\ phase' = "over"
    /\ outcome' = ok
    /\ UNCHANGED <<diskVars, workVars, callback, threadRun, queue, current,
                   serverVars, stopping>>

OpenFails ==
    /\ phase = "open" /\ ~OnDisk(current)
    /\ UploadReturns(FALSE)
    /\ UNCHANGED <<ackVars, faults>>

\* The send fails: the socket has been shut down, or the network has failed.
SendFails ==
    /\ phase = "open" /\ OnDisk(current)
    /\ received' = FALSE /\ success' = FALSE
    /\ IF stopping = "done" THEN UNCHANGED faults ELSE Fault
    /\ UploadReturns(FALSE)

\* Mutant: the result of the previous upload is not reset.
SendStale ==
    /\ phase = "open" /\ OnDisk(current) /\ stopping # "done"
    /\ inbox' = Append(inbox, current)
    /\ phase' = "sent"
    /\ UNCHANGED <<diskVars, workVars, callback, threadRun, queue, current, outcome,
                   ackVars, replies, accepted, stopping, faults>>

Send ==
    /\ phase = "open" /\ OnDisk(current) /\ stopping # "done"
    /\ received' = FALSE /\ success' = FALSE
    /\ inbox' = Append(inbox, current)
    /\ phase' = "sent"
    /\ UNCHANGED <<diskVars, workVars, callback, threadRun, queue, current, outcome,
                   replies, accepted, stopping, faults>>

Answered ==
    /\ phase = "sent" /\ received
    /\ UploadReturns(success)
    /\ UNCHANGED <<ackVars, faults>>

\* HTC_UPLOAD_ACK_TIMEOUT_MS has passed.
AckTimeout ==
    /\ phase = "sent" /\ ~received
    /\ AckTimely => inbox = <<>> /\ replies = <<>>
    /\ IF AckTimely THEN UNCHANGED faults ELSE Fault
    /\ UploadReturns(FALSE)
    /\ UNCHANGED ackVars

\* upload_callback, then upload_in_progress = false.
Callback ==
    /\ phase = "over"
    /\ phase' = "idle"
    /\ current' = Idle
    /\ descUploaded' = IF callback = "desc" /\ current = Desc THEN outcome ELSE descUploaded
    /\ uploadedList' = IF callback = "media" /\ outcome THEN uploadedList \cup {current}
                                                        ELSE uploadedList
    /\ allUploaded' = (allUploaded /\ (callback = "media" => outcome))
    /\ UNCHANGED <<diskVars, worker, root, next, callback, threadRun, queue, outcome,
                   ackVars, serverVars, stopping, faults>>
-----------------------------------------------------------------------------
(* The server, and handleUploadCommand on the receiving thread.            *)

ServerAnswers(ok) ==
    /\ inbox # <<>>
    /\ inbox' = Tail(inbox)
    /\ replies' = Append(replies, ok)
    /\ IF ok THEN accepted' = accepted \cup {Head(inbox)} /\ UNCHANGED faults
             ELSE UNCHANGED accepted /\ Fault
    /\ UNCHANGED <<diskVars, workVars, clientVars, ackVars, stopping>>

\* The server takes a file in, or not, and its answer never arrives.
AnswerLost(ok) ==
    /\ inbox # <<>>
    /\ Fault
    /\ inbox' = Tail(inbox)
    /\ accepted' = IF ok THEN accepted \cup {Head(inbox)} ELSE accepted
    /\ UNCHANGED <<diskVars, workVars, clientVars, ackVars, replies, stopping>>

\* Whatever upload() is waiting, the answer is taken for its own.
HandleUploadCommand ==
    /\ replies # <<>>
    /\ received' = TRUE
    /\ success' = Head(replies)
    /\ replies' = Tail(replies)
    /\ UNCHANGED <<diskVars, workVars, clientVars, inbox, accepted, stopping, faults>>
-----------------------------------------------------------------------------
(* uploadOneDesc on the upload worker.                                     *)

StopRequested == stopping # "no"

\* A pass finds the description pending (hasPendingWork) and parses it.
BeginPass ==
    /\ worker = "scan" /\ ~StopRequested
    /\ descFile = "whole" /\ \E f \in Files : tag[f] = 0
    /\ root' = tag
    /\ descUploaded' = (tag[Desc] = 1)
    /\ IF tag[Desc] = 0
       THEN /\ worker' = "descWait"
            /\ callback' = "desc"
            /\ queue' = Enqueued(Desc)
       ELSE worker' = "bind" /\ UNCHANGED <<callback, queue>>
    /\ UNCHANGED <<diskVars, next, uploadedList, allUploaded, threadRun, current, phase,
                   outcome, ackVars, serverVars, stopping, faults>>

\* std::ofstream truncates the description, then writes it anew.
OpenDesc(to) ==
    /\ worker' = to
    /\ descFile' = "torn"
    /\ UNCHANGED <<tag, present, next, descUploaded, uploadedList, allUploaded,
                   clientVars, ackVars, serverVars, stopping, faults>>

\* Mutant: the description is written back as it was read.
WriteDescStale(to) ==
    /\ worker' = to
    /\ descFile' = "whole"
    /\ UNCHANGED <<tag, present, root, next, descUploaded, uploadedList, allUploaded,
                   clientVars, ackVars, serverVars, stopping, faults>>

WriteDesc(to) ==
    /\ worker' = to
    /\ descFile' = "whole"
    /\ tag' = root
    /\ UNCHANGED <<present, root, next, descUploaded, uploadedList, allUploaded,
                   clientVars, ackVars, serverVars, stopping, faults>>

DescAcked ==
    /\ worker = "descWait" /\ descUploaded
    /\ root' = [root EXCEPT ![Desc] = 1]
    /\ OpenDesc("descWrite")

WriteAcked == worker = "descWrite" /\ WriteDesc("bind")

\* Eight seconds have passed; the description may still be on its way up.
DescGivesUp ==
    /\ worker = "descWait" /\ ~descUploaded
    /\ IF threadRun /\ ~(current # Desc /\ queue = <<>>) THEN Fault ELSE UNCHANGED faults
    /\ worker' = "bind"
    /\ UNCHANGED <<diskVars, root, next, descUploaded, uploadedList, allUploaded,
                   clientVars, ackVars, serverVars, stopping>>

\* Mutant: a failure of an earlier pass is never forgotten.
BindMediaSticky ==
    /\ worker = "bind"
    /\ worker' = "queue"
    /\ callback' = "media"
    /\ next' = 1
    /\ uploadedList' = {}
    /\ UNCHANGED <<diskVars, root, descUploaded, allUploaded, threadRun, queue, current, phase,
                   outcome, ackVars, serverVars, stopping, faults>>

BindMedia ==
    /\ worker = "bind"
    /\ worker' = "queue"
    /\ callback' = "media"
    /\ next' = 1
    /\ uploadedList' = {}
    /\ allUploaded' = TRUE
    /\ UNCHANGED <<diskVars, root, descUploaded, threadRun, queue, current, phase, outcome,
                   ackVars, serverVars, stopping, faults>>

\* Mutant: the loop over file_inf runs one too far.
QueueMediaPastEnd ==
    /\ worker = "queue" /\ next <= NMedia + 1
    /\ next' = next + 1
    /\ queue' = IF next \in Media /\ root[next] = 0 THEN Enqueued(next) ELSE queue
    /\ UNCHANGED <<diskVars, worker, root, descUploaded, uploadedList, allUploaded, callback,
                   threadRun, current, phase, outcome, ackVars, serverVars, stopping, faults>>

QueueMedia ==
    /\ worker = "queue" /\ next <= NMedia
    /\ next' = next + 1
    /\ queue' = IF root[next] = 0 THEN Enqueued(next) ELSE queue
    /\ UNCHANGED <<diskVars, worker, root, descUploaded, uploadedList, allUploaded, callback,
                   threadRun, current, phase, outcome, ackVars, serverVars, stopping, faults>>

\* isUploadFinished; the loop that waits for it looks at nothing else.
Drained ==
    /\ worker = "queue" /\ next > NMedia
    /\ queue = <<>> /\ current = Idle
    /\ worker' = "settle"
    /\ UNCHANGED <<diskVars, root, next, descUploaded, uploadedList, allUploaded,
                   clientVars, ackVars, serverVars, stopping, faults>>

DeleteMedia(m) ==
    /\ worker = "settle"
    /\ m \in uploadedList /\ root[m] = 0
    /\ root' = [root EXCEPT ![m] = 1]
    /\ present' = present \ {m}
    /\ UNCHANGED <<descFile, tag, worker, next, descUploaded, uploadedList, allUploaded,
                   clientVars, ackVars, serverVars, stopping, faults>>

MediaSettled ==
    /\ worker = "settle"
    /\ \A m \in uploadedList \cap Media : root[m] = 1
    /\ UNCHANGED root
    /\ OpenDesc("rewrite")

WriteSettled == worker = "rewrite" /\ WriteDesc("finish")

\* Mutant: the media that failed are not counted.
CompleteIgnoringMedia == descUploaded
Complete == descUploaded /\ allUploaded

Finish ==
    /\ worker = "finish"
    /\ worker' = "scan"
    /\ descFile' = IF Complete THEN "absent" ELSE "whole"
    /\ present' = IF Complete /\ Exclusive THEN {} ELSE present
    /\ UNCHANGED <<tag, root, next, descUploaded, uploadedList, allUploaded,
                   clientVars, ackVars, serverVars, stopping, faults>>

WorkerExits ==
    /\ worker = "scan" /\ StopRequested
    /\ worker' = "exited"
    /\ UNCHANGED <<diskVars, root, next, descUploaded, uploadedList, allUploaded,
                   clientVars, ackVars, serverVars, stopping, faults>>
-----------------------------------------------------------------------------
(* stop() (abortBlockingIO, requestStop) and a loss of power.              *)

StopQueue ==
    /\ MayStop /\ stopping = "no"
    /\ stopping' = "queue"
    /\ threadRun' = FALSE
    /\ UNCHANGED <<diskVars, workVars, callback, queue, current, phase, outcome,
                   ackVars, serverVars, faults>>

StopUpload ==
    /\ stopping = "queue"
    /\ stopping' = "result"
    /\ received' = TRUE /\ success' = FALSE
    /\ UNCHANGED <<diskVars, workVars, clientVars, serverVars, faults>>

\* The socket is the management client's and is shut down through it.
StopSocket ==
    /\ stopping = "result"
    /\ stopping' = "done"
    /\ UNCHANGED <<diskVars, workVars, clientVars, ackVars, serverVars, faults>>

\* Nothing but the disk and the server's memory survives.
Crash ==
    /\ MayCrash
    /\ Fault
    /\ UNCHANGED <<diskVars, accepted>>
    /\ worker' = "scan" /\ root' = [f \in Files |-> 0] /\ next' = 1
    /\ descUploaded' = FALSE /\ uploadedList' = {} /\ allUploaded' = TRUE
    /\ callback' = "none" /\ threadRun' = TRUE /\ queue' = <<>>
    /\ current' = Idle /\ phase' = "idle" /\ outcome' = FALSE
    /\ received' = FALSE /\ success' = FALSE
    /\ inbox' = <<>> /\ replies' = <<>>
    /\ stopping' = "no"
-----------------------------------------------------------------------------
UploadThread ==
    \/ TakeFile \/ ThreadExits \/ OpenFails \/ Send \/ Answered \/ AckTimeout \/ Callback
    \/ (stopping = "done" /\ SendFails)

Server == (\E ok \in BOOLEAN : ServerAnswers(ok)) \/ HandleUploadCommand

Worker ==
    \/ BeginPass \/ DescAcked \/ WriteAcked \/ DescGivesUp \/ BindMedia \/ QueueMedia
    \/ Drained \/ (\E m \in Media : DeleteMedia(m)) \/ MediaSettled \/ WriteSettled \/ Finish \/ WorkerExits

Faults == SendFails \/ (\E ok \in BOOLEAN : AnswerLost(ok)) \/ Crash

Next == UploadThread \/ Server \/ Worker \/ Faults \/ StopQueue \/ StopUpload \/ StopSocket

Spec == Init /\ [][Next]_vars

\* The three threads and the server run on; faults and stop() are not owed,
\* but a stop() that has begun goes on.
FairSpec == Spec /\ WF_vars(UploadThread) /\ WF_vars(Server) /\ WF_vars(Worker)
                 /\ WF_vars(StopUpload \/ StopSocket)
-----------------------------------------------------------------------------
(* Properties.                                                             *)

\* The media the device is still in charge of: on disk and still asked for by
\* a description that is there.
Owed == {m \in present : descFile # "absent"}

\* Files leave the device's charge only once the server has accepted them.
Unit == INSTANCE Custody WITH owed <- Owed, accepted <- accepted \ {Desc}
KeepsCustody == Unit!Spec

\* A description that has gone took every file with it to the server, itself
\* included.
RemovedMeansAccepted == descFile = "absent" => accepted = Files

\* A description removed by a worker that nobody has asked to stop went up with
\* all its media, whatever crashes and stops have cut short before.
RemovedWhole ==
    [][descFile # "absent" /\ descFile' = "absent" /\ ~StopRequested =>
         accepted = Files]_vars

\* In a shared directory a medium is deleted only once the server has it.
DeletedMeansAccepted == Media \ present \subseteq accepted

\* A medium counts as uploaded in the description exactly when its file has
\* been deleted: a later pass neither repeats nor misses one.
TagsTellFiles ==
    worker \in {"scan", "descWait"} /\ descFile = "whole" =>
        \A m \in Media : tag[m] = 0 <=> m \in present

\* With finitely many faults the description and all its media go up.
EventuallyRemoved == <>(descFile = "absent")

\* stop() returns: the worker it joins exits, which is what a sure power off
\* after a signal or an upload timeout rests on.  It does not hold of the code:
\* files still queued when the thread of the client ends are waited for forever.
StopReturns == StopRequested ~> worker = "exited"
=============================================================================
