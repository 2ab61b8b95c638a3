----------------------------- MODULE WmRuntime -----------------------------
(***************************************************************************)
(* One run of the wm program: WmScheduler::run, its capture and upload     *)
(* tasks with their threads, the SlotOutputPort between them, and the      *)
(* rescue of the tmpfs work directories at the end.                        *)
(*                                                                         *)
(* Three threads interleave: the main loop (pc), the capture worker        *)
(* (CaptureLaneTask, capturing) and the upload worker (UploadTask::runLoop,*)
(* worker).  The scheduler core is the module TaskScheduler, whose         *)
(* environment, the tasks, is given a body here.                           *)
(*                                                                         *)
(* A description file is known by what a scan can make of it: "torn" while *)
(* it is being written, "pending" while some F_UploadedTag in it is 0,     *)
(* "gone" once it has been uploaded and removed.                           *)
(***************************************************************************)
EXTENDS Integers, FiniteSets

CONSTANTS
    IdleGrace, UploadTimeout, MaxCaptures,  \* as in TaskScheduler
    ConnectGrace,     \* HTC_UPLOAD_CONNECT_GRACE_MS, in clock units
    MaxDescs,         \* bound: description files in one run
    RunModes,         \* the modes this instance starts in
    ConnectOutcomes,  \* does ensureConnected succeed?
    UploadOutcomes    \* what becomes of a desc: "gone" or still "pending"

ASSUME RuntimeAssumption ==
    /\ IdleGrace \in Nat
    /\ UploadTimeout \in Nat
    /\ MaxCaptures \in Nat
    /\ ConnectGrace \in Nat
    /\ MaxDescs \in Nat
    /\ RunModes \subseteq {"CaptureOnly", "CaptureUpload", "UploadOnly"}
    /\ ConnectOutcomes \subseteq BOOLEAN
    /\ UploadOutcomes \subseteq {"gone", "pending"}

Descs == 1 .. MaxDescs
NoDesc == 0

VARIABLES
    mode, oneShot, task, slot, locked, bootstrapped, captureStartedOnce,
    idleFor, shutdownReason, stopStep, captures, quietFor,  \* the scheduler
    pc,          \* the main loop
    capturing,   \* the capture worker
    desc, home,  \* description files, and the file system they are on
    token,       \* SlotOutputPort::tokens_ > 0
    idle,        \* SlotOutputPort::idle_
    stopped,     \* SlotOutputPort::stopped_
    worker,      \* the upload worker
    connected,   \* UploadTask::connected_
    todo,        \* files of the listing the pass has still to visit
    sending,     \* the file uploadOneDesc is at work on, NoDesc if none
    didWork,
    age,         \* now - lastActivityMs_
    sinceStart   \* now - startedAtMs_

schedulerVars == <<mode, oneShot, task, slot, locked, bootstrapped,
                   captureStartedOnce, idleFor, shutdownReason, stopStep,
                   captures, quietFor>>
portVars   == <<token, idle, stopped>>
descVars   == <<desc, home>>
workerVars == <<worker, connected, todo, sending, didWork, age, sinceStart>>
vars       == <<schedulerVars, pc, capturing, descVars, portVars, workerVars>>

\* The thread of a CaptureLaneTask may be over before TaskSlot::start looks; an
\* UploadTask is Running until it is polled or stopped.
Core == INSTANCE TaskScheduler WITH CaptureStarts <- {"Running", "Done", "Failed"},
                                    UploadStarts <- {"Running"}

TypeOK ==
    /\ Core!TypeOK
    /\ pc \in {"boot", "launch", "tick", "reap", "push", "wait", "stop", "off"}
    /\ capturing \in {"none", "recording", "writing", "Done", "Failed"}
    /\ desc \in [Descs -> {"absent", "torn", "pending", "gone"}]
    /\ home \in [Descs -> {"tmpfs", "sd"}]
    /\ token \in BOOLEAN
    /\ idle \in BOOLEAN
    /\ stopped \in BOOLEAN
    /\ connected \in BOOLEAN
    /\ didWork \in BOOLEAN
    /\ worker \in {"none", "top", "connect", "scan", "pass", "send", "stuck", "check",
                   "park", "parked", "exited"}
    /\ todo \subseteq Descs
    /\ sending \in Descs \cup {NoDesc}
    /\ age \in 0 .. UploadTimeout + 1
    /\ sinceStart \in 0 .. ConnectGrace

\* In upload-only mode the work directories stand before the run, at most one
\* of them on tmpfs (the -d directory); otherwise captures write to the SD.
Init ==
    /\ Core!Init
    /\ mode \in RunModes
    /\ pc = "boot"
    /\ capturing = "none"
    /\ IF mode = "UploadOnly"
       THEN /\ desc = [d \in Descs |-> "pending"]
            /\ home \in {h \in [Descs -> {"tmpfs", "sd"}] :
                           Cardinality({d \in Descs : h[d] = "tmpfs"}) <= 1}
       ELSE /\ desc = [d \in Descs |-> "absent"]
            /\ home = [d \in Descs |-> "sd"]
    /\ token = FALSE /\ idle = FALSE /\ stopped = FALSE
    /\ worker = "none" /\ connected = FALSE
    /\ todo = {} /\ sending = NoDesc /\ didWork = FALSE
    /\ age = 0 /\ sinceStart = 0

Pending == {d \in Descs : desc[d] = "pending"}

\* UploadTask::stop() sets both; a task that poll() made Done sets neither.
StopRequested == task["Upload"] = "Stopping"
-----------------------------------------------------------------------------
(* The main loop.                                                          *)

\* UploadTask::start() on a task just made by the factory.
StartWorker ==
    /\ worker' = "top"
    /\ connected' = FALSE
    /\ todo' = {}
    /\ sending' = NoDesc
    /\ didWork' = FALSE
    /\ age' = 0
    /\ sinceStart' = 0

BootUpload ==
    /\ pc = "boot" /\ mode = "UploadOnly"
    /\ Core!Bootstrap("Running")
    /\ pc' = "tick"
    /\ StartWorker
    /\ UNCHANGED <<capturing, descVars, portVars>>

\* CaptureLaneTask::start(), called from TaskSlot::start: the capture worker
\* runs before the slot looks at how its task is doing.
Launch ==
    /\ captures < MaxCaptures
    /\ capturing' = "recording"
    /\ pc' = "launch"
    /\ UNCHANGED <<schedulerVars, descVars, portVars, workerVars>>

BootCapture == pc = "boot" /\ mode # "UploadOnly" /\ Launch

\* waitForTrigger: a trigger the scheduler accepts starts a capture.
Trigger == pc = "wait" /\ Core!AcceptsCaptureTrigger /\ Launch

\* What TaskSlot::start finds its capture to be: it may be over already.
CaptureFound == IF capturing \in Core!Terminal THEN capturing ELSE "Running"

Launched ==
    /\ pc = "launch"
    /\ IF bootstrapped
       THEN Core!OnExternalCaptureTrigger(CaptureFound) /\ pc' = "wait"
       ELSE Core!Bootstrap(CaptureFound) /\ pc' = "tick"
    /\ UNCHANGED <<capturing, descVars, portVars, workerVars>>

\* Mutant: Done is decided on the parked consumer alone.
SettledIfParked == idle
Settled == idle /\ ~token

\* UploadTask::timeoutAgeMs.
ReportedAge ==
    IF task["Upload"] \notin Core!Live \/ (~connected /\ sinceStart < ConnectGrace)
    THEN 0 ELSE age

\* poll() is about to find the uploader Done.
Settling == Core!UploadPolls /\ task["Upload"] = "Running" /\ Settled

\* Mutant: the destructor of an uploader that is Done joins the worker, which
\* is parked, without a signal.
SettleUnsignalled ==
    /\ pc = "tick" /\ shutdownReason = "None"
    /\ Settling
    /\ Core!TaskMoves("Upload", "Done")
    /\ pc' = "reap"
    /\ UNCHANGED <<capturing, descVars, portVars, workerVars>>

\* The first half of a tick that polls an uploader Done: the slot drops it, and
\* its destructor stops the port and waits for the worker.
Settle ==
    /\ pc = "tick" /\ shutdownReason = "None"
    /\ Settling
    /\ Core!TaskMoves("Upload", "Done")
    /\ stopped' = TRUE
    /\ pc' = "reap"
    /\ UNCHANGED <<capturing, descVars, token, idle, workerVars>>

AfterTick ==
    IF Core!Expired(task["Upload"], ReportedAge) THEN "stop"
    ELSE IF Core!CaptureOver THEN "push" ELSE "wait"

Tick ==
    /\ pc = "tick" /\ ~Settling
    /\ Core!Tick(task["Upload"], ReportedAge, "Running")
    /\ capturing' = IF Core!CaptureOver THEN "none" ELSE capturing
    /\ pc' = AfterTick
    /\ IF Core!StartsUpload THEN StartWorker ELSE UNCHANGED workerVars
    /\ UNCHANGED <<descVars, portVars>>

\* The rest of it, once the worker has been joined.
Reaped ==
    /\ pc = "reap"
    /\ worker = "exited"
    /\ Core!Tick("Done", 0, "Running")
    /\ worker' = "none"
    /\ pc' = "wait"
    /\ UNCHANGED <<capturing, descVars, portVars, connected, todo, sending, didWork,
                   age, sinceStart>>

Push ==
    /\ pc = "push"
    /\ token' = TRUE
    /\ pc' = "wait"
    /\ UNCHANGED <<schedulerVars, capturing, descVars, idle, stopped, workerVars>>

\* waitForSignal finds a signal.
Signal ==
    /\ pc = "wait"
    /\ Core!SignalShutdown
    /\ pc' = "stop"
    /\ UNCHANGED <<capturing, descVars, portVars, workerVars>>

NextRound ==
    /\ pc = "wait"
    /\ pc' = IF shutdownReason = "None" THEN "tick" ELSE "stop"
    /\ UNCHANGED <<schedulerVars, capturing, descVars, portVars, workerVars>>
-----------------------------------------------------------------------------
(* The end: stopAll(), then persistStrandedTmpDir and the power off.       *)

StopAll ==
    /\ pc = "stop"
    /\ Core!StopAll
    /\ UNCHANGED <<pc, capturing, descVars, portVars, workerVars>>

\* UploadTask::stop() also ends the thread of the storage client, once that is
\* through with its file.  Files queued behind that file stay queued, and the
\* wait for isUploadFinished() in uploadOneDesc then never ends.
Interrupted == IF worker = "send" THEN {"send", "stuck"} ELSE {worker}

StopSlot(t) ==
    /\ Core!StopSlot(t)
    /\ IF t = "Upload" /\ worker # "none"
       THEN stopped' = TRUE /\ worker' \in Interrupted
       ELSE UNCHANGED <<stopped, worker>>
    /\ UNCHANGED <<pc, capturing, descVars, token, idle, connected, todo, sending,
                   didWork, age, sinceStart>>

\* UploadTask::stop() has joined its worker.
UploaderJoined ==
    /\ stopStep = "joinUpload"
    /\ worker = "exited"
    /\ Core!TaskMoves("Upload", "Done")
    /\ worker' = "none"
    /\ UNCHANGED <<pc, capturing, descVars, portVars, connected, todo, sending,
                   didWork, age, sinceStart>>

JoinSlot(t) ==
    /\ Core!JoinSlot(t)
    /\ UNCHANGED <<pc, capturing, descVars, portVars, workerVars>>

\* persistStrandedTmpDir: only after an upload timeout are the tmpfs
\* directories that still exist moved; a mount or a move may fail.
Persist(moved) ==
    /\ pc = "stop"
    /\ stopStep = "stopped"
    /\ moved \subseteq {d \in Pending : shutdownReason = "UploadTimeout"}
    /\ pc' = "off"
    /\ home' = [d \in Descs |-> IF d \in moved THEN "sd" ELSE home[d]]
    /\ UNCHANGED <<schedulerVars, capturing, desc, portVars, workerVars>>
-----------------------------------------------------------------------------
(* The capture worker: any number of descs (a photo, a video), each torn   *)
(* while it is being written; Done follows the last of them.               *)

CaptureWrites(d) ==
    /\ capturing = "recording"
    /\ desc[d] = "absent" /\ \A e \in 1 .. d - 1 : desc[e] # "absent"
    /\ capturing' = "writing"
    /\ desc' = [desc EXCEPT ![d] = "torn"]
    /\ UNCHANGED <<schedulerVars, pc, home, portVars, workerVars>>

CaptureIngests(d) ==
    /\ capturing = "writing"
    /\ desc[d] = "torn"
    /\ capturing' = "recording"
    /\ desc' = [desc EXCEPT ![d] = "pending"]
    /\ UNCHANGED <<schedulerVars, pc, home, portVars, workerVars>>

\* runOnceBlocking returns: false when it was stopped or a trigger failed,
\* whatever was written before.
CaptureEnds(how) ==
    /\ capturing = "recording"
    /\ capturing' = how
    /\ IF pc = "launch" THEN UNCHANGED schedulerVars ELSE Core!TaskMoves("Capture", how)
    /\ UNCHANGED <<pc, descVars, portVars, workerVars>>
-----------------------------------------------------------------------------
(* The upload worker, runLoop.                                             *)

WorkerKeeps == UNCHANGED <<schedulerVars, pc, capturing, home>>

WorkerTop ==
    /\ worker = "top"
    /\ WorkerKeeps
    /\ IF StopRequested
       THEN worker' = "exited" /\ UNCHANGED idle
       ELSE worker' = (IF connected THEN "scan" ELSE "connect") /\ idle' = FALSE
    /\ UNCHANGED <<desc, token, stopped, connected, todo, sending, didWork, age, sinceStart>>

Connect(ok) ==
    /\ worker = "connect"
    /\ WorkerKeeps
    /\ connected' = ok
    /\ worker' = IF ok THEN "scan" ELSE "check"
    /\ age' = IF ok THEN 0 ELSE age
    /\ didWork' = FALSE
    /\ UNCHANGED <<desc, portVars, todo, sending, sinceStart>>

\* listFilenames, at the start of a pass.
Scan ==
    /\ worker = "scan"
    /\ WorkerKeeps
    /\ worker' = "pass"
    /\ todo' = {d \in Descs : desc[d] \in {"torn", "pending"}}
    /\ didWork' = FALSE
    /\ UNCHANGED <<desc, portVars, connected, sending, age, sinceStart>>

\* hasPendingWork on one file of the listing: there is nothing to do for it, ...
Skip(d) ==
    /\ worker = "pass" /\ ~StopRequested
    /\ d \in todo /\ desc[d] # "pending"
    /\ WorkerKeeps
    /\ todo' = todo \ {d}
    /\ UNCHANGED <<desc, portVars, worker, connected, sending, didWork, age, sinceStart>>

\* ... or uploadOneDesc is called, which waits for the storage client ...
BeginUpload(d) ==
    /\ worker = "pass" /\ ~StopRequested
    /\ d \in todo /\ desc[d] = "pending"
    /\ WorkerKeeps
    /\ worker' = "send"
    /\ sending' = d
    /\ todo' = todo \ {d}
    /\ UNCHANGED <<desc, portVars, connected, didWork, age, sinceStart>>

\* ... and returns.
EndUpload(outcome) ==
    /\ worker = "send"
    /\ WorkerKeeps
    /\ worker' = "pass"
    /\ desc' = [desc EXCEPT ![sending] = outcome]
    /\ sending' = NoDesc
    /\ didWork' = TRUE
    /\ UNCHANGED <<portVars, connected, todo, age, sinceStart>>

PassOver ==
    /\ worker = "pass"
    /\ todo = {} \/ StopRequested
    /\ WorkerKeeps
    /\ worker' = "check"
    /\ todo' = {}
    /\ UNCHANGED <<desc, portVars, connected, sending, didWork, age, sinceStart>>

Check ==
    /\ worker = "check"
    /\ WorkerKeeps
    /\ worker' = IF StopRequested THEN "exited" ELSE IF didWork THEN "top" ELSE "park"
    /\ age' = IF didWork /\ ~StopRequested THEN 0 ELSE age
    /\ UNCHANGED <<desc, portVars, connected, todo, sending, didWork, sinceStart>>

\* The end of parkIfNoWork, under its mutex: stopped, or a token to consume.
Woken ==
    IF stopped
    THEN worker' = "exited" /\ UNCHANGED <<token, age>>
    ELSE worker' = "top" /\ token' = FALSE /\ age' = 0

\* Mutant: a token that came during the pass is not looked at.
ParkBlind ==
    /\ worker = "park"
    /\ WorkerKeeps
    /\ IF stopped THEN Woken /\ UNCHANGED idle
                  ELSE worker' = "parked" /\ idle' = TRUE /\ token' = FALSE /\ UNCHANGED age
    /\ UNCHANGED <<desc, stopped, connected, todo, sending, didWork, sinceStart>>

Park ==
    /\ worker = "park"
    /\ WorkerKeeps
    /\ IF stopped \/ token
       THEN Woken /\ UNCHANGED idle
       ELSE worker' = "parked" /\ idle' = TRUE /\ UNCHANGED <<token, age>>
    /\ UNCHANGED <<desc, stopped, connected, todo, sending, didWork, sinceStart>>

Wake ==
    /\ worker = "parked"
    /\ stopped \/ token
    /\ WorkerKeeps
    /\ idle' = FALSE
    /\ Woken
    /\ UNCHANGED <<desc, stopped, connected, todo, sending, didWork, sinceStart>>

Elapse ==
    /\ Core!Elapse
    /\ age' = IF worker = "none" THEN age ELSE Core!Aged(age, UploadTimeout + 1)
    /\ sinceStart' = IF worker = "none" THEN sinceStart
                                        ELSE Core!Aged(sinceStart, ConnectGrace)
    /\ UNCHANGED <<pc, capturing, descVars, portVars, worker, connected, todo, sending,
                   didWork>>
-----------------------------------------------------------------------------
MainLoop ==
    BootUpload \/ BootCapture \/ Launched \/ Settle \/ Reaped \/ Tick \/ Push \/ NextRound

Shutdown ==
    \/ StopAll
    \/ \E t \in Core!TaskTypes : StopSlot(t) \/ JoinSlot(t)
    \/ UploaderJoined
    \/ \E moved \in SUBSET Descs : Persist(moved)

CaptureWorker ==
    \/ \E d \in Descs : CaptureWrites(d) \/ CaptureIngests(d)
    \/ \E how \in Core!Terminal : CaptureEnds(how)

UploadWorker ==
    \/ WorkerTop \/ Scan \/ PassOver \/ Check \/ Park \/ Wake
    \/ \E ok \in ConnectOutcomes : Connect(ok)
    \/ \E d \in Descs : Skip(d) \/ BeginUpload(d)
    \/ \E outcome \in UploadOutcomes : EndUpload(outcome)

Next == MainLoop \/ Trigger \/ Signal \/ Shutdown \/ CaptureWorker \/ UploadWorker \/ Elapse

Spec == Init /\ [][Next]_vars

\* The server takes a description and its media.
ServerAccepts == \E outcome \in UploadOutcomes \ {"pending"} : EndUpload(outcome)

\* Every thread is scheduled and the clock runs; triggers and signals are
\* never owed.  A capture ends: the recorder stops after its configured time.
\* A server that accepts at all and is asked again and again accepts at last.
FairSpec ==
    /\ Spec
    /\ SF_vars(ServerAccepts)
    /\ WF_vars(MainLoop)
    /\ WF_vars(Shutdown)
    /\ WF_vars(CaptureWorker)
    /\ WF_vars(UploadWorker)
    /\ WF_vars(Elapse)
-----------------------------------------------------------------------------
(* Properties.                                                             *)

\* While a connected uploader is parked over pending work, somebody still has
\* to wake it: a capture that is being started or has not left slot 1, the push
\* that follows its removal, or a token not yet consumed.  No wake-up is lost.
WakeUpOwed ==
    worker = "parked" /\ connected /\ Pending # {} /\ shutdownReason = "None" =>
        pc = "launch" \/ task["Capture"] # "None" \/ pc = "push" \/ token

\* A connected uploader that leaves its slot as Done leaves nothing pending:
\* what a capture has written is not left to the next boot.
DoneMeansDrained ==
    [][task["Upload"] # "None" /\ task'["Upload"] = "None" /\ connected =>
         Pending = {}]_vars

\* Every run ends in a power off, whatever is triggered, signalled, refused or
\* timed out, with one exception: stop() may catch the uploader between two
\* files of an upload, and then its join does not return.  The other joins do,
\* that of an uploader which is Done and parked included.
EndsUnlessCaught == <>(pc = "off" \/ worker = "stuck")

\* What the specification of the program promises: an upload timeout, or a
\* signal, is a sure power off.  It does not hold of the code for that
\* exception: no run claims it.
PowersOff == <>(pc = "off")

\* The worker never ends by itself: an uploader in its slot has a live worker
\* until stopAll() asks it to stop.  It does not hold of the code once a second
\* uploader follows the first: no run claims it.
UploaderAlive == task["Upload"] = "Running" => worker \notin {"none", "exited"}

\* Giving up does not lose a work directory: after a shutdown of the program's
\* own making whatever is still pending is on the SD, unless a mount or a move
\* failed in the rescue.  It does not hold of the code when the connection
\* fails: no run claims it.
GiveUpRescued ==
    pc = "off" /\ shutdownReason = "IdleGrace" => \A d \in Pending : home[d] = "sd"
=============================================================================
