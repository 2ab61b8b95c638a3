-------------------------- MODULE WmRuntimeProofs --------------------------
(***************************************************************************)
(* What holds of the wm program for any grace, timeout and number of       *)
(* captures and descriptions, whatever the connection and the server do.   *)
(*                                                                         *)
(* The invariant adds four things to what is known of the scheduler core:  *)
(* the capture worker is where the task in slot 1 says it is, an uploader  *)
(* whose slot is empty has no worker and one that is idle has parked it,   *)
(* an uploader that is being dropped leaves nothing behind, and a worker   *)
(* on its way to park has not missed a description without somebody owing  *)
(* it a wake-up.  The last is the heart of it: a pass works on the listing *)
(* made at its start, so what a capture adds meanwhile is owed by the      *)
(* capture, then by the push, then by the token, and the token is only     *)
(* consumed on the way to the next listing.                                *)
(***************************************************************************)
EXTENDS WmRuntime, TLAPS

\* The scheduler core with the proofs about it; its tasks start as those of Core.
Slots == INSTANCE TaskSchedulerProofs WITH CaptureStarts <- {"Running", "Done", "Failed"},
                                           UploadStarts <- {"Running"}

\* The types of the program without those of the scheduler.
OwnTypes ==
    /\ pc \in {"boot", "launch", "tick", "reap", "push", "wait", "stop", "off"}
    /\ capturing \in {"none", "recording", "writing", "Done", "Failed"}
    /\ desc \in [Descs -> {"absent", "torn", "pending", "gone"}]
    /\ home \in [Descs -> {"tmpfs", "sd"}]
    /\ token \in BOOLEAN
    /\ idle \in BOOLEAN
    /\ stopped \in BOOLEAN
    /\ connected \in BOOLEAN
    /\ didWork \in BOOLEAN
    /\ worker \in {"none", "top", "connect", "scan", "pass", "send", "stuck", "check",
                   "park", "parked", "exited"}
    /\ todo \subseteq Descs
    /\ sending \in Descs \cup {NoDesc}
    /\ age \in 0 .. UploadTimeout + 1
    /\ sinceStart \in 0 .. ConnectGrace

\* A capture that is being launched has a worker already; from then on the
\* worker runs exactly while the task in slot 1 is live, and leaves it as it
\* ended (CaptureLaneTask::start, run).
CaptureInStep ==
    IF pc = "launch" THEN capturing # "none" /\ mode # "UploadOnly"
    ELSE task["Capture"] \in IF capturing = "none" THEN {"None"}
                             ELSE IF capturing \in {"Done", "Failed"} THEN {capturing}
                             ELSE {"Running", "Stopping"}

\* An empty slot 2 has no worker behind it, before a shutdown an uploader in it
\* is Running until it is dropped, and only a parked worker has declared itself
\* idle (UploadTask::start, poll; SlotOutputPort::idle_).
UploadInStep ==
    /\ shutdownReason = "None" /\ pc # "reap" => task["Upload"] \in {"None", "Running"}
    /\ task["Upload"] = "None" => worker = "none"
    /\ idle => worker = "parked"

\* An uploader that is being dropped was Done with no capture about: its worker
\* has only to leave, and nothing can be written behind it (UploadTask::poll,
\* ~UploadTask).
ReapInStep ==
    pc = "reap" =>
        /\ shutdownReason = "None"
        /\ task["Upload"] = "Done" /\ slot["Upload"] \in {"Running", "Stopping"}
        /\ task["Capture"] = "None" /\ capturing = "none"
        /\ worker \in {"parked", "exited"} /\ stopped
        /\ connected => Pending = {}

\* Somebody still has to wake the uploader.
Owed == pc = "launch" \/ task["Capture"] # "None" \/ pc = "push" \/ token

\* What is pending and not on the listing of the pass is owed a wake-up, and so
\* is whatever is pending when a pass has found nothing to do (UploadTask
\* ::runLoop, listFilenames to parkIfNoWork).
NothingMissed ==
    shutdownReason = "None" /\ connected =>
        /\ worker = "pass" /\ ~didWork => Pending \subseteq todo \/ Owed
        /\ worker = "check" /\ ~didWork => Pending = {} \/ Owed
        /\ worker \in {"park", "parked"} => Pending = {} \/ Owed

RuntimeInv == OwnTypes /\ CaptureInStep /\ UploadInStep /\ ReapInStep /\ NothingMissed

IInv == Slots!SlotInv /\ Slots!HandInv /\ RuntimeInv

-----------------------------------------------------------------------------
(* The scheduler core, instantiated twice, is the same.                    *)

\* ... their initial states,
LEMMA SameInit == Core!Init <=> Slots!Init
BY Zenon DEF Core!Init, Core!Modes, Core!TaskTypes, Core!NotIdle,
   Slots!Init, Slots!Modes, Slots!TaskTypes, Slots!NotIdle

\* ... their types,
LEMMA SameTypes == Core!TypeOK <=> Slots!TypeOK
BY Zenon DEF Core!TypeOK, Core!Modes, Core!TaskTypes, Core!Live, Core!Terminal, Core!Reasons,
   Core!StopSteps, Core!NotIdle, Slots!TypeOK, Slots!Modes, Slots!TaskTypes, Slots!Live,
   Slots!Terminal, Slots!Reasons, Slots!StopSteps, Slots!NotIdle

\* ... and their steps.
LEMMA SameNext == [Core!Next]_Core!vars <=> [Slots!Next]_Slots!vars
<1>1. Core!Next <=> Slots!Next
  BY Zenon
  DEF Core!Next, Core!TaskTypes, Core!Modes, Core!Live, Core!Terminal, Core!NotIdle,
      Core!config, Core!Vacant, Core!TaskAfterStart, Core!SlotAfterStart,
      Core!QuietAfterStart, Core!FirstStarts, Core!Marked,
      Core!Polls, Core!UploadPolls, Core!ScheduleCapture, Core!ScheduleUpload, Core!Bootstrap,
      Core!AcceptsCaptureTrigger, Core!TriggerIdle, Core!OnExternalCaptureTrigger,
      Core!CaptureSeen, Core!UploadSeen, Core!CaptureOver, Core!UploadOver, Core!StartsUpload,
      Core!Expired, Core!TaskAfterTick, Core!SlotAfterTick, Core!AllSlotsEmpty,
      Core!RequestShutdown, Core!TickCommon, Core!TickTimesOut, Core!IdleAfterTick,
      Core!TickIdle, Core!TickBusy, Core!Tick, Core!AnyTick, Core!SignalShutdown,
      Core!NextStep, Core!StopAll, Core!StopTurn, Core!JoinTurn, Core!StopSlot, Core!JoinSlot,
      Core!TaskMoves, Core!Aged, Core!Elapse,
      Slots!Next, Slots!TaskTypes, Slots!Modes, Slots!Live, Slots!Terminal, Slots!NotIdle,
      Slots!config, Slots!Vacant, Slots!TaskAfterStart, Slots!SlotAfterStart,
      Slots!QuietAfterStart, Slots!FirstStarts, Slots!Marked,
      Slots!Polls, Slots!UploadPolls, Slots!ScheduleCapture, Slots!ScheduleUpload,
      Slots!Bootstrap, Slots!AcceptsCaptureTrigger, Slots!TriggerIdle,
      Slots!OnExternalCaptureTrigger, Slots!CaptureSeen, Slots!UploadSeen, Slots!CaptureOver,
      Slots!UploadOver, Slots!StartsUpload, Slots!Expired, Slots!TaskAfterTick,
      Slots!SlotAfterTick, Slots!AllSlotsEmpty, Slots!RequestShutdown, Slots!TickCommon,
      Slots!TickTimesOut, Slots!IdleAfterTick, Slots!TickIdle, Slots!TickBusy, Slots!Tick,
      Slots!AnyTick, Slots!SignalShutdown, Slots!NextStep, Slots!StopAll, Slots!StopTurn,
      Slots!JoinTurn, Slots!StopSlot, Slots!JoinSlot, Slots!TaskMoves, Slots!Aged, Slots!Elapse
<1>2. Core!vars = Slots!vars /\ Core!vars' = Slots!vars'
  BY DEF Core!vars, Slots!vars
<1> QED BY <1>1, <1>2

\* The assumption the proofs about the core rest on.
LEMMA CoreAssumed == Slots!SchedulerAssumption
BY RuntimeAssumption DEF Slots!SchedulerAssumption

\* Until a shutdown slot 2 holds a live uploader or none, a slot is empty exactly
\* when it holds no task, and stopAll() follows a shutdown.
LEMMA SlotFacts ==
    ASSUME Slots!SlotInv, Slots!HandInv
    PROVE  /\ task \in [{"Capture", "Upload"} ->
                          {"None", "Ready", "Running", "Stopping", "Done", "Failed"}]
           /\ slot \in [{"Capture", "Upload"} ->
                          {"Empty", "Ready", "Running", "Stopping", "Done", "Failed"}]
           /\ \A t \in {"Capture", "Upload"} : task[t] = "None" <=> slot[t] = "Empty"
           /\ shutdownReason = "None" => slot["Upload"] \in {"Empty", "Running", "Stopping"}
           /\ stopStep # "idle" => shutdownReason # "None"
<1> USE DEF Slots!SlotInv, Slots!HandInv, Slots!TypeOK, Slots!TaskTypes, Slots!Live,
            Slots!Terminal
<1>1. /\ task \in [{"Capture", "Upload"} ->
                     {"None", "Ready", "Running", "Stopping", "Done", "Failed"}]
      /\ slot \in [{"Capture", "Upload"} ->
                     {"Empty", "Ready", "Running", "Stopping", "Done", "Failed"}]
  OBVIOUS
<1>2. /\ \A t \in {"Capture", "Upload"} : task[t] = "None" <=> slot[t] = "Empty"
      /\ shutdownReason = "None" => slot["Upload"] \in {"Empty", "Running", "Stopping"}
  OBVIOUS
<1>3. stopStep # "idle" => shutdownReason # "None"
  OBVIOUS
<1> QED BY <1>1, <1>2, <1>3

-----------------------------------------------------------------------------
(* The steps of the program are steps of the scheduler core.               *)

\* What a tick reports of the uploader is a report the core expects.
LEMMA ReportTyped ==
    ASSUME Slots!SlotInv, Slots!HandInv, OwnTypes
    PROVE  /\ task["Upload"] \in {"None", "Ready"} \cup Core!Live \cup Core!Terminal
           /\ ReportedAge \in 0 .. UploadTimeout + 1
<1>1. task["Upload"] \in {"None", "Ready"} \cup Core!Live \cup Core!Terminal
  BY SlotFacts DEF Core!Live, Core!Terminal
<1>2. ReportedAge \in 0 .. UploadTimeout + 1
  <2>1. 0 \in 0 .. UploadTimeout + 1
    BY RuntimeAssumption
  <2> QED BY <2>1 DEF ReportedAge, OwnTypes
<1> QED BY <1>1, <1>2

\* A capture is found in a state its start may leave it in.
LEMMA FoundTyped ==
    ASSUME OwnTypes
    PROVE  CaptureFound \in {"Running", "Done", "Failed"}
BY DEF CaptureFound, OwnTypes, Core!Terminal

\* Every step of the program is a step of the core or leaves its variables alone.
LEMMA NextMaps ==
    ASSUME Slots!SlotInv, Slots!HandInv, OwnTypes, CaptureInStep, [Next]_vars
    PROVE  [Core!Next]_Core!vars
<1> USE DEF schedulerVars, Core!vars
<1>1. CASE BootUpload
  <2>1. Core!Bootstrap("Running") /\ "Running" \in Core!FirstStarts
    BY <1>1 DEF BootUpload, Core!FirstStarts
  <2> QED BY <2>1, Zenon DEF Core!Next
<1>2. CASE BootCapture \/ Trigger
  BY <1>2 DEF BootCapture, Trigger, Launch
<1>3. CASE Launched
  <2>1. CASE bootstrapped
    <3>1. Core!OnExternalCaptureTrigger(CaptureFound)
      BY <1>3, <2>1 DEF Launched
    <3> QED BY <3>1, FoundTyped, Zenon DEF Core!Next
  <2>2. CASE ~bootstrapped
    <3>1. Core!Bootstrap(CaptureFound) /\ mode # "UploadOnly"
      BY <1>3, <2>2 DEF Launched, CaptureInStep
    <3> QED BY <3>1, FoundTyped, Zenon DEF Core!Next, Core!FirstStarts
  <2> QED BY <2>1, <2>2
<1>4. CASE Tick
  <2>1. Core!Tick(task["Upload"], ReportedAge, "Running")
    BY <1>4 DEF Tick
  <2>2. Core!AnyTick
    BY <2>1, ReportTyped, Zenon DEF Core!AnyTick
  <2> QED BY <2>2, Zenon DEF Core!Next
<1>5. CASE Reaped
  <2>1. Core!Tick("Done", 0, "Running") /\ 0 \in 0 .. UploadTimeout + 1
    BY <1>5, RuntimeAssumption DEF Reaped
  <2>2. Core!AnyTick
    BY <2>1, Zenon DEF Core!AnyTick, Core!Terminal
  <2> QED BY <2>2, Zenon DEF Core!Next
<1>6. CASE Settle \/ UploaderJoined
  <2>1. Core!TaskMoves("Upload", "Done")
    BY <1>6 DEF Settle, UploaderJoined
  <2>2. "Upload" \in Core!TaskTypes /\ "Done" \in {"Stopping"} \cup Core!Terminal
    BY DEF Core!TaskTypes, Core!Terminal
  <2> QED BY <2>1, <2>2, Zenon DEF Core!Next
<1>7. CASE Push \/ NextRound
  BY <1>7 DEF Push, NextRound
<1>8. CASE Signal \/ StopAll
  BY <1>8 DEF Signal, StopAll, Core!Next
<1>9. ASSUME NEW t \in Core!TaskTypes, StopSlot(t) \/ JoinSlot(t)
      PROVE  Core!Next
  BY <1>9, Zenon DEF StopSlot, JoinSlot, Core!Next
<1>10. ASSUME NEW moved \in SUBSET Descs, Persist(moved)
       PROVE  UNCHANGED Core!vars
  BY <1>10 DEF Persist
<1>11. ASSUME NEW d \in Descs, CaptureWrites(d) \/ CaptureIngests(d)
       PROVE  UNCHANGED Core!vars
  BY <1>11 DEF CaptureWrites, CaptureIngests
<1>12. ASSUME NEW how \in Core!Terminal, CaptureEnds(how)
       PROVE  [Core!Next]_Core!vars
  <2>1. CASE pc = "launch"
    BY <1>12, <2>1 DEF CaptureEnds
  <2>2. CASE pc # "launch"
    <3>1. "Capture" \in Core!TaskTypes /\ how \in {"Stopping"} \cup Core!Terminal
      BY DEF Core!TaskTypes
    <3> QED BY <1>12, <2>2, <3>1, Zenon DEF CaptureEnds, Core!Next
  <2> QED BY <2>1, <2>2
<1>13. CASE UploadWorker
  BY <1>13 DEF UploadWorker, WorkerTop, Scan, PassOver, Check, Park, Wake, Connect, Skip,
               BeginUpload, EndUpload, WorkerKeeps
<1>14. CASE Elapse
  BY <1>14 DEF Elapse, Core!Next
<1>15. CASE UNCHANGED vars
  BY <1>15 DEF vars
<1> QED BY <1>1, <1>2, <1>3, <1>4, <1>5, <1>6, <1>7, <1>8, <1>9, <1>10, <1>11, <1>12,
           <1>13, <1>14, <1>15
        DEF Next, MainLoop, Shutdown, CaptureWorker

\* The core keeps its invariants.
LEMMA CoreKeeps ==
    ASSUME Slots!SlotInv, Slots!HandInv, OwnTypes, CaptureInStep, [Next]_vars
    PROVE  Slots!SlotInv' /\ Slots!HandInv'
<1>1. [Slots!Next]_Slots!vars
  BY NextMaps, SameNext
<1>2. Slots!SlotInv'
  BY <1>1, CoreAssumed, Slots!StepKeepsSlots
<1>3. Slots!HandInv'
  <2>1. Slots!RunningUploads
    BY DEF Slots!RunningUploads
  <2>2. CASE Slots!Next
    BY <2>1, <2>2, CoreAssumed, Slots!StepKeepsHands
  <2>3. CASE UNCHANGED Slots!vars
    BY <2>3 DEF Slots!vars, Slots!HandInv
  <2> QED BY <1>1, <2>2, <2>3
<1> QED BY <1>2, <1>3

-----------------------------------------------------------------------------
(* Ticks *)

\* A tick that does not drop an uploader, seen from the tasks: a capture that is
\* over leaves slot 1, and slot 2 keeps its uploader or gets one.
LEMMA TickFacts ==
    ASSUME Slots!SlotInv, Slots!HandInv, UploadInStep, Tick
    PROVE  /\ shutdownReason = "None"
           /\ task'["Capture"] = IF Core!CaptureOver THEN "None" ELSE task["Capture"]
           /\ Core!StartsUpload => task["Upload"] = "None" /\ task'["Upload"] = "Running"
           /\ ~Core!StartsUpload => task'["Upload"] = task["Upload"]
           /\ shutdownReason' = "None" => pc' = IF Core!CaptureOver THEN "push" ELSE "wait"
<1>1. /\ shutdownReason = "None" /\ pc = "tick"
      /\ task' = Core!TaskAfterTick(task["Upload"], "Running")
      /\ shutdownReason' # "None" \/ ~Core!Expired(task["Upload"], ReportedAge)
  BY DEF Tick, Core!Tick, Core!TickTimesOut, Core!TickIdle, Core!TickBusy, Core!TickCommon,
         Core!RequestShutdown
<1>2. ~Core!UploadOver(task["Upload"])
  BY <1>1, SlotFacts
     DEF Core!UploadOver, Core!UploadSeen, Core!Marked, Core!Terminal, UploadInStep
<1>3. /\ task'["Capture"] = IF Core!CaptureOver THEN "None" ELSE task["Capture"]
      /\ task'["Upload"] = IF Core!StartsUpload THEN "Running" ELSE task["Upload"]
  BY <1>1, <1>2 DEF Core!TaskAfterTick, Core!TaskAfterStart, Core!TaskTypes
<1>4. Core!StartsUpload => task["Upload"] = "None"
  BY DEF Core!StartsUpload, Core!Vacant
<1>5. shutdownReason' = "None" => pc' = IF Core!CaptureOver THEN "push" ELSE "wait"
  BY <1>1 DEF Tick, AfterTick
<1> QED BY <1>1, <1>3, <1>4, <1>5

\* The tick that drops an uploader empties slot 2 and no more.
LEMMA ReapFacts ==
    ASSUME ReapInStep, Reaped
    PROVE  task'["Upload"] = "None" /\ task'["Capture"] = task["Capture"]
<1>1. task' = Core!TaskAfterTick("Done", "Running")
  BY DEF Reaped, Core!Tick, Core!TickTimesOut, Core!TickIdle, Core!TickBusy, Core!TickCommon
<1>2. Core!UploadOver("Done")
  BY DEF Reaped, ReapInStep, Core!UploadOver, Core!UploadSeen, Core!UploadPolls, Core!Polls,
         Core!Live, Core!Marked, Core!Terminal
<1>3. ~Core!StartsUpload
  BY DEF Reaped, ReapInStep, Core!StartsUpload, Core!Vacant
<1> QED BY <1>1, <1>2, <1>3 DEF Core!TaskAfterTick, Core!TaskTypes, Reaped, ReapInStep

-----------------------------------------------------------------------------
(* What each step keeps of the program's own invariant.                    *)

\* The types of the program's own variables.
LEMMA TypesKept ==
    ASSUME OwnTypes, [Next]_vars
    PROVE  OwnTypes'
<1> USE DEF OwnTypes, portVars, descVars, workerVars
<1>0. 0 \in 0 .. UploadTimeout + 1 /\ 0 \in 0 .. ConnectGrace
  BY RuntimeAssumption
<1>1. CASE BootUpload
  BY <1>0, <1>1 DEF BootUpload, StartWorker
<1>2. CASE BootCapture \/ Trigger
  BY <1>2 DEF BootCapture, Trigger, Launch
<1>3. CASE Launched
  <2>1. pc' \in {"wait", "tick"}
    BY <1>3 DEF Launched
  <2> QED BY <1>3, <2>1 DEF Launched
<1>4. CASE Tick
  <2>1. pc' \in {"push", "wait", "stop"}
        /\ capturing' \in {"none", "recording", "writing", "Done", "Failed"}
    BY <1>4 DEF Tick, AfterTick
  <2>2. CASE Core!StartsUpload
    BY <1>0, <1>4, <2>1, <2>2 DEF Tick, StartWorker
  <2>3. CASE ~Core!StartsUpload
    BY <1>4, <2>1, <2>3 DEF Tick
  <2> QED BY <2>2, <2>3
<1>5. CASE Settle
  BY <1>5 DEF Settle
<1>6. CASE Reaped
  BY <1>6 DEF Reaped
<1>7. CASE Push
  BY <1>7 DEF Push
<1>8. CASE NextRound \/ Signal \/ StopAll
  BY <1>8 DEF NextRound, Signal, StopAll
<1>9. ASSUME NEW t \in Core!TaskTypes, StopSlot(t) PROVE OwnTypes'
  <2>1. stopped' \in BOOLEAN /\ worker' \in {worker, "send", "stuck"}
    BY <1>9 DEF StopSlot, Interrupted
  <2> QED BY <1>9, <2>1 DEF StopSlot
<1>10. ASSUME NEW t \in Core!TaskTypes, JoinSlot(t) PROVE OwnTypes'
  BY <1>10 DEF JoinSlot
<1>11. CASE UploaderJoined
  BY <1>11 DEF UploaderJoined
<1>12. ASSUME NEW moved \in SUBSET Descs, Persist(moved) PROVE OwnTypes'
  BY <1>12 DEF Persist
<1>13. ASSUME NEW d \in Descs, CaptureWrites(d) \/ CaptureIngests(d) PROVE OwnTypes'
  BY <1>13 DEF CaptureWrites, CaptureIngests
<1>14. ASSUME NEW how \in Core!Terminal, CaptureEnds(how) PROVE OwnTypes'
  BY <1>14 DEF CaptureEnds, Core!Terminal
<1>15. CASE WorkerTop
  BY <1>15 DEF WorkerTop, WorkerKeeps
<1>16. ASSUME NEW ok \in ConnectOutcomes, Connect(ok) PROVE OwnTypes'
  <2>1. ok \in BOOLEAN
    BY RuntimeAssumption
  <2> QED BY <1>0, <1>16, <2>1 DEF Connect, WorkerKeeps
<1>17. CASE Scan
  BY <1>17 DEF Scan, WorkerKeeps
<1>18. ASSUME NEW d \in Descs, Skip(d) \/ BeginUpload(d) PROVE OwnTypes'
  BY <1>18 DEF Skip, BeginUpload, WorkerKeeps
<1>19. ASSUME NEW outcome \in UploadOutcomes, EndUpload(outcome) PROVE OwnTypes'
  <2>1. outcome \in {"gone", "pending"}
    BY RuntimeAssumption
  <2> QED BY <1>19, <2>1 DEF EndUpload, WorkerKeeps
<1>20. CASE PassOver
  BY <1>20 DEF PassOver, WorkerKeeps
<1>21. CASE Check
  BY <1>0, <1>21 DEF Check, WorkerKeeps
<1>22. CASE Park
  BY <1>0, <1>22 DEF Park, Woken, WorkerKeeps
<1>23. CASE Wake
  BY <1>0, <1>23 DEF Wake, Woken, WorkerKeeps
<1>24. CASE Elapse
  <2>1. /\ age' \in 0 .. UploadTimeout + 1
        /\ sinceStart' \in 0 .. ConnectGrace
    BY <1>24, RuntimeAssumption DEF Elapse, Core!Aged
  <2> QED BY <1>24, <2>1 DEF Elapse
<1>25. CASE UNCHANGED vars
  BY <1>25 DEF vars
<1> QED BY <1>1, <1>2, <1>3, <1>4, <1>5, <1>6, <1>7, <1>8, <1>9, <1>10, <1>11, <1>12,
           <1>13, <1>14, <1>15, <1>16, <1>17, <1>18, <1>19, <1>20, <1>21, <1>22, <1>23, <1>24,
           <1>25
        DEF Next, MainLoop, Shutdown, CaptureWorker, UploadWorker

\* The capture worker stays in step with slot 1.
LEMMA CaptureKept ==
    ASSUME Slots!SlotInv, Slots!HandInv, OwnTypes, CaptureInStep, UploadInStep, ReapInStep,
           [Next]_vars
    PROVE  CaptureInStep'
<1> USE DEF CaptureInStep
<1>0. task \in [{"Capture", "Upload"} ->
                  {"None", "Ready", "Running", "Stopping", "Done", "Failed"}]
  BY SlotFacts
<1>1. CASE BootUpload
  <2>1. /\ task'["Capture"] = task["Capture"] /\ capturing' = capturing
        /\ pc = "boot" /\ pc' = "tick"
    BY <1>0, <1>1 DEF BootUpload, Core!Bootstrap, Core!ScheduleUpload
  <2> QED BY <2>1
<1>2. CASE BootCapture \/ Trigger
  <2>1. pc' = "launch" /\ capturing' = "recording" /\ mode' = mode /\ mode # "UploadOnly"
    BY <1>2 DEF BootCapture, Trigger, Launch, Core!AcceptsCaptureTrigger, schedulerVars
  <2> QED BY <2>1
<1>3. CASE Launched
  <2>1. Core!ScheduleCapture(CaptureFound)
    BY <1>3 DEF Launched, Core!Bootstrap, Core!OnExternalCaptureTrigger
  <2>2. /\ task'["Capture"] = CaptureFound /\ capturing' = capturing
        /\ pc = "launch" /\ pc' # "launch"
    BY <1>0, <1>3, <2>1, FoundTyped DEF Launched, Core!ScheduleCapture, Core!TaskAfterStart
  <2> QED BY <2>2 DEF CaptureFound, Core!Terminal, OwnTypes
<1>4. CASE Tick
  <2>1. /\ capturing' = IF Core!CaptureOver THEN "none" ELSE capturing
        /\ pc = "tick" /\ pc' # "launch"
    BY <1>4 DEF Tick, AfterTick
  <2>2. task'["Capture"] = IF Core!CaptureOver THEN "None" ELSE task["Capture"]
    BY <1>4, TickFacts
  <2> QED BY <2>1, <2>2
<1>5. CASE Settle \/ UploaderJoined
  <2>1. task'["Capture"] = task["Capture"] /\ capturing' = capturing /\ mode' = mode
    BY <1>0, <1>5 DEF Settle, UploaderJoined, Core!TaskMoves, Core!config
  <2>2. pc = "launch" <=> pc' = "launch"
    BY <1>5 DEF Settle, UploaderJoined
  <2> QED BY <2>1, <2>2
<1>6. CASE Reaped
  <2>1. /\ task'["Capture"] = task["Capture"] /\ capturing' = capturing
        /\ pc = "reap" /\ pc' = "wait"
    BY <1>6, ReapFacts DEF Reaped
  <2> QED BY <2>1
<1>7. CASE Push \/ NextRound
  BY <1>7 DEF Push, NextRound, schedulerVars
<1>8. CASE Signal \/ StopAll
  BY <1>8 DEF Signal, StopAll, Core!SignalShutdown, Core!StopAll, Core!config
<1>9. ASSUME NEW t \in Core!TaskTypes, StopSlot(t) PROVE CaptureInStep'
  <2>1. /\ t \in {"Capture", "Upload"} /\ UNCHANGED <<capturing, pc, mode>>
        /\ task' = IF task[t] = "Running" THEN [task EXCEPT ![t] = "Stopping"] ELSE task
    BY <1>9 DEF StopSlot, Core!StopSlot, Core!TaskTypes, Core!config
  <2>2. \/ task'["Capture"] = task["Capture"]
        \/ task["Capture"] = "Running" /\ task'["Capture"] = "Stopping"
    BY <1>0, <2>1
  <2> QED BY <2>1, <2>2
<1>10. ASSUME NEW t \in Core!TaskTypes, JoinSlot(t) PROVE CaptureInStep'
  BY <1>10 DEF JoinSlot, Core!JoinSlot, Core!config
<1>11. ASSUME NEW moved \in SUBSET Descs, Persist(moved) PROVE CaptureInStep'
  BY <1>11 DEF Persist, schedulerVars
<1>12. ASSUME NEW d \in Descs, CaptureWrites(d) \/ CaptureIngests(d) PROVE CaptureInStep'
  BY <1>12 DEF CaptureWrites, CaptureIngests, schedulerVars
<1>13. ASSUME NEW how \in Core!Terminal, CaptureEnds(how) PROVE CaptureInStep'
  <2>1. how \in {"Done", "Failed"} /\ capturing' = how /\ pc' = pc
    BY <1>13 DEF CaptureEnds, Core!Terminal
  <2>2. CASE pc = "launch"
    BY <1>13, <2>1, <2>2 DEF CaptureEnds, schedulerVars
  <2>3. CASE pc # "launch"
    <3>1. task'["Capture"] = how
      BY <1>0, <1>13, <2>3 DEF CaptureEnds, Core!TaskMoves
    <3> QED BY <2>1, <2>3, <3>1
  <2> QED BY <2>2, <2>3
<1>14. CASE UploadWorker
  BY <1>14 DEF UploadWorker, WorkerTop, Scan, PassOver, Check, Park, Wake, Connect, Skip,
               BeginUpload, EndUpload, WorkerKeeps, schedulerVars
<1>15. CASE Elapse
  BY <1>15 DEF Elapse, Core!Elapse, Core!config
<1>16. CASE UNCHANGED vars
  BY <1>16 DEF vars, schedulerVars
<1> QED BY <1>1, <1>2, <1>3, <1>4, <1>5, <1>6, <1>7, <1>8, <1>9, <1>10, <1>11, <1>12,
           <1>13, <1>14, <1>15, <1>16
        DEF Next, MainLoop, Shutdown, CaptureWorker

\* The uploader and its worker stay in step with slot 2.
LEMMA UploadKept ==
    ASSUME Slots!SlotInv, Slots!HandInv, CaptureInStep, UploadInStep, ReapInStep, [Next]_vars
    PROVE  UploadInStep'
<1> USE DEF UploadInStep, portVars, workerVars, schedulerVars
<1>0. /\ task \in [{"Capture", "Upload"} ->
                     {"None", "Ready", "Running", "Stopping", "Done", "Failed"}]
      /\ stopStep # "idle" => shutdownReason # "None"
  BY SlotFacts
<1>1. CASE BootUpload
  <2>1. /\ task["Upload"] = "None" /\ task'["Upload"] = "Running"
        /\ shutdownReason' = shutdownReason /\ worker' = "top" /\ idle' = idle
    BY <1>0, <1>1 DEF BootUpload, Core!Bootstrap, Core!ScheduleUpload, Core!Vacant,
                      Core!TaskAfterStart, StartWorker
  <2> QED BY <2>1
<1>2. CASE BootCapture \/ Trigger
  BY <1>2 DEF BootCapture, Trigger, Launch
<1>3. CASE Launched
  <2>1. /\ Core!ScheduleCapture(CaptureFound)
        /\ UNCHANGED <<shutdownReason, worker, idle>> /\ pc = "launch"
    BY <1>3 DEF Launched, Core!Bootstrap, Core!OnExternalCaptureTrigger, CaptureInStep
  <2>2. task'["Upload"] = task["Upload"]
    BY <1>0, <2>1 DEF Core!ScheduleCapture
  <2> QED BY <2>1, <2>2
<1>4. CASE Tick
  <2>1. CASE Core!StartsUpload
    <3>1. /\ task["Upload"] = "None" /\ task'["Upload"] = "Running"
          /\ worker' = "top" /\ idle' = idle
      BY <1>4, <2>1, TickFacts DEF Tick, StartWorker
    <3> QED BY <3>1
  <2>2. CASE ~Core!StartsUpload
    <3>1. /\ task'["Upload"] = task["Upload"] /\ shutdownReason = "None" /\ pc = "tick"
          /\ worker' = worker /\ idle' = idle
      BY <1>4, <2>2, TickFacts DEF Tick
    <3> QED BY <3>1
  <2> QED BY <2>1, <2>2
<1>5. CASE Settle
  <2>1. task'["Upload"] = "Done" /\ UNCHANGED <<worker, idle>> /\ pc' = "reap"
    BY <1>0, <1>5 DEF Settle, Core!TaskMoves
  <2> QED BY <2>1
<1>6. CASE Reaped
  <2>1. /\ task'["Upload"] = "None" /\ worker = "exited" /\ worker' = "none"
        /\ idle' = idle
    BY <1>6, ReapFacts DEF Reaped
  <2> QED BY <2>1
<1>7. CASE Push \/ NextRound
  BY <1>7 DEF Push, NextRound
<1>8. CASE Signal \/ StopAll
  BY <1>8 DEF Signal, StopAll, Core!SignalShutdown, Core!RequestShutdown, Core!StopAll
<1>9. ASSUME NEW t \in Core!TaskTypes, StopSlot(t) PROVE UploadInStep'
  <2>1. /\ stopStep # "idle" /\ shutdownReason' = shutdownReason /\ idle' = idle
        /\ task'["Upload"] = "None" <=> task["Upload"] = "None"
    BY <1>0, <1>9 DEF StopSlot, Core!StopSlot, Core!TaskTypes, Core!StopTurn
  <2>2. worker \in {"none", "parked"} => worker' = worker
    BY <1>9 DEF StopSlot, Interrupted
  <2> QED BY <1>0, <2>1, <2>2
<1>10. ASSUME NEW t \in Core!TaskTypes, JoinSlot(t) PROVE UploadInStep'
  BY <1>10 DEF JoinSlot, Core!JoinSlot
<1>11. CASE UploaderJoined
  <2>1. /\ stopStep # "idle" /\ shutdownReason' = shutdownReason
        /\ worker = "exited" /\ worker' = "none" /\ idle' = idle
    BY <1>11 DEF UploaderJoined, Core!TaskMoves
  <2> QED BY <1>0, <2>1
<1>12. ASSUME NEW moved \in SUBSET Descs, Persist(moved) PROVE UploadInStep'
  <2>1. stopStep # "idle" /\ UNCHANGED <<task, shutdownReason, worker, idle>>
    BY <1>12 DEF Persist
  <2> QED BY <1>0, <2>1
<1>13. ASSUME NEW d \in Descs, CaptureWrites(d) \/ CaptureIngests(d) PROVE UploadInStep'
  BY <1>13 DEF CaptureWrites, CaptureIngests
<1>14. ASSUME NEW how \in Core!Terminal, CaptureEnds(how) PROVE UploadInStep'
  <2>1. /\ task'["Upload"] = task["Upload"] /\ UNCHANGED <<pc, worker, idle>>
        /\ shutdownReason' = shutdownReason
    BY <1>0, <1>14 DEF CaptureEnds, Core!TaskMoves
  <2> QED BY <2>1
<1>15. CASE UploadWorker
  <2>1. /\ worker # "none" /\ worker' # "none" /\ UNCHANGED <<schedulerVars, pc>>
        /\ idle' => worker' = "parked"
    BY <1>15 DEF UploadWorker, WorkerTop, Scan, PassOver, Check, Park, Wake, Woken, Connect,
                 Skip, BeginUpload, EndUpload, WorkerKeeps
  <2> QED BY <2>1
<1>16. CASE Elapse
  BY <1>16 DEF Elapse, Core!Elapse
<1>17. CASE UNCHANGED vars
  BY <1>17 DEF vars
<1> QED BY <1>1, <1>2, <1>3, <1>4, <1>5, <1>6, <1>7, <1>8, <1>9, <1>10, <1>11, <1>12,
           <1>13, <1>14, <1>15, <1>16, <1>17
        DEF Next, MainLoop, Shutdown, CaptureWorker

\* While an uploader is dropped nothing happens but that its worker leaves.
LEMMA ReapKept ==
    ASSUME Slots!SlotInv, Slots!HandInv, CaptureInStep, UploadInStep, ReapInStep,
           NothingMissed, [Next]_vars
    PROVE  ReapInStep'
<1> USE DEF ReapInStep, portVars, workerVars, schedulerVars, descVars
<1>0. /\ task \in [{"Capture", "Upload"} ->
                     {"None", "Ready", "Running", "Stopping", "Done", "Failed"}]
      /\ stopStep # "idle" => shutdownReason # "None"
  BY SlotFacts
<1>1. CASE MainLoop /\ ~Settle
  <2>1. pc' # "reap"
    BY <1>1 DEF MainLoop, BootUpload, BootCapture, Launch, Launched, Reaped, Tick, AfterTick,
                Push, NextRound
  <2> QED BY <2>1
<1>2. CASE Trigger \/ Signal
  BY <1>2 DEF Trigger, Launch, Signal
<1>3. CASE Settle
  <2>1. /\ UNCHANGED <<slot, shutdownReason, worker, connected, desc, capturing>>
        /\ task'["Capture"] = task["Capture"] /\ task'["Upload"] = "Done" /\ stopped'
    BY <1>0, <1>3 DEF Settle, Core!TaskMoves
  <2>2. /\ shutdownReason = "None" /\ task["Upload"] = "Running" /\ idle /\ ~token
        /\ slot["Upload"] \in {"Running", "Stopping"} /\ task["Capture"] = "None"
        /\ pc = "tick"
    BY <1>3 DEF Settle, Settling, Settled, Core!UploadPolls, Core!Polls, Core!Live
  <2>3. capturing = "none"
    BY <2>2 DEF CaptureInStep
  <2>4. worker = "parked"
    BY <2>2 DEF UploadInStep
  <2>5. connected => Pending = {}
    BY <2>2, <2>4 DEF NothingMissed, Owed
  <2>6. Pending' = Pending
    BY <2>1 DEF Pending
  <2> QED BY <2>1, <2>2, <2>3, <2>4, <2>5, <2>6
<1>4. CASE pc = "reap" /\ Shutdown
  <2>1. pc = "reap" => stopStep = "idle"
    BY <1>0
  <2> QED BY <1>4, <2>1
          DEF Shutdown, StopAll, StopSlot, JoinSlot, UploaderJoined, Persist, Core!StopAll,
              Core!StopSlot, Core!JoinSlot, Core!StopTurn, Core!JoinTurn, Core!TaskTypes
<1>5. CASE pc # "reap" /\ Shutdown
  BY <1>5 DEF Shutdown, StopAll, StopSlot, JoinSlot, UploaderJoined, Persist
<1>6. CASE CaptureWorker
  BY <1>6 DEF CaptureWorker, CaptureWrites, CaptureIngests, CaptureEnds
<1>7. CASE UploadWorker
  <2>1. /\ UNCHANGED <<schedulerVars, pc, capturing>>
        /\ worker \in {"parked", "exited"} /\ stopped =>
               UNCHANGED <<stopped, connected, desc>> /\ worker' = "exited"
    BY <1>7 DEF UploadWorker, WorkerTop, Scan, PassOver, Check, Park, Wake, Woken, Connect,
                Skip, BeginUpload, EndUpload, WorkerKeeps
  <2> QED BY <2>1 DEF Pending
<1>8. CASE Elapse
  BY <1>8 DEF Elapse, Core!Elapse, Pending
<1>9. CASE UNCHANGED vars
  BY <1>9 DEF vars, Pending
<1> QED BY <1>1, <1>2, <1>3, <1>4, <1>5, <1>6, <1>7, <1>8, <1>9 DEF Next

\* While the scheduler runs on, a step of the main loop hands the debt on: from
\* the capture to the push to the token.
LEMMA DebtHandedOn ==
    ASSUME Slots!SlotInv, Slots!HandInv, OwnTypes, CaptureInStep, UploadInStep, Owed,
           Launched \/ Tick \/ Settle \/ Push \/ NextRound \/ Trigger,
           shutdownReason' = "None"
    PROVE  Owed'
<1> USE DEF Owed
<1>0. task \in [{"Capture", "Upload"} ->
                  {"None", "Ready", "Running", "Stopping", "Done", "Failed"}]
  BY SlotFacts
<1>1. CASE Launched
  <2>1. Core!ScheduleCapture(CaptureFound)
    BY <1>1 DEF Launched, Core!Bootstrap, Core!OnExternalCaptureTrigger, CaptureInStep
  <2> QED BY <1>0, <2>1, FoundTyped DEF Core!ScheduleCapture, Core!TaskAfterStart
<1>2. CASE Tick
  <2>1. pc = "tick" /\ token' = token
    BY <1>2 DEF Tick, portVars
  <2> QED BY <1>2, <2>1, TickFacts
<1>3. CASE Settle
  <2>1. pc = "tick" /\ token' = token /\ task'["Capture"] = task["Capture"]
    BY <1>0, <1>3 DEF Settle, Core!TaskMoves
  <2> QED BY <2>1
<1>4. CASE Push
  BY <1>4 DEF Push
<1>5. CASE NextRound
  BY <1>5 DEF NextRound, schedulerVars, portVars
<1>6. CASE Trigger
  BY <1>6 DEF Trigger, Launch
<1> QED BY <1>1, <1>2, <1>3, <1>4, <1>5, <1>6

\* A step that leaves the worker, the listing, the connection and the pending
\* descriptions alone has only to hand the debt on.
LEMMA WorkerUntouched ==
    ASSUME NothingMissed, UNCHANGED <<worker, connected, todo, didWork, desc>>,
           shutdownReason' = "None" => shutdownReason = "None",
           shutdownReason' = "None" => (Owed => Owed')
    PROVE  NothingMissed'
BY DEF NothingMissed, Pending

\* What a pass has not listed stays owed: no step between the listing and the park
\* takes a wake-up away.
LEMMA MissedKept ==
    ASSUME Slots!SlotInv, Slots!HandInv, OwnTypes, CaptureInStep, UploadInStep, ReapInStep,
           NothingMissed, [Next]_vars
    PROVE  NothingMissed'
<1> USE DEF portVars, workerVars, schedulerVars, descVars
<1>0. /\ task \in [{"Capture", "Upload"} ->
                     {"None", "Ready", "Running", "Stopping", "Done", "Failed"}]
      /\ stopStep # "idle" => shutdownReason # "None"
  BY SlotFacts
<1>1. CASE BootUpload
  BY <1>1 DEF BootUpload, StartWorker, NothingMissed
<1>2. CASE BootCapture \/ Trigger
  <2>1. UNCHANGED <<worker, connected, todo, didWork, desc, shutdownReason>>
        /\ pc' = "launch"
    BY <1>2 DEF BootCapture, Trigger, Launch
  <2> QED BY <2>1, WorkerUntouched DEF Owed
<1>3. CASE Launched \/ Settle \/ Push \/ NextRound
  <2>1. /\ UNCHANGED <<worker, connected, todo, didWork, desc>>
        /\ shutdownReason' = shutdownReason
    BY <1>3 DEF Launched, Settle, Push, NextRound, Core!OnExternalCaptureTrigger,
                Core!Bootstrap, Core!TaskMoves
  <2> QED BY <1>3, <2>1, WorkerUntouched, DebtHandedOn
<1>4. CASE Tick
  <2>1. CASE worker' = "top"
    BY <2>1 DEF NothingMissed
  <2>2. CASE worker' # "top"
    <3>1. /\ UNCHANGED <<worker, connected, todo, didWork, desc>>
          /\ shutdownReason = "None"
      BY <1>4, <2>2, TickFacts DEF Tick, StartWorker
    <3> QED BY <1>4, <3>1, WorkerUntouched, DebtHandedOn
  <2> QED BY <2>1, <2>2
<1>5. CASE Reaped
  BY <1>5 DEF Reaped, NothingMissed
<1>6. CASE Signal \/ StopAll
  <2>1. shutdownReason' # "None"
    BY <1>6 DEF Signal, StopAll, Core!SignalShutdown, Core!RequestShutdown, Core!StopAll
  <2> QED BY <2>1 DEF NothingMissed
<1>7. ASSUME NEW t \in Core!TaskTypes, StopSlot(t) \/ JoinSlot(t) PROVE NothingMissed'
  <2>1. stopStep # "idle" /\ shutdownReason' = shutdownReason
    BY <1>7 DEF StopSlot, Core!StopSlot, JoinSlot, Core!JoinSlot, Core!TaskTypes,
                Core!StopTurn, Core!JoinTurn
  <2> QED BY <1>0, <2>1 DEF NothingMissed
<1>8. CASE UploaderJoined
  BY <1>8 DEF UploaderJoined, NothingMissed
<1>9. ASSUME NEW moved \in SUBSET Descs, Persist(moved) PROVE NothingMissed'
  <2>1. stopStep # "idle" /\ shutdownReason' = shutdownReason
    BY <1>9 DEF Persist
  <2> QED BY <1>0, <2>1 DEF NothingMissed
<1>10. ASSUME NEW d \in Descs, CaptureWrites(d) \/ CaptureIngests(d) PROVE NothingMissed'
  <2>1. capturing \in {"recording", "writing"} /\ UNCHANGED <<task, pc>>
    BY <1>10 DEF CaptureWrites, CaptureIngests
  <2>2. Owed'
    BY <2>1 DEF CaptureInStep, Owed
  <2> QED BY <2>2 DEF NothingMissed
<1>11. ASSUME NEW how \in Core!Terminal, CaptureEnds(how) PROVE NothingMissed'
  <2>1. CASE pc = "launch"
    BY <1>11, <2>1, WorkerUntouched DEF CaptureEnds, Owed
  <2>2. CASE pc # "launch"
    <3>1. task'["Capture"] # "None"
      BY <1>0, <1>11, <2>2 DEF CaptureEnds, Core!TaskMoves, Core!Terminal
    <3> QED BY <3>1 DEF NothingMissed, Owed
  <2> QED BY <2>1, <2>2
<1>12. CASE WorkerTop
  BY <1>12 DEF WorkerTop, NothingMissed
<1>13. ASSUME NEW ok \in ConnectOutcomes, Connect(ok) PROVE NothingMissed'
  <2>1. ok \in BOOLEAN
    BY RuntimeAssumption
  <2> QED BY <1>13, <2>1 DEF Connect, NothingMissed
<1>14. CASE Scan
  <2>1. worker' = "pass" /\ Pending' \subseteq todo'
    BY <1>14 DEF Scan, Pending
  <2> QED BY <2>1 DEF NothingMissed
<1>15. ASSUME NEW d \in Descs, Skip(d) PROVE NothingMissed'
  <2>1. /\ worker = "pass" /\ worker' = "pass" /\ connected' = connected
        /\ UNCHANGED <<task, pc, token, shutdownReason, desc, didWork>>
        /\ todo' = todo \ {d} /\ d \notin Pending
    BY <1>15 DEF Skip, WorkerKeeps, Pending
  <2>2. Pending' = Pending
    BY <2>1 DEF Pending
  <2>3. Owed' <=> Owed
    BY <2>1 DEF Owed
  <2> QED BY <2>1, <2>2, <2>3 DEF NothingMissed
<1>16. ASSUME NEW d \in Descs, BeginUpload(d) PROVE NothingMissed'
  BY <1>16 DEF BeginUpload, NothingMissed
<1>17. ASSUME NEW outcome \in UploadOutcomes, EndUpload(outcome) PROVE NothingMissed'
  BY <1>17 DEF EndUpload, NothingMissed
<1>18. CASE PassOver
  <2>1. /\ worker = "pass" /\ worker' = "check" /\ connected' = connected
        /\ UNCHANGED <<desc, didWork, task, pc, token, shutdownReason>>
    BY <1>18 DEF PassOver, WorkerKeeps
  <2>2. shutdownReason = "None" => todo = {}
    BY <1>18 DEF PassOver, StopRequested, UploadInStep, ReapInStep
  <2>3. Pending' = Pending
    BY <2>1 DEF Pending
  <2>4. Owed' <=> Owed
    BY <2>1 DEF Owed
  <2> QED BY <2>1, <2>2, <2>3, <2>4 DEF NothingMissed
<1>19. CASE Check
  <2>1. /\ worker = "check" /\ connected' = connected
        /\ UNCHANGED <<desc, task, pc, token, shutdownReason>>
        /\ worker' = "park" => ~didWork
        /\ worker' \in {"exited", "top", "park"}
    BY <1>19 DEF Check, WorkerKeeps
  <2>2. Pending' = Pending
    BY <2>1 DEF Pending
  <2>3. Owed' <=> Owed
    BY <2>1 DEF Owed
  <2> QED BY <2>1, <2>2, <2>3 DEF NothingMissed
<1>20. CASE Park \/ Wake
  <2>1. CASE worker' \in {"exited", "top"}
    BY <2>1 DEF NothingMissed
  <2>2. CASE worker' \notin {"exited", "top"}
    <3>1. /\ worker = "park" /\ worker' = "parked" /\ connected' = connected
          /\ UNCHANGED <<desc, task, pc, token, shutdownReason>>
      BY <1>20, <2>2 DEF Park, Wake, Woken, WorkerKeeps
    <3>2. Pending' = Pending
      BY <3>1 DEF Pending
    <3>3. Owed' <=> Owed
      BY <3>1 DEF Owed
    <3> QED BY <3>1, <3>2, <3>3 DEF NothingMissed
  <2> QED BY <2>1, <2>2
<1>21. CASE Elapse
  <2>1. /\ UNCHANGED <<worker, connected, todo, didWork, desc, token, pc>>
        /\ UNCHANGED <<task, shutdownReason>>
    BY <1>21 DEF Elapse, Core!Elapse
  <2> QED BY <2>1, WorkerUntouched DEF Owed
<1>22. CASE UNCHANGED vars
  BY <1>22, WorkerUntouched DEF vars, Owed
<1> QED BY <1>1, <1>2, <1>3, <1>4, <1>5, <1>6, <1>7, <1>8, <1>9, <1>10, <1>11, <1>12,
           <1>13, <1>14, <1>15, <1>16, <1>17, <1>18, <1>19, <1>20, <1>21, <1>22
        DEF Next, MainLoop, Shutdown, CaptureWorker, UploadWorker

-----------------------------------------------------------------------------
(* The theorems.                                                           *)

\* The invariant holds when wm starts.
LEMMA InitInv == Init => IInv
<1> SUFFICES ASSUME Init PROVE IInv
  OBVIOUS
<1>1. Slots!SlotInv /\ Slots!HandInv
  <2>1. Slots!Init
    BY SameInit DEF Init
  <2>2. Slots!SlotInv
    BY <2>1, CoreAssumed, Slots!SlotInvInit
  <2>3. Slots!HandInv
    BY <2>1 DEF Slots!Init, Slots!HandInv, Slots!TaskTypes
  <2> QED BY <2>2, <2>3
<1>2. OwnTypes
  <2>1. 0 \in 0 .. UploadTimeout + 1 /\ 0 \in 0 .. ConnectGrace
    BY RuntimeAssumption
  <2>2. /\ desc \in [Descs -> {"absent", "torn", "pending", "gone"}]
        /\ home \in [Descs -> {"tmpfs", "sd"}]
    BY DEF Init
  <2> QED BY <2>1, <2>2 DEF Init, OwnTypes
<1>3. CaptureInStep /\ UploadInStep /\ ReapInStep /\ NothingMissed
  BY DEF Init, Core!Init, Core!TaskTypes, CaptureInStep, UploadInStep, ReapInStep,
         NothingMissed
<1> QED BY <1>1, <1>2, <1>3 DEF IInv, RuntimeInv

\* Every step keeps it.
LEMMA NextInv == IInv /\ [Next]_vars => IInv'
BY CoreKeeps, TypesKept, CaptureKept, UploadKept, ReapKept, MissedKept DEF IInv, RuntimeInv

\* It holds throughout.
LEMMA InvHolds == Spec => []IInv
BY InitInv, NextInv, PTL DEF Spec

\* The program gives the core tasks that keep to the WmTask interface.
LEMMA ProgramIsCore == Spec => Slots!Spec
<1>1. IInv /\ [Next]_vars => [Slots!Next]_Slots!vars
  BY NextMaps, SameNext DEF IInv, RuntimeInv
<1>2. Init => Slots!Init
  BY SameInit DEF Init
<1> QED BY InvHolds, <1>1, <1>2, PTL DEF Spec, Slots!Spec

\* The state of the program and of its scheduler stays what it may be.
THEOREM TypesHold == Spec => []TypeOK
<1>1. IInv => TypeOK
  BY SameTypes DEF IInv, RuntimeInv, OwnTypes, TypeOK, Slots!SlotInv
<1> QED BY InvHolds, <1>1, PTL

\* No wake-up is lost: a connected uploader is never parked over pending work
\* that nobody will wake it for, wherever in its pass, its listing or its way
\* to the park the capture was written (UploadTask::runLoop,
\* SlotOutputPort::parkIfNoWork, WmScheduler::run).
THEOREM WakeUpIsOwed == Spec => []WakeUpOwed
<1>1. IInv => WakeUpOwed
  BY DEF IInv, RuntimeInv, NothingMissed, WakeUpOwed, Owed
<1> QED BY InvHolds, <1>1, PTL

\* A connected uploader is Done only over an empty work list, and that list is
\* still empty when its worker has been joined (UploadTask::poll, ~UploadTask).
THEOREM DoneIsDrained == Spec => DoneMeansDrained
<1> DEFINE Drained == task["Upload"] # "None" /\ task'["Upload"] = "None" /\ connected =>
                          Pending = {}
<1>1. IInv /\ [Next]_vars => [Drained]_vars
  <2> SUFFICES ASSUME IInv, Next, task["Upload"] # "None", task'["Upload"] = "None", connected
               PROVE  Pending = {}
    BY DEF vars
  <2>0. /\ Slots!SlotInv /\ Slots!HandInv /\ OwnTypes /\ CaptureInStep
        /\ UploadInStep /\ ReapInStep /\ NothingMissed
    BY DEF IInv, RuntimeInv
  <2>1. CASE Reaped
    BY <2>0, <2>1 DEF Reaped, ReapInStep
  <2>2. CASE ~Reaped
    <3>0. task \in [{"Capture", "Upload"} ->
                      {"None", "Ready", "Running", "Stopping", "Done", "Failed"}]
      BY <2>0, SlotFacts
    <3> USE DEF schedulerVars
    <3>1. CASE BootUpload \/ Launched
      BY <2>0, <3>0, <3>1, FoundTyped
         DEF BootUpload, Launched, Core!Bootstrap, Core!OnExternalCaptureTrigger,
             Core!ScheduleCapture, Core!ScheduleUpload, Core!TaskAfterStart
    <3>2. CASE BootCapture \/ Trigger \/ Push \/ NextRound
      BY <3>2 DEF BootCapture, Trigger, Launch, Push, NextRound
    <3>3. CASE Signal \/ StopAll \/ Elapse
      BY <3>3 DEF Signal, StopAll, Elapse, Core!SignalShutdown, Core!StopAll, Core!Elapse
    <3>4. CASE Tick
      BY <2>0, <3>4, TickFacts
    <3>5. CASE Settle \/ UploaderJoined
      BY <3>0, <3>5 DEF Settle, UploaderJoined, Core!TaskMoves
    <3>6. ASSUME NEW t \in Core!TaskTypes, StopSlot(t) \/ JoinSlot(t) PROVE FALSE
      BY <3>0, <3>6 DEF StopSlot, JoinSlot, Core!StopSlot, Core!JoinSlot
    <3>7. ASSUME NEW moved \in SUBSET Descs, Persist(moved) PROVE FALSE
      BY <3>7 DEF Persist
    <3>8. CASE CaptureWorker
      BY <3>0, <3>8 DEF CaptureWorker, CaptureWrites, CaptureIngests, CaptureEnds,
                        Core!TaskMoves, Core!Terminal
    <3>9. CASE UploadWorker
      BY <3>9 DEF UploadWorker, WorkerTop, Scan, PassOver, Check, Park, Wake, Connect, Skip,
                  BeginUpload, EndUpload, WorkerKeeps
    <3> QED BY <2>2, <3>1, <3>2, <3>3, <3>4, <3>5, <3>6, <3>7, <3>8, <3>9
            DEF Next, MainLoop, Shutdown
  <2> QED BY <2>1, <2>2
<1> QED BY InvHolds, <1>1, PTL DEF Spec, DoneMeansDrained

\* What is proved of the core, of the program with its threads and its port: a
\* shutdown is final, an idle one follows a whole grace in which no task was at
\* work, however its captures start and end, stopAll() leaves no task at work,
\* and the uploader keeps its slot as long as a capture may give it work.
THEOREM CoreTheoremsHold ==
    Spec => /\ Slots!ShutdownIsFinal
            /\ Slots!IdleGraceHonoured
            /\ []Slots!StoppedIsQuiet
            /\ Slots!CaptureHandedOver /\ Slots!UploadHeldWhileCapturing
            /\ Slots!UploadFollowsCapture
<1>1. Slots!RunningUploads
  BY DEF Slots!RunningUploads
<1>2. Slots!Spec => Slots!IdleGraceHonoured
  BY CoreAssumed, Slots!GraceHonoured
<1>3. Slots!Spec => /\ Slots!CaptureHandedOver /\ Slots!UploadHeldWhileCapturing
                    /\ Slots!UploadFollowsCapture
  BY <1>1, CoreAssumed, Slots!SlotsHandOver
<1>4. Slots!Spec => Slots!ShutdownIsFinal /\ []Slots!StoppedIsQuiet
  BY CoreAssumed, Slots!FinalShutdown, Slots!StoppedQuiet
<1> QED BY ProgramIsCore, <1>2, <1>3, <1>4, PTL
=============================================================================
