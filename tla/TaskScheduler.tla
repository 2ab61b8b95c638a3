---------------------------- MODULE TaskScheduler ----------------------------
(***************************************************************************)
(* WmTaskSchedulerCore and TaskSlot (src/app/workmode/wm_task_scheduler):  *)
(* one slot for a capture task, one for an upload task, an idle grace and  *)
(* an upload timeout that both end in a shutdown, external capture         *)
(* triggers, and the blocking stopAll that ends the program.               *)
(*                                                                         *)
(* A task is known through the WmTask interface only: task[t] is what      *)
(* state() of the task in slot t returns, and changes under the            *)
(* scheduler's feet; slot[t] is the slot's own copy (TaskSlot::state_),    *)
(* refreshed when the slot polls the task.  Clocks are ages that saturate  *)
(* at the threshold they are compared with: idleFor is now - idleStartMs_, *)
(* NotIdle stands for idleStartMs_ = 0.                                    *)
(***************************************************************************)
EXTENDS Integers

CONSTANTS
    IdleGrace,      \* idleGraceMs, in clock units
    UploadTimeout,  \* uploadTimeoutMs, in clock units; 0 disables it
    CaptureStarts,  \* what a capture may be found to be when its start() returns
    UploadStarts,   \* the same of an uploader
    MaxCaptures     \* bound: capture tasks put into slot 1 in one run

ASSUME SchedulerAssumption ==
    /\ IdleGrace \in Nat
    /\ UploadTimeout \in Nat
    /\ CaptureStarts \subseteq {"Running", "Done", "Failed", "Refused"}
    /\ UploadStarts \subseteq {"Running", "Done", "Failed", "Refused"}
    /\ UploadStarts # {}
    /\ MaxCaptures \in Nat

TaskTypes == {"Capture", "Upload"}
Modes     == {"CaptureOnly", "CaptureUpload", "UploadOnly"}
Live      == {"Running", "Stopping"}
Terminal  == {"Done", "Failed"}
Reasons   == {"None", "IdleGrace", "UploadTimeout", "Signal"}
StopSteps == {"idle", "stopCapture", "joinCapture", "stopUpload",
              "joinUpload", "stopped"}
NotIdle   == -1

VARIABLES
    mode, oneShot,       \* config_
    task,                \* state() of the task each slot holds, "None" if none
    slot,                \* TaskSlot::state_
    locked,              \* TaskSlot::locked_
    bootstrapped,
    captureStartedOnce,
    idleFor,             \* age of idleStartMs_, or NotIdle
    shutdownReason,
    stopStep,            \* how far stopAll() has got
    captures,            \* history: capture tasks put into slot 1
    quietFor             \* history: how long neither slot has been at work

config == <<mode, oneShot>>
vars   == <<mode, oneShot, task, slot, locked, bootstrapped,
            captureStartedOnce, idleFor, shutdownReason, stopStep,
            captures, quietFor>>

TypeOK ==
    /\ mode \in Modes
    /\ oneShot \in BOOLEAN
    /\ task \in [TaskTypes -> {"None", "Ready"} \cup Live \cup Terminal]
    /\ slot \in [TaskTypes -> {"Empty", "Ready"} \cup Live \cup Terminal]
    /\ locked \in [TaskTypes -> BOOLEAN]
    /\ bootstrapped \in BOOLEAN
    /\ captureStartedOnce \in BOOLEAN
    /\ idleFor \in NotIdle .. IdleGrace
    /\ shutdownReason \in Reasons
    /\ stopStep \in StopSteps
    /\ captures \in 0 .. MaxCaptures
    /\ quietFor \in 0 .. IdleGrace

Init ==
    /\ mode \in Modes
    /\ oneShot \in BOOLEAN
    /\ task = [t \in TaskTypes |-> "None"]
    /\ slot = [t \in TaskTypes |-> "Empty"]
    /\ locked = [t \in TaskTypes |-> FALSE]
    /\ bootstrapped = FALSE
    /\ captureStartedOnce = FALSE
    /\ idleFor = NotIdle
    /\ shutdownReason = "None"
    /\ stopStep = "idle"
    /\ captures = 0
    /\ quietFor = 0

-----------------------------------------------------------------------------
(* Slots.                                                                  *)

Vacant(t) == task[t] = "None" /\ ~locked[t]

\* start() refused leaves the task Ready and the slot Failed; a task that is
\* over before start() returns is seen terminal at once (markDoneFromTask).
TaskAfterStart(outcome) == IF outcome = "Refused" THEN "Ready" ELSE outcome
SlotAfterStart(outcome) == IF outcome = "Refused" THEN "Failed" ELSE outcome

\* A task that is not found running has not been at work for the slot.
QuietAfterStart(outcome) == IF outcome = "Running" THEN 0 ELSE quietFor

\* Mutant: the slot copies whatever state the task reports.
MarkedVerbatim(t, reported) == reported

\* markDoneFromTask: the slot copies Stopping, Done and Failed, nothing else.
Marked(t, reported) ==
    IF reported \in {"Stopping"} \cup Terminal THEN reported ELSE slot[t]

Polls(t) == slot[t] \in Live

\* The upload slot is polled only when slot 1 holds no task.
UploadPolls == Polls("Upload") /\ task["Capture"] = "None"
-----------------------------------------------------------------------------
(* scheduleCapture and scheduleUpload, with TaskSlot::put and start.       *)

ScheduleCapture(outcome) ==
    /\ shutdownReason = "None"
    /\ Vacant("Capture")
    /\ task' = [task EXCEPT !["Capture"] = TaskAfterStart(outcome)]
    /\ slot' = [slot EXCEPT !["Capture"] = SlotAfterStart(outcome)]
    /\ captureStartedOnce' = (captureStartedOnce \/ outcome = "Running")
    /\ captures < MaxCaptures
    /\ captures' = captures + 1
    /\ quietFor' = QuietAfterStart(outcome)

ScheduleUpload(outcome) ==
    /\ shutdownReason = "None"
    /\ Vacant("Upload")
    /\ task' = [task EXCEPT !["Upload"] = TaskAfterStart(outcome)]
    /\ slot' = [slot EXCEPT !["Upload"] = SlotAfterStart(outcome)]
    /\ quietFor' = QuietAfterStart(outcome)

Bootstrap(outcome) ==
    /\ ~bootstrapped
    /\ bootstrapped' = TRUE
    /\ IF mode = "UploadOnly"
       THEN ScheduleUpload(outcome) /\ UNCHANGED <<captureStartedOnce, captures>>
       ELSE ScheduleCapture(outcome)
    /\ UNCHANGED <<config, locked, idleFor, shutdownReason, stopStep>>

AcceptsCaptureTrigger ==
    /\ shutdownReason = "None"
    /\ mode # "UploadOnly"
    /\ ~(oneShot /\ captureStartedOnce)
    /\ Vacant("Capture")

\* Mutant: an accepted trigger forgets to restart the idle grace.
TriggerIdleKept(outcome) == idleFor

\* A trigger that is not accepted changes nothing.  idleStartMs_ is cleared
\* only when the task was found Running after its start.
TriggerIdle(outcome) == IF outcome = "Running" THEN NotIdle ELSE idleFor

OnExternalCaptureTrigger(outcome) ==
    /\ bootstrapped
    /\ AcceptsCaptureTrigger
    /\ ScheduleCapture(outcome)
    /\ idleFor' = TriggerIdle(outcome)
    /\ UNCHANGED <<config, locked, bootstrapped, shutdownReason, stopStep>>
-----------------------------------------------------------------------------
(* tick().  report is what state() of the upload task returns after its    *)
(* poll(), age what its timeoutAgeMs() returns, outcome how the start of a *)
(* new upload task ends if this tick starts one.                           *)

CaptureSeen == IF Polls("Capture") THEN Marked("Capture", task["Capture"])
                                   ELSE slot["Capture"]
UploadSeen(report) == IF UploadPolls THEN Marked("Upload", report)
                                     ELSE slot["Upload"]

CaptureOver == CaptureSeen \in Terminal

\* Mutant: a capture that ends while slot 2 is busy empties slot 2.
UploadOverOnCapture(report) ==
    UploadSeen(report) \in Terminal \/ CaptureOver
UploadOver(report) == UploadSeen(report) \in Terminal

StartsUpload ==
    CaptureOver /\ CaptureSeen = "Done" /\ mode = "CaptureUpload" /\ Vacant("Upload")

\* A task started by this very tick has age 0.
Expired(report, age) ==
    /\ ~StartsUpload
    /\ UploadSeen(report) = "Running"
    /\ UploadTimeout > 0
    /\ age > UploadTimeout

\* The slots as a tick leaves them.  A tick that times out returns before it
\* would remove an upload that is over, but then the upload is Running.
TaskAfterTick(report, outcome) == [t \in TaskTypes |->
    IF t = "Capture" THEN IF CaptureOver THEN "None" ELSE task[t]
    ELSE IF StartsUpload THEN TaskAfterStart(outcome)
    ELSE IF UploadOver(report) THEN "None"
    ELSE IF UploadPolls THEN report ELSE task[t]]
SlotAfterTick(report, outcome) == [t \in TaskTypes |->
    IF t = "Capture" THEN IF CaptureOver THEN "Empty" ELSE CaptureSeen
    ELSE IF StartsUpload THEN SlotAfterStart(outcome)
    ELSE IF UploadOver(report) THEN "Empty"
    ELSE UploadSeen(report)]

AllSlotsEmpty(tasks) == \A t \in TaskTypes : tasks[t] = "None"

\* Mutant: a later reason overwrites the first.
RequestShutdownAgain(reason) ==
    /\ shutdownReason' = reason
    /\ locked' = [t \in TaskTypes |-> TRUE]

\* requestShutdown: the first reason wins and both slots are locked.
RequestShutdown(reason) ==
    /\ shutdownReason = "None"
    /\ shutdownReason' = reason
    /\ locked' = [t \in TaskTypes |-> TRUE]

TickCommon(report, outcome) ==
    /\ bootstrapped
    /\ shutdownReason = "None"
    /\ report \in {task["Upload"]} \cup
         (IF UploadPolls /\ task["Upload"] = "Running" THEN {"Done"} ELSE {})
    /\ task' = TaskAfterTick(report, outcome)
    /\ slot' = SlotAfterTick(report, outcome)
    /\ quietFor' = IF StartsUpload THEN QuietAfterStart(outcome) ELSE quietFor
    /\ UNCHANGED <<config, bootstrapped, captureStartedOnce, stopStep, captures>>

TickTimesOut(report, age, outcome) ==
    /\ Expired(report, age)
    /\ TickCommon(report, outcome)
    /\ RequestShutdown("UploadTimeout")
    /\ UNCHANGED idleFor

IdleAfterTick == IF idleFor = NotIdle THEN 0 ELSE idleFor

TickIdle(report, age, outcome) ==
    /\ ~Expired(report, age)
    /\ TickCommon(report, outcome)
    /\ AllSlotsEmpty(TaskAfterTick(report, outcome))
    /\ idleFor' = IdleAfterTick
    /\ IF IdleAfterTick >= IdleGrace THEN RequestShutdown("IdleGrace")
                                     ELSE UNCHANGED <<shutdownReason, locked>>

TickBusy(report, age, outcome) ==
    /\ ~Expired(report, age)
    /\ TickCommon(report, outcome)
    /\ ~AllSlotsEmpty(TaskAfterTick(report, outcome))
    /\ idleFor' = NotIdle
    /\ UNCHANGED <<shutdownReason, locked>>

Tick(report, age, outcome) ==
    \/ TickTimesOut(report, age, outcome)
    \/ TickIdle(report, age, outcome)
    \/ TickBusy(report, age, outcome)
-----------------------------------------------------------------------------
(* A signal, and stopAll(): each stop() blocks until its task has stopped. *)

SignalShutdown ==
    /\ bootstrapped
    /\ RequestShutdown("Signal")
    /\ UNCHANGED <<config, task, slot, bootstrapped, captureStartedOnce,
                   idleFor, stopStep, captures, quietFor>>

NextStep == [idle |-> "stopCapture", stopCapture |-> "joinCapture",
             joinCapture |-> "stopUpload", stopUpload |-> "joinUpload",
             joinUpload |-> "stopped", stopped |-> "stopped"]

StopAll ==
    /\ shutdownReason # "None"
    /\ stopStep = "idle"
    /\ stopStep' = "stopCapture"
    /\ UNCHANGED <<config, task, slot, locked, bootstrapped, captureStartedOnce,
                   idleFor, shutdownReason, captures, quietFor>>

StopTurn == [Capture |-> "stopCapture", Upload |-> "stopUpload"]
JoinTurn == [Capture |-> "joinCapture", Upload |-> "joinUpload"]

StopSlot(t) ==
    /\ stopStep = StopTurn[t]
    /\ stopStep' = NextStep[stopStep]
    /\ slot' = IF task[t] = "None" THEN slot ELSE [slot EXCEPT ![t] = "Stopping"]
    /\ task' = IF task[t] = "Running" THEN [task EXCEPT ![t] = "Stopping"] ELSE task
    /\ UNCHANGED <<config, locked, bootstrapped, captureStartedOnce, idleFor,
                   shutdownReason, captures, quietFor>>

\* Mutant: stop() returns without joining the worker.
JoinSlotUnjoined(t) ==
    /\ stopStep = JoinTurn[t]
    /\ stopStep' = NextStep[stopStep]
    /\ slot' = [slot EXCEPT ![t] = Marked(t, task[t])]
    /\ UNCHANGED <<config, task, locked, bootstrapped, captureStartedOnce,
                   idleFor, shutdownReason, captures, quietFor>>

JoinSlot(t) ==
    /\ stopStep = JoinTurn[t]
    /\ task[t] \notin Live
    /\ stopStep' = NextStep[stopStep]
    /\ slot' = [slot EXCEPT ![t] = Marked(t, task[t])]
    /\ UNCHANGED <<config, task, locked, bootstrapped, captureStartedOnce,
                   idleFor, shutdownReason, captures, quietFor>>
-----------------------------------------------------------------------------
(* What the scheduler does not control: the tasks and the clock.           *)

TaskMoves(t, to) ==
    /\ task[t] \in Live
    /\ to \in (IF task[t] = "Running" THEN {"Stopping"} ELSE {}) \cup Terminal
    /\ task' = [task EXCEPT ![t] = to]
    /\ UNCHANGED <<config, slot, locked, bootstrapped, captureStartedOnce,
                   idleFor, shutdownReason, stopStep, captures, quietFor>>

Aged(age, limit) == IF age < limit THEN age + 1 ELSE age

Elapse ==
    /\ shutdownReason = "None"
    /\ idleFor' = IF idleFor = NotIdle THEN NotIdle ELSE Aged(idleFor, IdleGrace)
    /\ quietFor' = IF \A t \in TaskTypes : slot[t] \notin Live
                    THEN Aged(quietFor, IdleGrace) ELSE 0
    /\ UNCHANGED <<config, task, slot, locked, bootstrapped, captureStartedOnce,
                   shutdownReason, stopStep, captures>>

AnyTick == \E report \in {"None", "Ready"} \cup Live \cup Terminal,
              age \in 0 .. UploadTimeout + 1, outcome \in UploadStarts :
                Tick(report, age, outcome)

\* How the task of bootstrap() may start: an uploader's in upload-only mode.
FirstStarts == IF mode = "UploadOnly" THEN UploadStarts ELSE CaptureStarts

Next ==
    \/ \E outcome \in FirstStarts : Bootstrap(outcome)
    \/ \E outcome \in CaptureStarts : OnExternalCaptureTrigger(outcome)
    \/ AnyTick
    \/ SignalShutdown
    \/ StopAll
    \/ \E t \in TaskTypes : StopSlot(t) \/ JoinSlot(t)
    \/ \E t \in TaskTypes, to \in {"Stopping"} \cup Terminal : TaskMoves(t, to)
    \/ Elapse

Spec == Init /\ [][Next]_vars

-----------------------------------------------------------------------------
(* Properties.                                                             *)

\* Once stopAll() has returned no task is at work: the callers that move or
\* power off after it (persistStrandedTmpDir) find the files at rest.
StoppedIsQuiet == stopStep = "stopped" => \A t \in TaskTypes : task[t] \notin Live

\* A shutdown is final: its reason stands, the slots stay locked and no task
\* enters a slot, so a SIGTERM raised by an upload timeout (Power::
\* requestShutdown) cannot turn that timeout into a plain signal.
ShutdownIsFinal ==
    [][shutdownReason # "None" =>
         /\ shutdownReason' = shutdownReason
         /\ \A t \in TaskTypes : locked'[t] /\ (task[t] = "None" => task'[t] = "None")]_vars

\* An idle shutdown comes only when both slots are empty and for a whole grace
\* none has held a task at work: a capture found running at its start restarts
\* the grace even if it has come and gone between two ticks, and so does an
\* uploader; only a capture that was over before start() looked does not.
IdleGraceHonoured ==
    [][shutdownReason = "None" /\ shutdownReason' = "IdleGrace" =>
         AllSlotsEmpty(task') /\ quietFor >= IdleGrace]_vars

\* What the specification of the program says of the grace at the least: the
\* slots are empty when an idle shutdown is decided, and not only emptied by the
\* tick that decides it.  It does not hold of the code when a capture is over
\* before its start() looks: no run claims it.
EmptyBeforeIdleShutdown ==
    [][shutdownReason = "None" /\ shutdownReason' = "IdleGrace" => AllSlotsEmpty(task)]_vars

\* An upload at work leaves its slot only while slot 1 is empty: a capture in
\* flight can still produce work for it.
UploadHeldWhileCapturing ==
    [][slot["Upload"] \in Live /\ task'["Upload"] = "None" =>
         task["Capture"] = "None"]_vars

\* In capture+upload mode a capture that ends well leaves an uploader behind:
\* a new one, or the one already in slot 2, which the wake token will reach.
CaptureHandedOver ==
    [][/\ mode = "CaptureUpload"
       /\ task["Capture"] = "Done" /\ task'["Capture"] = "None"
       => task'["Upload"] # "None"]_vars

\* In capture+upload mode slot 2 is filled only by the tick that removes a
\* capture that is Done, cleanup included.
UploadFollowsCapture ==
    [][mode = "CaptureUpload" /\ task["Upload"] = "None" /\ task'["Upload"] # "None" =>
         task["Capture"] = "Done" /\ task'["Capture"] = "None"]_vars
=============================================================================
