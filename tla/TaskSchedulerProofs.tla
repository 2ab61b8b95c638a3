------------------------ MODULE TaskSchedulerProofs ------------------------
(***************************************************************************)
(* Proofs about the slot scheduler, for every grace, timeout and bound on  *)
(* the captures.  SlotInv is the inductive invariant.                      *)
(***************************************************************************)
EXTENDS TaskScheduler, TLAPS

\* A slot is Empty exactly when it holds no task, locked exactly when a
\* shutdown has been requested, and stopAll() runs only after that request
\* and has no live task behind it.
SlotInv ==
    /\ TypeOK
    /\ \A t \in TaskTypes : task[t] = "None" <=> slot[t] = "Empty"
    /\ \A t \in TaskTypes : locked[t] <=> shutdownReason # "None"
    /\ stopStep # "idle" => shutdownReason # "None"
    /\ stopStep \in {"stopUpload", "joinUpload", "stopped"} => task["Capture"] \notin Live
    /\ stopStep = "stopped" => task["Upload"] \notin Live

\* Until a shutdown the idle clock runs only over a time in which no slot
\* was at work.
GraceInv ==
    shutdownReason = "None" =>
      /\ ~bootstrapped => idleFor = NotIdle
      /\ idleFor # NotIdle => (\A t \in TaskTypes : slot[t] \notin Live) /\ idleFor <= quietFor

\* With uploaders that are running when their start() returns: until a shutdown
\* slot 2 holds live tasks only, and slot 1 knows how its task has ended.
RunningUploads == UploadStarts = {"Running"}
HandInv ==
    shutdownReason = "None" =>
      /\ slot["Upload"] \in {"Empty"} \cup Live
      /\ slot["Capture"] \in {"Empty"} \cup Live \cup Terminal
      /\ slot["Capture"] = "Done" => task["Capture"] = "Done"
      /\ slot["Capture"] = "Failed" => task["Capture"] \in {"Failed", "Ready"}

\* The two actions that start a task outside a tick.
Starts ==
    \/ \E outcome \in FirstStarts : Bootstrap(outcome)
    \/ \E outcome \in CaptureStarts : OnExternalCaptureTrigger(outcome)

\* Whatever start() finds, task and slot are in a state a slot may hold.
LEMMA StartsAreStates ==
    ASSUME NEW outcome \in CaptureStarts \cup UploadStarts
    PROVE  /\ TaskAfterStart(outcome) \in {"Ready"} \cup Live \cup Terminal
           /\ SlotAfterStart(outcome) \in Live \cup Terminal
  BY SchedulerAssumption DEF TaskAfterStart, SlotAfterStart, Live, Terminal

\* markDoneFromTask leaves an occupied slot in a state a slot may hold.
LEMMA MarkedIsState ==
    ASSUME TypeOK, NEW t \in TaskTypes, NEW reported, slot[t] # "Empty"
    PROVE  Marked(t, reported) \in {"Ready"} \cup Live \cup Terminal
  BY DEF TypeOK, Marked, Live, Terminal, TaskTypes

\* The slots are empty and unlocked before bootstrap().
LEMMA SlotInvInit == Init => SlotInv
  <1> SUFFICES ASSUME Init PROVE SlotInv OBVIOUS
  <1>1. idleFor \in NotIdle .. IdleGrace /\ captures \in 0 .. MaxCaptures /\ quietFor \in 0 .. IdleGrace
    BY SchedulerAssumption DEF Init, NotIdle
  <1>2. /\ task \in [TaskTypes -> {"None", "Ready"} \cup Live \cup Terminal]
        /\ slot \in [TaskTypes -> {"Empty", "Ready"} \cup Live \cup Terminal]
        /\ locked \in [TaskTypes -> BOOLEAN]
    BY DEF Init
  <1>3. TypeOK
    BY <1>1, <1>2 DEF Init, TypeOK, Reasons, StopSteps
  <1> QED BY <1>3 DEF Init, SlotInv

\* The part of a tick that its three outcomes share.
LEMMA TickKeepsSlots ==
    ASSUME SlotInv, NEW report, NEW outcome \in UploadStarts, TickCommon(report, outcome)
    PROVE  /\ task' \in [TaskTypes -> {"None", "Ready"} \cup Live \cup Terminal]
           /\ slot' \in [TaskTypes -> {"Empty", "Ready"} \cup Live \cup Terminal]
           /\ \A t \in TaskTypes : task'[t] = "None" <=> slot'[t] = "Empty"
           /\ quietFor' \in 0 .. IdleGrace
           /\ stopStep = "idle"
  <1>1. stopStep = "idle" /\ quietFor' \in 0 .. IdleGrace
    BY SchedulerAssumption DEF SlotInv, TickCommon, TypeOK, QuietAfterStart
  <1>2. /\ task["Upload"] \in {"None", "Ready"} \cup Live \cup Terminal
        /\ slot["Upload"] \in {"Empty", "Ready"} \cup Live \cup Terminal
        /\ task["Capture"] \in {"None", "Ready"} \cup Live \cup Terminal
        /\ slot["Capture"] \in {"Empty", "Ready"} \cup Live \cup Terminal
        /\ task["Upload"] = "None" <=> slot["Upload"] = "Empty"
        /\ task["Capture"] = "None" <=> slot["Capture"] = "Empty"
    BY DEF SlotInv, TypeOK, TaskTypes
  <1>3. report \in {"None", "Ready"} \cup Live \cup Terminal
        /\ (UploadPolls => report # "None" /\ task["Upload"] # "None")
    BY <1>2 DEF TickCommon, UploadPolls, Polls, Live, Terminal
  <1>4. CaptureSeen \in {"Empty", "Ready"} \cup Live \cup Terminal
        /\ (CaptureSeen = "Empty" <=> task["Capture"] = "None")
    BY <1>2 DEF CaptureSeen, Marked, Polls, Live, Terminal
  <1>5. UploadSeen(report) \in {"Empty", "Ready"} \cup Live \cup Terminal
        /\ (UploadSeen(report) = "Empty" <=> task["Upload"] = "None")
    BY <1>2 DEF UploadSeen, UploadPolls, Marked, Polls, Live, Terminal
  <1>6. /\ TaskAfterTick(report, outcome)
             \in [TaskTypes -> {"None", "Ready"} \cup Live \cup Terminal]
        /\ SlotAfterTick(report, outcome)
             \in [TaskTypes -> {"Empty", "Ready"} \cup Live \cup Terminal]
    BY <1>2, <1>3, <1>4, <1>5, StartsAreStates
       DEF TaskAfterTick, SlotAfterTick, CaptureOver, UploadOver, TaskTypes
  <1>7. \A t \in TaskTypes : TaskAfterTick(report, outcome)[t] = "None"
                         <=> SlotAfterTick(report, outcome)[t] = "Empty"
    BY <1>2, <1>3, <1>4, <1>5, StartsAreStates
       DEF TaskAfterTick, SlotAfterTick, CaptureOver, UploadOver, TaskTypes, Live, Terminal
  <1> QED BY <1>1, <1>6, <1>7 DEF TickCommon

\* tick() keeps the slots, the lock and the shutdown reason in agreement.
LEMMA TickKeepsInv ==
    ASSUME SlotInv, NEW report, NEW age, NEW outcome \in UploadStarts,
           Tick(report, age, outcome)
    PROVE  SlotInv'
  <1>1. TickCommon(report, outcome)
    BY DEF Tick, TickTimesOut, TickIdle, TickBusy
  <1>2. /\ task' \in [TaskTypes -> {"None", "Ready"} \cup Live \cup Terminal]
        /\ slot' \in [TaskTypes -> {"Empty", "Ready"} \cup Live \cup Terminal]
        /\ \A t \in TaskTypes : task'[t] = "None" <=> slot'[t] = "Empty"
        /\ quietFor' \in 0 .. IdleGrace
        /\ stopStep = "idle" /\ stopStep' = "idle"
    BY <1>1, TickKeepsSlots DEF TickCommon
  <1>3. idleFor' \in NotIdle .. IdleGrace
    <2>1. IdleAfterTick \in 0 .. IdleGrace
      BY SchedulerAssumption DEF SlotInv, TypeOK, IdleAfterTick, NotIdle
    <2> QED BY <2>1, SchedulerAssumption
            DEF Tick, TickTimesOut, TickIdle, TickBusy, SlotInv, TypeOK, NotIdle
  <1>4. /\ shutdownReason' \in Reasons
        /\ locked' \in [TaskTypes -> BOOLEAN]
        /\ \A t \in TaskTypes : locked'[t] <=> shutdownReason' # "None"
    BY <1>1 DEF Tick, TickTimesOut, TickIdle, TickBusy, TickCommon, RequestShutdown,
                SlotInv, TypeOK, Reasons
  <1>5. TypeOK'
    BY <1>1, <1>2, <1>3, <1>4 DEF SlotInv, TypeOK, TickCommon, config, StopSteps
  <1> QED BY <1>2, <1>4, <1>5 DEF SlotInv

\* bootstrap() and an accepted capture trigger keep them in agreement.
LEMMA StartKeepsInv ==
    ASSUME SlotInv, NEW outcome \in CaptureStarts \cup UploadStarts,
           Bootstrap(outcome) \/ OnExternalCaptureTrigger(outcome)
    PROVE  SlotInv'
  <1>1. /\ ScheduleCapture(outcome) \/ ScheduleUpload(outcome)
        /\ UNCHANGED <<config, locked, shutdownReason, stopStep>>
        /\ bootstrapped' \in BOOLEAN
    BY DEF Bootstrap, OnExternalCaptureTrigger, SlotInv, TypeOK
  <1>2. idleFor' \in NotIdle .. IdleGrace
    BY SchedulerAssumption
       DEF Bootstrap, OnExternalCaptureTrigger, TriggerIdle, SlotInv, TypeOK, NotIdle
  <1>3. captureStartedOnce' \in BOOLEAN /\ captures' \in 0 .. MaxCaptures /\ quietFor' \in 0 .. IdleGrace
    <2>1. captureStartedOnce' \in BOOLEAN
      BY DEF Bootstrap, OnExternalCaptureTrigger, ScheduleCapture, SlotInv, TypeOK
    <2>2. quietFor' \in {0, quietFor}
      BY <1>1 DEF ScheduleCapture, ScheduleUpload, QuietAfterStart
    <2>3. captures' = captures \/ (captures < MaxCaptures /\ captures' = captures + 1)
      BY DEF Bootstrap, OnExternalCaptureTrigger, ScheduleCapture
    <2> QED BY <2>1, <2>2, <2>3, SchedulerAssumption DEF SlotInv, TypeOK
  <1>4. /\ task' \in [TaskTypes -> {"None", "Ready"} \cup Live \cup Terminal]
        /\ slot' \in [TaskTypes -> {"Empty", "Ready"} \cup Live \cup Terminal]
        /\ \A t \in TaskTypes : task'[t] = "None" <=> slot'[t] = "Empty"
    <2>1. /\ TaskAfterStart(outcome) \in {"Ready"} \cup Live \cup Terminal
          /\ SlotAfterStart(outcome) \in Live \cup Terminal
      BY StartsAreStates
    <2>2. \E t \in TaskTypes : /\ task' = [task EXCEPT ![t] = TaskAfterStart(outcome)]
                               /\ slot' = [slot EXCEPT ![t] = SlotAfterStart(outcome)]
      BY <1>1 DEF ScheduleCapture, ScheduleUpload, TaskTypes
    <2> QED BY <2>1, <2>2 DEF SlotInv, TypeOK, Live, Terminal
  <1>5. stopStep = "idle"
    BY <1>1 DEF ScheduleCapture, ScheduleUpload, SlotInv
  <1>6. TypeOK'
    BY <1>1, <1>2, <1>3, <1>4 DEF SlotInv, TypeOK, config
  <1> QED BY <1>1, <1>4, <1>5, <1>6 DEF SlotInv

\* A signal, the steps of stopAll(), the tasks and the clock keep them in agreement.
LEMMA StopKeepsInv ==
    ASSUME SlotInv, NEW t \in TaskTypes,
           \/ StopSlot(t)
           \/ JoinSlot(t)
           \/ \E to \in {"Stopping"} \cup Terminal : TaskMoves(t, to)
    PROVE  SlotInv'
  <1>1. /\ UNCHANGED <<config, locked, bootstrapped, captureStartedOnce, idleFor,
                       shutdownReason, captures, quietFor>>
        /\ stopStep' = stopStep \/ (stopStep # "idle" /\ stopStep' = NextStep[stopStep])
    BY DEF StopSlot, JoinSlot, TaskMoves, StopTurn, JoinTurn, TaskTypes
  <1>2. /\ task' \in [TaskTypes -> {"None", "Ready"} \cup Live \cup Terminal]
        /\ \A u \in TaskTypes : task'[u] = "None" <=> task[u] = "None"
        /\ \A u \in TaskTypes : task'[u] \in Live => task[u] \in Live
    BY DEF StopSlot, JoinSlot, TaskMoves, SlotInv, TypeOK, Live, Terminal
  <1>3. /\ slot' \in [TaskTypes -> {"Empty", "Ready"} \cup Live \cup Terminal]
        /\ \A u \in TaskTypes : slot'[u] = "Empty" <=> slot[u] = "Empty"
    BY DEF StopSlot, JoinSlot, TaskMoves, Marked, SlotInv, TypeOK, Live, Terminal
  <1>4. stopStep' \in StopSteps /\ (stopStep' # "idle" => shutdownReason # "None")
    BY <1>1 DEF SlotInv, TypeOK, StopSteps, NextStep
  <1>5. /\ stopStep' \in {"stopUpload", "joinUpload", "stopped"} => task'["Capture"] \notin Live
        /\ stopStep' = "stopped" => task'["Upload"] \notin Live
    <2>1. CASE stopStep' = stopStep
      BY <2>1, <1>2 DEF SlotInv, TaskTypes
    <2>2. CASE StopSlot(t)
      <3>1. \/ stopStep = "stopCapture" /\ stopStep' = "joinCapture"
            \/ stopStep = "stopUpload" /\ stopStep' = "joinUpload"
        BY <2>2 DEF StopSlot, StopTurn, NextStep, TaskTypes
      <3> QED BY <3>1, <1>2 DEF SlotInv, TaskTypes
    <2>3. CASE JoinSlot(t)
      <3>1. \/ t = "Capture" /\ stopStep = "joinCapture" /\ stopStep' = "stopUpload"
            \/ t = "Upload" /\ stopStep = "joinUpload" /\ stopStep' = "stopped"
        BY <2>3 DEF JoinSlot, JoinTurn, NextStep, TaskTypes
      <3>2. task' = task /\ task[t] \notin Live
        BY <2>3 DEF JoinSlot
      <3> QED BY <3>1, <3>2 DEF SlotInv, TaskTypes
    <2> QED BY <2>1, <2>2, <2>3 DEF TaskMoves
  <1>6. TypeOK'
    BY <1>1, <1>2, <1>3, <1>4 DEF SlotInv, TypeOK, config
  <1> QED BY <1>1, <1>2, <1>3, <1>4, <1>5, <1>6 DEF SlotInv

\* Every step keeps the slots, the lock and stopAll() in agreement.
LEMMA StepKeepsSlots == SlotInv /\ [Next]_vars => SlotInv'
  <1> SUFFICES ASSUME SlotInv, [Next]_vars PROVE SlotInv' OBVIOUS
  <1>1. CASE Starts
    BY <1>1, StartKeepsInv DEF Starts, FirstStarts
  <1>2. CASE AnyTick
    BY <1>2, TickKeepsInv DEF AnyTick
  <1>3. CASE SignalShutdown
    BY <1>3 DEF SignalShutdown, RequestShutdown, SlotInv, TypeOK, Reasons, config
  <1>4. CASE StopAll
    BY <1>4 DEF StopAll, SlotInv, TypeOK, StopSteps, config
  <1>5. CASE \E t \in TaskTypes : \/ StopSlot(t) \/ JoinSlot(t)
                                   \/ \E to \in {"Stopping"} \cup Terminal : TaskMoves(t, to)
    BY <1>5, StopKeepsInv
  <1>6. CASE Elapse
    BY <1>6, SchedulerAssumption
       DEF Elapse, Aged, SlotInv, TypeOK, NotIdle, config
  <1>7. CASE UNCHANGED vars
    BY <1>7 DEF vars, SlotInv, TypeOK
  <1> QED BY <1>1, <1>2, <1>3, <1>4, <1>5, <1>6, <1>7 DEF Next, Starts

\* The slots, the lock and stopAll() agree in every reachable state.
THEOREM SlotInvariant == Spec => []SlotInv
  BY SlotInvInit, StepKeepsSlots, PTL DEF Spec

\* Type correctness.
THEOREM TypesHold == Spec => []TypeOK
  BY SlotInvariant, PTL DEF SlotInv

\* After stopAll() neither slot has a task at work.
THEOREM StoppedQuiet == Spec => []StoppedIsQuiet
  <1>1. SlotInv => StoppedIsQuiet
    BY DEF SlotInv, StoppedIsQuiet, TaskTypes
  <1> QED BY SlotInvariant, <1>1, PTL

\* A shutdown is final, whatever the tasks do.
THEOREM FinalShutdown == Spec => ShutdownIsFinal
  <1> DEFINE Final == shutdownReason # "None" =>
                        /\ shutdownReason' = shutdownReason
                        /\ \A t \in TaskTypes : locked'[t] /\ (task[t] = "None" => task'[t] = "None")
  <1>1. SlotInv /\ [Next]_vars => [Final]_vars
    <2> SUFFICES ASSUME SlotInv, Next, shutdownReason # "None" PROVE Final
      OBVIOUS
    <2>1. locked' = locked /\ shutdownReason' = shutdownReason
      BY DEF Next, Bootstrap, OnExternalCaptureTrigger, ScheduleCapture, ScheduleUpload,
             AnyTick, Tick, TickTimesOut, TickIdle, TickBusy, TickCommon, SignalShutdown,
             RequestShutdown, StopAll, StopSlot, JoinSlot, TaskMoves, Elapse
    <2>2. \A t \in TaskTypes : task[t] = "None" => task'[t] = "None"
      BY DEF Next, Bootstrap, OnExternalCaptureTrigger, ScheduleCapture, ScheduleUpload,
             AnyTick, Tick, TickTimesOut, TickIdle, TickBusy, TickCommon, SignalShutdown,
             RequestShutdown, StopAll, StopSlot, JoinSlot, TaskMoves, Elapse,
             Live, SlotInv, TypeOK
    <2> QED BY <2>1, <2>2 DEF SlotInv
  <1> QED BY SlotInvariant, <1>1, PTL DEF Spec, ShutdownIsFinal

\* A tick leaves the idle clock behind the time the slots have been quiet, and
\* shuts down for idleness only when that time has reached the grace.
LEMMA TickKeepsGrace ==
    ASSUME SlotInv, GraceInv,
           NEW report, NEW age, NEW outcome \in UploadStarts, Tick(report, age, outcome)
    PROVE  /\ GraceInv'
           /\ shutdownReason' = "IdleGrace" => AllSlotsEmpty(task') /\ quietFor >= IdleGrace
  <1>1. /\ TickCommon(report, outcome)
        /\ shutdownReason = "None" /\ bootstrapped /\ bootstrapped' = bootstrapped
        /\ task' = TaskAfterTick(report, outcome)
        /\ quietFor \in Nat
        /\ IdleAfterTick \in Int
        /\ IdleGrace \in Nat
    BY SchedulerAssumption
       DEF Tick, TickTimesOut, TickIdle, TickBusy, TickCommon, IdleAfterTick, SlotInv, TypeOK, NotIdle
  <1>2. IdleAfterTick <= quietFor
    BY <1>1 DEF IdleAfterTick, GraceInv
  <1>3. CASE TickTimesOut(report, age, outcome)
    BY <1>3 DEF TickTimesOut, RequestShutdown, GraceInv
  <1>4. CASE TickIdle(report, age, outcome)
    <2>1. AllSlotsEmpty(task') /\ idleFor' = IdleAfterTick
      BY <1>1, <1>4 DEF TickIdle
    <2>2. \A t \in TaskTypes : slot'[t] \notin Live
      <3>1. \A t \in TaskTypes : slot'[t] = "Empty"
        BY <1>1, <2>1, TickKeepsSlots DEF AllSlotsEmpty
      <3> QED BY <3>1 DEF Live
    <2>3. quietFor' = quietFor
      <3>1. ASSUME StartsUpload PROVE FALSE
        <4>1. task'["Upload"] = TaskAfterStart(outcome)
          BY <1>1, <3>1 DEF TaskAfterTick, TaskTypes
        <4>2. TaskAfterStart(outcome) # "None"
          BY StartsAreStates DEF Live, Terminal
        <4> QED BY <2>1, <4>1, <4>2 DEF AllSlotsEmpty, TaskTypes
      <3> QED BY <1>1, <3>1 DEF TickCommon
    <2>4. shutdownReason' = "IdleGrace" => quietFor >= IdleGrace
      <3>1. shutdownReason' = "IdleGrace" => IdleAfterTick >= IdleGrace
        BY <1>1, <1>4 DEF TickIdle
      <3> QED BY <1>1, <1>2, <3>1
    <2> QED BY <1>1, <1>2, <2>1, <2>2, <2>3, <2>4 DEF GraceInv
  <1>5. CASE TickBusy(report, age, outcome)
    BY <1>1, <1>5 DEF TickBusy, GraceInv
  <1> QED BY <1>3, <1>4, <1>5 DEF Tick

\* Every step keeps the idle clock within the time the slots have been quiet.
LEMMA StepKeepsGrace ==
    ASSUME SlotInv, GraceInv, Next
    PROVE  GraceInv'
  <1>1. CASE Starts
    <2>1. PICK outcome \in CaptureStarts \cup UploadStarts :
             Bootstrap(outcome) \/ OnExternalCaptureTrigger(outcome)
      BY <1>1 DEF Starts, FirstStarts
    <2>2. /\ shutdownReason = "None" /\ bootstrapped'
          /\ \E t \in TaskTypes : slot' = [slot EXCEPT ![t] = SlotAfterStart(outcome)]
          /\ quietFor' = QuietAfterStart(outcome)
      BY <2>1 DEF Bootstrap, OnExternalCaptureTrigger, ScheduleCapture, ScheduleUpload, TaskTypes
    <2>3. idleFor' # NotIdle => outcome # "Running" /\ idleFor' = idleFor
      BY <2>1, <2>2 DEF Bootstrap, OnExternalCaptureTrigger, TriggerIdle, GraceInv
    <2>4. outcome # "Running" => SlotAfterStart(outcome) \notin Live /\ quietFor' = quietFor
      BY <2>2, SchedulerAssumption DEF SlotAfterStart, QuietAfterStart, Live
    <2> QED BY <2>2, <2>3, <2>4 DEF GraceInv, SlotInv, TypeOK
  <1>2. CASE AnyTick
    BY <1>2, TickKeepsGrace DEF AnyTick
  <1>3. CASE SignalShutdown \/ StopAll
    BY <1>3 DEF SignalShutdown, RequestShutdown, StopAll, GraceInv
  <1>4. CASE \E t \in TaskTypes : StopSlot(t) \/ JoinSlot(t)
    <2>1. shutdownReason # "None" /\ shutdownReason' = shutdownReason
      BY <1>4 DEF StopSlot, JoinSlot, StopTurn, JoinTurn, SlotInv, TaskTypes
    <2> QED BY <2>1 DEF GraceInv
  <1>5. CASE \E t \in TaskTypes, to \in {"Stopping"} \cup Terminal : TaskMoves(t, to)
    BY <1>5 DEF TaskMoves, GraceInv
  <1>6. CASE Elapse
    BY <1>6, SchedulerAssumption DEF Elapse, Aged, GraceInv, SlotInv, TypeOK, NotIdle
  <1> QED BY <1>1, <1>2, <1>3, <1>4, <1>5, <1>6 DEF Next, Starts

\* The idle clock never runs while a slot is at work, nor ahead of the time both
\* have been quiet.
THEOREM GraceInvariant == Spec => [](SlotInv /\ GraceInv)
  <1>1. Init => SlotInv /\ GraceInv
    BY SlotInvInit DEF Init, GraceInv
  <1>2. SlotInv /\ GraceInv /\ [Next]_vars => GraceInv'
    <2>1. ASSUME SlotInv, GraceInv, UNCHANGED vars PROVE GraceInv'
      BY <2>1 DEF vars, GraceInv
    <2> QED BY <2>1, StepKeepsGrace
  <1> QED BY SlotInvariant, <1>1, <1>2, PTL DEF Spec

\* However a task is found when its start() returns, an idle shutdown follows a
\* whole grace during which no slot was at work, and finds both empty.
THEOREM GraceHonoured == Spec => IdleGraceHonoured
  <1> DEFINE Honoured == shutdownReason = "None" /\ shutdownReason' = "IdleGrace" =>
                           AllSlotsEmpty(task') /\ quietFor >= IdleGrace
  <1>1. SlotInv /\ GraceInv /\ [Next]_vars => [Honoured]_vars
    <2> SUFFICES ASSUME SlotInv, GraceInv, Next, shutdownReason = "None",
                        shutdownReason' = "IdleGrace"
                 PROVE  Honoured
      OBVIOUS
    <2>1. AnyTick
      BY DEF Next, Bootstrap, OnExternalCaptureTrigger, SignalShutdown, RequestShutdown,
             StopAll, StopSlot, JoinSlot, TaskMoves, Elapse
    <2> QED BY <2>1, TickKeepsGrace DEF AnyTick
  <1> QED BY GraceInvariant, <1>1, PTL DEF Spec, IdleGraceHonoured

\* What a tick does to slot 2 when it holds live tasks only.
LEMMA TickServesUpload ==
    ASSUME SlotInv, HandInv, RunningUploads, NEW report, NEW outcome \in UploadStarts,
           TickCommon(report, outcome)
    PROVE  /\ mode = "CaptureUpload" /\ task["Capture"] = "Done" => task'["Upload"] # "None"
           /\ slot["Upload"] \in Live /\ task'["Upload"] = "None" => task["Capture"] = "None"
           /\ task["Upload"] = "None" /\ task'["Upload"] # "None" =>
                task["Capture"] = "Done" /\ task'["Capture"] = "None"
           /\ slot'["Upload"] \in {"Empty"} \cup Live
           /\ slot'["Capture"] \in {"Empty"} \cup Live
  <1>1. /\ task' = TaskAfterTick(report, outcome)
        /\ slot' = SlotAfterTick(report, outcome)
        /\ slot["Upload"] \in {"Empty"} \cup Live
        /\ slot["Capture"] \in {"Empty"} \cup Live \cup Terminal
        /\ slot["Capture"] = "Done" => task["Capture"] = "Done"
        /\ slot["Capture"] = "Failed" => task["Capture"] \in {"Failed", "Ready"}
        /\ \A t \in TaskTypes : task[t] = "None" <=> slot[t] = "Empty"
        /\ ~locked["Upload"]
        /\ outcome = "Running"
    BY DEF TickCommon, HandInv, SlotInv, TaskTypes, RunningUploads
  <1>2. UploadSeen(report) \in Terminal => task["Capture"] = "None" /\ task["Upload"] # "None"
    BY <1>1 DEF UploadSeen, UploadPolls, Polls, Marked, TaskTypes, Live, Terminal
  <1>3. /\ task["Capture"] = "Done" => CaptureSeen = "Done"
        /\ CaptureSeen = "Done" => task["Capture"] = "Done"
    BY <1>1 DEF CaptureSeen, Polls, Marked, TaskTypes, Live, Terminal
  <1>4. ASSUME mode = "CaptureUpload", task["Capture"] = "Done" PROVE task'["Upload"] # "None"
    <2>1. CASE StartsUpload
      BY <1>1, <2>1 DEF TaskAfterTick, TaskAfterStart, TaskTypes
    <2>2. CASE ~StartsUpload
      <3>1. task["Upload"] # "None"
        BY <1>1, <1>3, <1>4, <2>2 DEF StartsUpload, CaptureOver, Vacant, Terminal
      <3>2. ~UploadOver(report) /\ ~UploadPolls
        BY <1>2, <1>4 DEF UploadOver, UploadPolls
      <3> QED BY <1>1, <2>2, <3>1, <3>2 DEF TaskAfterTick, TaskTypes
    <2> QED BY <2>1, <2>2
  <1>5. ASSUME slot["Upload"] \in Live, task'["Upload"] = "None" PROVE task["Capture"] = "None"
    <2>1. CASE UploadPolls
      BY <2>1 DEF UploadPolls
    <2>2. CASE ~UploadPolls
      BY <1>1, <1>2, <1>5, <2>2
         DEF TaskAfterTick, TaskAfterStart, UploadOver, TaskTypes, Live
    <2> QED BY <2>1, <2>2
  <1>6. ASSUME task["Upload"] = "None", task'["Upload"] # "None"
        PROVE  task["Capture"] = "Done" /\ task'["Capture"] = "None"
    <2>1. ~UploadPolls
      BY <1>1, <1>6 DEF UploadPolls, Polls, TaskTypes, Live
    <2>2. StartsUpload
      BY <1>1, <1>6, <2>1 DEF TaskAfterTick, TaskTypes
    <2> QED BY <1>1, <1>3, <2>2 DEF StartsUpload, CaptureOver, TaskAfterTick, TaskTypes
  <1>7. /\ slot'["Upload"] \in {"Empty"} \cup Live
        /\ slot'["Capture"] \in {"Empty"} \cup Live
    <2>1. /\ CaptureSeen \in {"Empty"} \cup Live \cup Terminal
          /\ UploadSeen(report) \in {"Empty"} \cup Live \cup Terminal
      BY <1>1 DEF CaptureSeen, UploadSeen, UploadPolls, Polls, Marked, Live, Terminal
    <2>2. SlotAfterStart(outcome) \in Live
      BY <1>1 DEF SlotAfterStart, Live
    <2> QED BY <1>1, <2>1, <2>2 DEF SlotAfterTick, CaptureOver, UploadOver, TaskTypes
  <1> QED BY <1>4, <1>5, <1>6, <1>7

\* Every step keeps slot 2 live and slot 1 informed.
LEMMA StepKeepsHands ==
    ASSUME SlotInv, HandInv, RunningUploads, Next
    PROVE  HandInv'
  <1>1. CASE \E outcome \in FirstStarts : Bootstrap(outcome)
    <2>1. PICK outcome \in FirstStarts : Bootstrap(outcome)
      BY <1>1
    <2>2. CASE mode = "UploadOnly"
      <3>1. outcome = "Running" /\ ScheduleUpload(outcome)
        BY <2>1, <2>2 DEF Bootstrap, FirstStarts, RunningUploads
      <3> QED BY <3>1 DEF ScheduleUpload, TaskAfterStart, SlotAfterStart, HandInv, SlotInv,
                          TypeOK, TaskTypes, Live
    <2>3. CASE mode # "UploadOnly"
      <3>1. outcome \in {"Running", "Done", "Failed", "Refused"} /\ ScheduleCapture(outcome)
        BY <2>1, <2>3, SchedulerAssumption DEF Bootstrap, FirstStarts
      <3> QED BY <3>1 DEF ScheduleCapture, TaskAfterStart, SlotAfterStart, HandInv, SlotInv,
                          TypeOK, TaskTypes, Live, Terminal
    <2> QED BY <2>2, <2>3
  <1>2. CASE \E outcome \in CaptureStarts : OnExternalCaptureTrigger(outcome)
    <2>1. PICK outcome \in CaptureStarts : ScheduleCapture(outcome)
      BY <1>2 DEF OnExternalCaptureTrigger
    <2>2. outcome \in {"Running", "Done", "Failed", "Refused"}
      BY SchedulerAssumption
    <2> QED BY <2>1, <2>2 DEF ScheduleCapture, TaskAfterStart, SlotAfterStart, HandInv, SlotInv,
                              TypeOK, TaskTypes, Live, Terminal
  <1>3. CASE AnyTick
    <2>1. PICK report \in {"None", "Ready"} \cup Live \cup Terminal,
             outcome \in UploadStarts : TickCommon(report, outcome)
      BY <1>3 DEF AnyTick, Tick, TickTimesOut, TickIdle, TickBusy
    <2>2. /\ slot'["Upload"] \in {"Empty"} \cup Live
          /\ slot'["Capture"] \in {"Empty"} \cup Live
      BY <2>1, TickServesUpload
    <2> QED BY <2>2 DEF HandInv, Live
  <1>4. CASE SignalShutdown \/ StopAll \/ Elapse
    BY <1>4 DEF SignalShutdown, RequestShutdown, StopAll, Elapse, HandInv
  <1>5. CASE \E t \in TaskTypes : StopSlot(t) \/ JoinSlot(t)
    <2>1. shutdownReason # "None" /\ shutdownReason' = shutdownReason
      BY <1>5 DEF StopSlot, JoinSlot, StopTurn, JoinTurn, SlotInv, TaskTypes
    <2> QED BY <2>1 DEF HandInv
  <1>6. CASE \E t \in TaskTypes, to \in {"Stopping"} \cup Terminal : TaskMoves(t, to)
    BY <1>6 DEF TaskMoves, HandInv, SlotInv, TypeOK, TaskTypes, Live, Terminal
  <1> QED BY <1>1, <1>2, <1>3, <1>4, <1>5, <1>6 DEF Next

\* With uploaders that run when start() returns, slot 2 holds live tasks only and
\* slot 1 knows how its task has ended.
THEOREM HandInvariant == ASSUME RunningUploads PROVE Spec => [](SlotInv /\ HandInv)
  <1>1. Init => HandInv
    BY DEF Init, HandInv, TaskTypes
  <1>2. SlotInv /\ HandInv /\ [Next]_vars => HandInv'
    <2>1. ASSUME SlotInv, HandInv, UNCHANGED vars PROVE HandInv'
      BY <2>1 DEF vars, HandInv
    <2> QED BY <2>1, StepKeepsHands, RunningUploads
  <1> QED BY SlotInvariant, <1>1, <1>2, PTL DEF Spec

\* However a capture is found when its start() returns: a capture that ends well
\* leaves an uploader in slot 2, slot 2 is never emptied while slot 1 holds a
\* task, and it is filled only by the tick that removes a capture that is Done.
THEOREM SlotsHandOver ==
    ASSUME RunningUploads
    PROVE  Spec => CaptureHandedOver /\ UploadHeldWhileCapturing /\ UploadFollowsCapture
  <1> DEFINE Handed == /\ mode = "CaptureUpload"
                       /\ task["Capture"] = "Done" /\ task'["Capture"] = "None"
                       => task'["Upload"] # "None"
             Held == slot["Upload"] \in Live /\ task'["Upload"] = "None" =>
                       task["Capture"] = "None"
             Follows == mode = "CaptureUpload" /\ task["Upload"] = "None" /\ task'["Upload"] # "None" =>
                          task["Capture"] = "Done" /\ task'["Capture"] = "None"
  <1>1. SlotInv /\ HandInv /\ [Next]_vars => [Handed]_vars /\ [Held]_vars /\ [Follows]_vars
    <2> SUFFICES ASSUME SlotInv, HandInv, Next PROVE Handed /\ Held /\ Follows
      OBVIOUS
    <2>1. CASE AnyTick
      <3>1. PICK report \in {"None", "Ready"} \cup Live \cup Terminal,
               outcome \in UploadStarts : TickCommon(report, outcome)
        BY <2>1 DEF AnyTick, Tick, TickTimesOut, TickIdle, TickBusy
      <3> QED BY <3>1, TickServesUpload, RunningUploads
    <2>2. CASE Starts
      <3>1. PICK outcome \in CaptureStarts \cup UploadStarts :
               Bootstrap(outcome) \/ OnExternalCaptureTrigger(outcome)
        BY <2>2 DEF Starts, FirstStarts
      <3>2. TaskAfterStart(outcome) # "None"
        BY StartsAreStates DEF Live, Terminal
      <3>3. /\ mode = "CaptureUpload" => task'["Upload"] = task["Upload"]
            /\ \A t \in TaskTypes : task'[t] = "None" => task[t] = "None"
        BY <3>1, <3>2 DEF Bootstrap, OnExternalCaptureTrigger, ScheduleCapture, ScheduleUpload,
                          SlotInv, TypeOK, TaskTypes
      <3> QED BY <3>3 DEF SlotInv, TaskTypes, Live
    <2>3. CASE ~AnyTick /\ ~Starts
      <3>1. \A t \in TaskTypes : task'[t] = "None" <=> task[t] = "None"
        BY <2>3 DEF Next, Starts, SignalShutdown, StopAll, StopSlot, JoinSlot, TaskMoves, Elapse,
                    SlotInv, TypeOK, Live, Terminal
      <3> QED BY <3>1 DEF SlotInv, TaskTypes, Live
    <2> QED BY <2>1, <2>2, <2>3
  <1> QED BY HandInvariant, <1>1, PTL
          DEF Spec, CaptureHandedOver, UploadHeldWhileCapturing, UploadFollowsCapture
=============================================================================
