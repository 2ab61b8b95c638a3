---------------------------- MODULE RecordingProofs ----------------------------
(***************************************************************************)
(* What holds of recordings, however many are triggered.                   *)
(*                                                                         *)
(* The owner and the recording thread share recording_, is_recording_ and  *)
(* video_recorder_ without a common lock.  What keeps them apart is an     *)
(* order: the thread clears recording_ only when it has made its last use  *)
(* of the recorder, and the owner takes the recorder away only when        *)
(* recording_ is clear, or when it has given up waiting for that.          *)
(***************************************************************************)
EXTENDS Recording, FiniteSetTheorems, TLAPS

\* The thread has not cleared recording_ yet, or not even reported.
Unreported == thread \in {"recording", "looking", "using", "reporting", "lookingAgain",
                          "usingAgain", "describing"}
Live == Unreported \/ thread = "freeing"

Starting == owner \in {"replacing", "joining", "starting"}
Ending == owner \in {"releasing", "leaving", "over"}

\* recording_ covers the thread's use of the recorder, unless it was forced
\* (RecordTask::trigger, onCompleteRecord and stop).
Covered ==
    /\ forced => Ending
    /\ Live => recording \/ forced
    /\ Starting => recording /\ ~Live
    /\ Ending => ~recording

\* A thread that uses the recorder has it, and so has a stop that comes while
\* it records (CameraRecorder::stop).
Held ==
    /\ thread \in {"using", "usingAgain"} => recorder # None \/ forced
    /\ owner = "free" /\ thread = "recording" => isRecording /\ recorder # None

\* No thread, no VideoRecorder; and none of either where a start is made or
\* stop() returns (CameraRecorder::releaseVideoResources).
Gone ==
    /\ thread = "none" => objects = {}
    /\ owner \in {"starting", "over"} => thread = "none"

\* Reports are those of past triggers, each once; the current recording is
\* missing exactly while it has not reported.
Accounted ==
    /\ \A i \in DOMAIN reports : reports[i] <= triggers
    /\ Unreported \/ Starting => triggers \in Recordings /\ triggers \notin ToSet(reports)
    /\ started \subseteq ToSet(reports) \cup (IF Unreported THEN {triggers} ELSE {})
    /\ IsInjective(reports)

IInv ==
    /\ TypeOK
    /\ OneEncoder
    /\ StopIsHeard
    /\ TakenOnlyByForce
    /\ Covered
    /\ Held
    /\ Gone
    /\ Accounted

-----------------------------------------------------------------------------
(* Sequences without repetitions *)

\* What appending adds to the elements.
LEMMA AppendAddsElement ==
    ASSUME NEW S, NEW s \in Seq(S), NEW e \in S
    PROVE  ToSet(Append(s, e)) = ToSet(s) \cup {e}
<1>1. /\ DOMAIN Append(s, e) = 1 .. Len(s) + 1
      /\ DOMAIN s = 1 .. Len(s)
      /\ Len(s) \in Nat
      /\ Append(s, e)[Len(s) + 1] = e
      /\ \A i \in 1 .. Len(s) : Append(s, e)[i] = s[i]
  OBVIOUS
<1> QED BY <1>1 DEF ToSet

\* Appending something new keeps a sequence free of repetitions.
LEMMA AppendKeepsInjective ==
    ASSUME NEW S, NEW s \in Seq(S), NEW e \in S, IsInjective(s), e \notin ToSet(s)
    PROVE  IsInjective(Append(s, e))
<1>1. /\ DOMAIN Append(s, e) = 1 .. Len(s) + 1
      /\ DOMAIN s = 1 .. Len(s)
      /\ Len(s) \in Nat
      /\ Append(s, e)[Len(s) + 1] = e
      /\ \A i \in 1 .. Len(s) : Append(s, e)[i] = s[i]
  OBVIOUS
<1>2. \A i \in 1 .. Len(s) : s[i] # e
  BY <1>1 DEF ToSet
<1>3. \A i, j \in 1 .. Len(s) : s[i] = s[j] => i = j
  BY <1>1 DEF IsInjective
<1>4. \A i \in 1 .. Len(s) + 1 : i \in 1 .. Len(s) \/ i = Len(s) + 1
  BY <1>1
<1>5. ASSUME NEW i \in DOMAIN Append(s, e), NEW j \in DOMAIN Append(s, e),
             Append(s, e)[i] = Append(s, e)[j]
      PROVE  i = j
  BY <1>1, <1>2, <1>3, <1>4, <1>5
<1> QED BY <1>5 DEF IsInjective

-----------------------------------------------------------------------------
(* The parts of the invariant *)

LEMMA InitInv == Init => IInv
<1> SUFFICES ASSUME Init PROVE IInv
  OBVIOUS
<1>1. TypeOK
  <2>1. reports \in Seq(Recordings)
    BY DEF Init
  <2>2. triggers \in 0 .. MaxTriggers
    BY TriggersAreBounded DEF Init
  <2> QED BY <2>1, <2>2 DEF Init, TypeOK
<1>2. OneEncoder
  BY FS_EmptySet DEF Init, OneEncoder
<1>3. StopIsHeard /\ TakenOnlyByForce /\ Covered /\ Held /\ Gone
  BY DEF Init, StopIsHeard, TakenOnlyByForce, Covered, Held, Gone, Live, Unreported,
         Starting, Ending
<1>4. Accounted
  BY DEF Init, Accounted, ToSet, IsInjective, Unreported, Starting
<1> QED BY <1>1, <1>2, <1>3, <1>4 DEF IInv

\* The types need to know that what is started has been triggered.
LEMMA NextType == TypeOK /\ Accounted /\ [Next]_vars => TypeOK'
<1> SUFFICES ASSUME TypeOK, Accounted, [Next]_vars PROVE TypeOK'
  OBVIOUS
<1> USE DEF TypeOK
<1>1. CASE Trigger
  <2>1. triggers' \in 0 .. MaxTriggers
    BY <1>1, TriggersAreBounded DEF Trigger
  <2> QED BY <1>1, <2>1 DEF Trigger
<1>2. CASE Release \/ StartRefused \/ Waited \/ WaitTimesOut
  BY <1>2 DEF Release, TakeAway, Released, StartRefused, Waited, WaitTimesOut
<1>8. CASE Stop
  <2>1. stopWanted' \in BOOLEAN
    BY <1>8, Zenon DEF Stop
  <2> QED BY <1>8, <2>1 DEF Stop
<1>3. CASE StartFails
  <2>1. triggers \in Recordings
    BY <1>3 DEF StartFails, Accounted, Starting
  <2>2. reports' \in Seq(Recordings)
    BY <1>3, <2>1 DEF StartFails
  <2> QED BY <1>3, <2>2 DEF StartFails
<1>9. CASE Start
  <2>1. triggers \in Recordings
    BY <1>9 DEF Start, Accounted, Starting
  <2> QED BY <1>9, <2>1 DEF Start
<1>4. CASE RecordingEnds \/ Look \/ Report \/ AllowNext \/ StopStreams
  BY <1>4 DEF RecordingEnds, Look, AfterUse, Report, AllowNext, StopStreams
<1>5. CASE Use
  <2>1. crashed' \in BOOLEAN
    BY <1>5, Zenon DEF Use
  <2> QED BY <1>5, <2>1 DEF Use, AfterUse
<1>6. CASE Describe
  <2>1. triggers \in Recordings
    BY <1>6 DEF Describe, Accounted, Unreported
  <2> QED BY <1>6, <2>1 DEF Describe
<1>7. CASE UNCHANGED vars
  BY <1>7 DEF vars
<1> QED
  BY <1>1, <1>2, <1>3, <1>4, <1>5, <1>6, <1>7, <1>8, <1>9
  DEF Next, Owner, Thread, Finished

\* No step makes a second VideoRecorder.
LEMMA NextEncoder == TypeOK /\ OneEncoder /\ Gone /\ [Next]_vars => OneEncoder'
<1> SUFFICES ASSUME TypeOK, OneEncoder, Gone, [Next]_vars PROVE OneEncoder'
  OBVIOUS
<1>1. CASE Start
  <2>1. objects' = {triggers}
    BY <1>1 DEF Start, Gone
  <2> QED BY <2>1, FS_Singleton DEF OneEncoder
<1>2. CASE Released
  BY <1>2, FS_EmptySet DEF Released, OneEncoder
<1>3. ASSUME ~Start, ~Released PROVE objects' = objects
  BY <1>3 DEF Next, Owner, Thread, Finished, Trigger, Release, TakeAway, StartRefused,
              StartFails, Stop, Waited, WaitTimesOut, RecordingEnds, Look, Use, Report,
              Describe, AllowNext, StopStreams, vars
<1> QED BY <1>1, <1>2, <1>3 DEF OneEncoder

\* The flags and the two threads.
LEMMA NextOrder == IInv /\ [Next]_vars =>
                      (StopIsHeard /\ TakenOnlyByForce /\ Covered /\ Held /\ Gone)'
<1> SUFFICES ASSUME IInv, [Next]_vars
             PROVE  (StopIsHeard /\ TakenOnlyByForce /\ Covered /\ Held /\ Gone)'
  OBVIOUS
<1> USE DEF IInv, StopIsHeard, TakenOnlyByForce, Covered, Held, Gone, Live, Unreported,
            Starting, Ending
<1>1. CASE Trigger
  <2>1. ~crashed
    BY <1>1 DEF Next, Finished, Trigger, vars
  <2> QED BY <1>1, <2>1 DEF Trigger
<1>10. CASE TakeAway \/ Released
  BY <1>10 DEF TakeAway, Released
<1>2. CASE StartRefused \/ StartFails
  BY <1>2 DEF StartRefused, StartFails
<1>3. CASE Start
  <2>1. triggers # None
    BY <1>3, NoneIsNoRecording DEF Start, Accounted
  <2> QED BY <1>3, <2>1 DEF Start
<1>4. CASE Waited \/ WaitTimesOut
  BY <1>4 DEF Waited, WaitTimesOut
<1>8. CASE Stop
  <2>1. stopWanted' = (stopWanted \/ (recording /\ isRecording /\ recorder # None))
    BY <1>8 DEF Stop
  <2>2. thread = "recording" => stopWanted'
    BY <1>8, <2>1, Zenon DEF Stop, TypeOK
  <2>3. /\ thread' = thread /\ recorder' = recorder /\ isRecording' = isRecording
        /\ objects' = objects /\ recording' = recording /\ forced' = forced
        /\ crashed' = crashed /\ owner' = (IF recording THEN "waiting" ELSE "releasing")
        /\ owner \in {"free", "over"}
    BY <1>8 DEF Stop
  <2>4. StopIsHeard'
    BY <2>2, <2>3
  <2>5. (TakenOnlyByForce /\ Covered /\ Held /\ Gone)'
    BY <2>3
  <2> QED BY <2>4, <2>5
<1>5. CASE RecordingEnds \/ Look
  BY <1>5 DEF RecordingEnds, Look, AfterUse
<1>9. CASE Use
  <2>1. crashed' => recorder = None
    BY <1>9, Zenon DEF Use
  <2>2. /\ thread \in {"using", "usingAgain"}
        /\ thread' \in {AfterUse(thread), "lookingAgain"}
        /\ recorder' = recorder /\ isRecording' = isRecording /\ forced' = forced
        /\ objects' = objects /\ recording' = recording /\ owner' = owner
        /\ stopWanted' = stopWanted
    BY <1>9 DEF Use
  <2> QED BY <2>1, <2>2 DEF AfterUse
<1>6. CASE Report \/ Describe \/ AllowNext \/ StopStreams
  BY <1>6 DEF Report, Describe, AllowNext, StopStreams
<1>7. CASE UNCHANGED vars
  BY <1>7 DEF vars
<1> QED
  BY <1>1, <1>2, <1>3, <1>4, <1>5, <1>6, <1>7, <1>8, <1>9, <1>10
  DEF Next, Owner, Release, Thread, Finished

\* Reports are made by a start that fails and by a thread that describes.
LEMMA NextAccount == IInv /\ [Next]_vars => Accounted'
<1> SUFFICES ASSUME IInv, [Next]_vars PROVE Accounted'
  OBVIOUS
<1> USE DEF IInv
<1>1. CASE Trigger
  <2>1. ~Unreported /\ ~Unreported' /\ reports' = reports /\ started' = started
    BY <1>1 DEF Trigger, Covered, Gone, Live, Unreported, Ending
  <2>2. triggers \in Nat /\ triggers' \in Recordings /\ triggers' > triggers
    BY <1>1, TriggersAreBounded DEF Trigger, TypeOK, Recordings
  <2>3. \A i \in DOMAIN reports : reports[i] \in Recordings /\ reports[i] <= triggers
    BY DEF Accounted, TypeOK
  <2>4. \A i \in DOMAIN reports : reports[i] < triggers'
    BY <2>2, <2>3 DEF Recordings
  <2>5. triggers' \notin ToSet(reports)
    <3>1. ASSUME NEW i \in DOMAIN reports, reports[i] = triggers' PROVE FALSE
      BY <2>2, <2>3, <2>4, <3>1 DEF Recordings
    <3> QED BY <3>1 DEF ToSet
  <2>6. \A i \in DOMAIN reports' : reports'[i] <= triggers'
    BY <2>1, <2>2, <2>3 DEF Recordings
  <2> QED BY <2>1, <2>2, <2>5, <2>6 DEF Accounted
<1>2. ASSUME StartFails \/ Describe PROVE Accounted'
  <2>1. triggers \in Recordings /\ triggers \notin ToSet(reports)
    BY <1>2 DEF StartFails, Describe, Accounted, Starting, Unreported
  <2>2. reports' = Append(reports, triggers) /\ triggers' = triggers /\ started' = started
    BY <1>2 DEF StartFails, Describe
  <2>3. ToSet(reports') = ToSet(reports) \cup {triggers}
    BY <2>1, <2>2, AppendAddsElement DEF TypeOK
  <2>4. IsInjective(reports')
    <3>1. reports \in Seq(Recordings) /\ IsInjective(reports)
      BY DEF TypeOK, Accounted
    <3>2. IsInjective(Append(reports, triggers))
      BY <2>1, <3>1, AppendKeepsInjective, Zenon
    <3> QED BY <2>2, <3>2 DEF IsInjective
  <2>5. \A i \in DOMAIN reports' : reports'[i] <= triggers
    <3>1. /\ DOMAIN reports' = 1 .. Len(reports) + 1
          /\ DOMAIN reports = 1 .. Len(reports)
          /\ Len(reports) \in Nat
          /\ reports'[Len(reports) + 1] = triggers
          /\ \A i \in 1 .. Len(reports) : reports'[i] = reports[i]
      BY <2>1, <2>2 DEF TypeOK
    <3> QED BY <2>1, <3>1 DEF Accounted, Recordings
  <2>6. ~(Unreported' \/ Starting')
    BY <1>2 DEF StartFails, Describe, Unreported, Starting, Gone, Covered, Live
  <2> QED BY <2>2, <2>3, <2>4, <2>5, <2>6 DEF Accounted
<1>3. CASE Start
  <2>1. reports' = reports /\ triggers' = triggers /\ started' = started \cup {triggers}
    BY <1>3 DEF Start
  <2>2. Unreported' /\ Starting /\ ~Unreported
    BY <1>3 DEF Start, Unreported, Starting, Gone
  <2> QED BY <2>1, <2>2 DEF Accounted
<1>4. ASSUME ~Trigger, ~StartFails, ~Describe, ~Start
      PROVE  /\ reports' = reports /\ triggers' = triggers /\ started' = started
             /\ Unreported' = Unreported
             /\ Starting' => Starting
  BY <1>4 DEF Next, Owner, Thread, Finished, Release, TakeAway, Released, StartRefused,
              Stop, Waited, WaitTimesOut, RecordingEnds, Look, AfterUse, Use, Report,
              AllowNext, StopStreams, vars, Unreported, Starting
<1> QED BY <1>1, <1>2, <1>3, <1>4 DEF Accounted

\* The invariant, for every reachable state.
LEMMA Invariance == Spec => []IInv
<1>1. IInv /\ [Next]_vars => IInv'
  BY NextType, NextEncoder, NextOrder, NextAccount DEF IInv
<1> QED BY <1>1, InitInv, PTL DEF Spec

-----------------------------------------------------------------------------
(* The theorems *)

\* The variables keep their types.
THEOREM TypesHold == Spec => []TypeOK
BY Invariance, PTL DEF IInv

\* A VideoRecorder is made only when the one before it has gone.
THEOREM EncoderIsSingle == Spec => []OneEncoder
BY Invariance, PTL DEF IInv

\* A stop that waits for a recording has told it to end.
THEOREM StopsAreHeard == Spec => []StopIsHeard
BY Invariance, PTL DEF IInv

\* A callback loses its recorder only to a stop that has given up waiting.
THEOREM OnlyByForce == Spec => []TakenOnlyByForce
BY Invariance, PTL DEF IInv

\* Each recording is reported once, and before stop() returns.
THEOREM AllReported == Spec => []ReportedWhenOver
<1>1. IInv => ReportedWhenOver
  BY DEF IInv, Accounted, Gone, Covered, Ending, Unreported, ReportedWhenOver
<1> QED BY <1>1, Invariance, PTL
=============================================================================
