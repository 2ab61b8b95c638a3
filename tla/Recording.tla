------------------------------ MODULE Recording ------------------------------
(***************************************************************************)
(* One RecordTask and what it stands on: the CameraRecorder it keeps, the  *)
(* VideoRecorder that is made for each recording, and the thread in which  *)
(* a recording runs and reports.                                           *)
(*                                                                         *)
(* The thread that owns the task (the capture lane of the work mode, the   *)
(* event loop before it) triggers recordings, stops and releases.  The     *)
(* recording thread reports through the CameraRecorder and the task while  *)
(* the owner may be taking the VideoRecorder away: the owner first clears  *)
(* video_recorder_, and only then waits for the thread.                    *)
(***************************************************************************)
EXTENDS Naturals, Sequences, SequencesExt, FiniteSets

CONSTANTS
    MaxTriggers,    \* bound on the triggers that are not rejected
    None            \* video_recorder_ is empty

ASSUME TriggersAreBounded == MaxTriggers \in Nat

Recordings == 1 .. MaxTriggers

ASSUME NoneIsNoRecording == None \notin Recordings

VARIABLES
    owner,          \* where the owner is
    triggers,       \* recordings triggered so far; each has its number
    recording,      \* RecordTask::recording_
    isRecording,    \* CameraRecorder::is_recording_
    stopWanted,     \* stopRecording of the current VideoRecorder
    recorder,       \* video_recorder_
    objects,        \* the VideoRecorders that exist
    thread,         \* where the recording thread is
    forced,         \* the last stop() has given up waiting
    crashed,        \* an empty video_recorder_ was dereferenced
    started,        \* the recordings whose start was reported as a success
    reports         \* the recordings onCompleteRecord was called for

vars == <<owner, triggers, recording, isRecording, stopWanted, recorder, objects,
          thread, forced, crashed, started, reports>>

Init ==
    /\ owner = "free"
    /\ triggers = 0
    /\ recording = FALSE
    /\ isRecording = FALSE
    /\ stopWanted = FALSE
    /\ recorder = None
    /\ objects = {}
    /\ thread = "none"
    /\ forced = FALSE
    /\ crashed = FALSE
    /\ started = {}
    /\ reports = <<>>

-----------------------------------------------------------------------------
(* The owner *)

\* Mutant: the trigger takes no number.
TriggerUncounted ==
    /\ owner \in {"free", "over"}
    /\ ~recording
    /\ triggers < MaxTriggers
    /\ recording' = TRUE
    /\ owner' = "replacing"
    /\ forced' = FALSE
    /\ UNCHANGED <<triggers, isRecording, stopWanted, recorder, objects, thread,
                   crashed, started, reports>>

\* Mutant: the VideoRecorder of the last recording is not released first.
TriggerAtOnce ==
    /\ owner \in {"free", "over"}
    /\ ~recording
    /\ triggers < MaxTriggers
    /\ recording' = TRUE
    /\ triggers' = triggers + 1
    /\ owner' = "starting"
    /\ forced' = FALSE
    /\ UNCHANGED <<isRecording, stopWanted, recorder, objects, thread, crashed,
                   started, reports>>

\* A trigger during a recording is rejected and changes nothing.  The owner
\* triggers the same task again when stop() has returned.
Trigger ==
    /\ owner \in {"free", "over"}
    /\ ~recording
    /\ triggers < MaxTriggers
    /\ recording' = TRUE
    /\ triggers' = triggers + 1
    /\ owner' = "replacing"
    /\ forced' = FALSE
    /\ UNCHANGED <<isRecording, stopWanted, recorder, objects, thread, crashed,
                   started, reports>>

\* releaseVideoResources up to the join in the destructor of the VideoRecorder.
TakeAway ==
    /\ owner \in {"replacing", "releasing"}
    /\ recorder' = None
    /\ owner' = IF owner = "replacing" THEN "joining" ELSE "leaving"
    /\ UNCHANGED <<triggers, recording, isRecording, stopWanted, objects, thread, forced,
                   crashed, started, reports>>

\* ... and the rest of it.
Released ==
    /\ owner \in {"joining", "leaving"}
    /\ thread \in {"none", "done"}
    /\ thread' = "none"
    /\ objects' = {}
    /\ isRecording' = FALSE
    /\ owner' = IF owner = "joining" THEN "starting" ELSE "over"
    /\ UNCHANGED <<triggers, recording, stopWanted, recorder, forced, crashed, started,
                   reports>>

\* No directory, no space, or no VideoRecorder.
StartRefused ==
    /\ owner = "starting"
    /\ recording' = FALSE
    /\ owner' = "free"
    /\ UNCHANGED <<triggers, isRecording, stopWanted, recorder, objects, thread, forced,
                   crashed, started, reports>>

\* VideoRecorder::record reports at once, in the owner's thread, and fails.
StartFails ==
    /\ owner = "starting"
    /\ reports' = Append(reports, triggers)
    /\ isRecording' = FALSE
    /\ recorder' = None
    /\ recording' = FALSE
    /\ stopWanted' = FALSE
    /\ owner' = "free"
    /\ UNCHANGED <<triggers, objects, thread, forced, crashed, started>>

\* Mutant: is_recording_ is not set.
StartUnmarked ==
    /\ owner = "starting"
    /\ stopWanted' = FALSE
    /\ recorder' = triggers
    /\ objects' = objects \cup {triggers}
    /\ thread' = "recording"
    /\ started' = started \cup {triggers}
    /\ owner' = "free"
    /\ UNCHANGED <<triggers, recording, isRecording, forced, crashed, reports>>

Start ==
    /\ owner = "starting"
    /\ isRecording' = TRUE
    /\ stopWanted' = FALSE
    /\ recorder' = triggers
    /\ objects' = objects \cup {triggers}
    /\ thread' = "recording"
    /\ started' = started \cup {triggers}
    /\ owner' = "free"
    /\ UNCHANGED <<triggers, recording, forced, crashed, reports>>

\* Mutant: stop() does not wait for the recording to complete.
StopAtOnce ==
    /\ owner \in {"free", "over"}
    /\ stopWanted' = (stopWanted \/ (recording /\ isRecording /\ recorder # None))
    /\ owner' = "releasing"
    /\ UNCHANGED <<triggers, recording, isRecording, recorder, objects, thread, forced,
                   crashed, started, reports>>

\* RecordTask::stop: CameraRecorder::stop is a no-op once the recording thread
\* has begun to report.
Stop ==
    /\ owner \in {"free", "over"}
    /\ stopWanted' = (stopWanted \/ (recording /\ isRecording /\ recorder # None))
    /\ owner' = IF recording THEN "waiting" ELSE "releasing"
    /\ UNCHANGED <<triggers, recording, isRecording, recorder, objects, thread, forced,
                   crashed, started, reports>>

Waited ==
    /\ owner = "waiting"
    /\ ~recording
    /\ owner' = "releasing"
    /\ UNCHANGED <<triggers, recording, isRecording, stopWanted, recorder, objects, thread,
                   forced, crashed, started, reports>>

\* Eight seconds are over.
WaitTimesOut ==
    /\ owner = "waiting"
    /\ recording
    /\ recording' = FALSE
    /\ forced' = TRUE
    /\ owner' = "releasing"
    /\ UNCHANGED <<triggers, isRecording, stopWanted, recorder, objects, thread, crashed,
                   started, reports>>

Release == TakeAway \/ Released

Owner == Trigger \/ Release \/ StartRefused \/ StartFails \/ Start \/ Stop \/ Waited
             \/ WaitTimesOut

-----------------------------------------------------------------------------
(* The recording thread *)

\* The loop ends: told to, at the end of its time, or because it cannot go on.
RecordingEnds ==
    /\ thread = "recording"
    /\ thread' = "looking"
    /\ UNCHANGED <<owner, triggers, recording, isRecording, stopWanted, recorder, objects,
                   forced, crashed, started, reports>>

\* video_recorder_ && video_recorder_->hasThumbnail(), in the callback of the
\* CameraRecorder and again, any number of times, in that of the task.
AfterUse(t) == IF t \in {"looking", "using"} THEN "reporting" ELSE "describing"

Look ==
    /\ thread \in {"looking", "lookingAgain"}
    /\ thread' = IF recorder = None THEN AfterUse(thread)
                 ELSE IF thread = "looking" THEN "using" ELSE "usingAgain"
    /\ UNCHANGED <<owner, triggers, recording, isRecording, stopWanted, recorder, objects,
                   forced, crashed, started, reports>>

Use ==
    /\ thread \in {"using", "usingAgain"}
    /\ crashed' = (recorder = None)
    /\ thread' \in {AfterUse(thread)}
           \cup (IF thread = "usingAgain" THEN {"lookingAgain"} ELSE {})
    /\ UNCHANGED <<owner, triggers, recording, isRecording, stopWanted, recorder, objects,
                   forced, started, reports>>

Report ==
    /\ thread = "reporting"
    /\ isRecording' = FALSE
    /\ thread' = "lookingAgain"
    /\ UNCHANGED <<owner, triggers, recording, stopWanted, recorder, objects, forced,
                   crashed, started, reports>>

\* Mutant: nothing is described once stop() has given up.
DescribeIfAwaited ==
    /\ thread = "describing"
    /\ reports' = IF recording THEN Append(reports, triggers) ELSE reports
    /\ thread' = "freeing"
    /\ UNCHANGED <<owner, triggers, recording, isRecording, stopWanted, recorder, objects,
                   forced, crashed, started>>

\* The rest of onCompleteRecord: the description, then recording_.
Describe ==
    /\ thread = "describing"
    /\ reports' = Append(reports, triggers)
    /\ thread' = "freeing"
    /\ UNCHANGED <<owner, triggers, recording, isRecording, stopWanted, recorder, objects,
                   forced, crashed, started>>

AllowNext ==
    /\ thread = "freeing"
    /\ recording' = FALSE
    /\ thread' = "stopping"
    /\ UNCHANGED <<owner, triggers, isRecording, stopWanted, recorder, objects, forced,
                   crashed, started, reports>>

StopStreams ==
    /\ thread = "stopping"
    /\ thread' = "done"
    /\ UNCHANGED <<owner, triggers, recording, isRecording, stopWanted, recorder, objects,
                   forced, crashed, started, reports>>

Thread == RecordingEnds \/ Look \/ Use \/ Report \/ Describe \/ AllowNext \/ StopStreams

\* Nothing is left to do; anywhere else the system must not come to a stop.
Finished == (owner = "over" \/ crashed) /\ UNCHANGED vars

Next == (~crashed /\ (Owner \/ Thread)) \/ Finished

Spec == Init /\ [][Next]_vars

-----------------------------------------------------------------------------
TypeOK ==
    /\ owner \in {"free", "replacing", "joining", "starting", "waiting", "releasing",
                  "leaving", "over"}
    /\ triggers \in 0 .. MaxTriggers
    /\ recording \in BOOLEAN /\ isRecording \in BOOLEAN /\ stopWanted \in BOOLEAN
    /\ forced \in BOOLEAN /\ crashed \in BOOLEAN
    /\ recorder \in Recordings \cup {None}
    /\ objects \subseteq Recordings
    /\ thread \in {"none", "recording", "looking", "using", "reporting", "lookingAgain",
                   "usingAgain", "describing", "freeing", "stopping", "done"}
    /\ started \subseteq Recordings
    /\ reports \in Seq(Recordings)

\* Two VideoRecorders never exist at once: the second would ask for an encoder
\* channel the first has not given back (record_task.cpp trigger).
OneEncoder == Cardinality(objects) <= 1

\* A stop reaches the recording it waits for, so the waiting is for its end and
\* not for its full length (CameraRecorder.cpp stop, which does nothing when
\* is_recording_ is not set).
StopIsHeard == owner = "waiting" /\ thread = "recording" => stopWanted

\* The recorder is never taken from under the callback that uses it, except by
\* a stop that has run out of patience (record_task.cpp stop).
TakenOnlyByForce == crashed => forced

\* Each recording is reported once, and by the time stop() returns every one
\* that was started has been reported and its thread is gone, forced or not.
ReportedWhenOver ==
    /\ IsInjective(reports)
    /\ owner = "over" =>
           /\ started \subseteq ToSet(reports)
           /\ thread = "none" /\ ~recording

\* onComplete is not called for a recording whose start has failed.  The header
\* of CameraRecorder says so; VideoRecorder::record calls it: no run claims it.
FailedIsSilent == ToSet(reports) \subseteq started
=============================================================================
