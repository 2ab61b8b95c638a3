# Verification of t32_cam

t32_cam is the firmware of a battery camera. Its MCU powers the Linux side up for
one purpose at a time; in *work mode* the program `htc_wm_app` (`src/app/wm_app.cpp`)
takes a picture or a video when the PIR sensor fires, uploads what it has taken to a
storage server, and powers the device off as soon as nothing is left to do. Nobody
watches it: a capture that is lost, an upload that never ends or a power off that
comes too early is noticed in the field, days later. In *user mode* the program
`htc_um_app` (`src/app/um_app.cpp`) serves a phone: a preview over RTSP, photographs and
recordings over HTTP, events over TCP, and again a power off when nobody is left.

This project models both in TLA+: TLC checks the models on small instances, and TLAPS
proves, for every value of the constants and under the conditions section 4 names, every
safety property that a passing run checks, its two refinements (`KeepsCustody`,
`RingIsQueue`) among them.

All paths are relative to the repository root (`src/` is its source directory).

## 1. The system

### 1.1 Components

| Component | State it keeps | Operations | Where |
|---|---|---|---|
| Task scheduler | two slots (capture, upload) with a task, a state and a lock; idle clock; shutdown reason | `bootstrap`, `tick`, `onExternalCaptureTrigger`, `requestShutdown`, `stopAll` | `app/workmode/wm_task_scheduler.*` |
| Runtime of one run | main loop, trigger and signal waits, what the factory makes | `run`, `CaptureLaneTask`, `persistStrandedTmpDir` | `app/workmode/wm_scheduler.*` |
| Slot output port | wake tokens, idle flag, stopped flag, one mutex | `push`, `signalStop`, `setBusy`, `parkIfNoWork`, `isSettled` | `app/workmode/slot_output_port.h` |
| Upload task | a worker thread, `connected_`, activity clock, task state | `start`, `poll`, `stop`, `timeoutAgeMs`, `runLoop`, `scanAndUploadOnePass`, `uploadOneDesc` | `app/workmode/upload_task.*` |
| Storage server client | upload queue and its thread, one acknowledgement flag, one callback | `uploadFile`, `uploadThread`, `upload`, `handleUploadCommand`, `requestStop` | `network/StorageServClient.*` |
| Capture lane, snap and record task | recording flag, completion callback | `trigger`, `runOnceBlocking`, `stop` | `app/workmode/capture_lane.*`, `snap_task.*`, `record_task.*` |
| Stranded work directories | time-stamped directories on tmpfs and SD | sweep at boot, ingest, rescue at shutdown | `app/workmode/wm_sweep.*`, `wm_ingest.*`, `wm_paths.h`, `app/wm_app.cpp` |
| PIR trigger, process lifecycle, time keeping | GPIO state; start-up stage; RTC | waits, start-up and power off | `pir_trigger.*`, `app_lifecycle/`, `wm_time.*` |
| Legacy work-mode runner | the predecessor of the scheduler with an in-memory upload queue | `WorkModeRunner`, `UploadWorker` | `WorkModeRunner.*`, `upload_worker.*` |
| RTSP server | connections, sessions per stream, the one active preview, deferred starts | SETUP, PLAY, TEARDOWN, close, `client_start_playback` | `media/rtsp/rtsp.c`, `RtspServer.cpp` |
| Media session and FIFO | a producer thread, a ring of frames that owns their memory, a frame in the sender's hands | `start`, `stop`, `producerLoop`, `pullDataInternal`; `push`, `popBlocking`, `release`, `dropOldest`, `dropFirstNonKeyFrame` | `media/rtsp/MediaSession.cpp`, `media/fifo/` |
| User mode and idle timer | client count, last request, idle start, decision | `onRtspConnect`, `onRtspDisconnect`, `onHttpRequest`, `tick` | `app/um_app.cpp`, `app/usermode/` |
| Photo job manager | pending queue, retained jobs, one worker | `submit`, `workerLoop`, `pruneLocked`, `stop` | `service/http_server/PhotoJobManager.*` |
| TCP event service | one client, its sequence and activity, two threads | `start`, `stop`, `publish`, `acceptLoop`, `heartbeatLoop` | `service/event/` |
| Camera and video recorder | `is_recording_`, `video_recorder_`; the recording thread | `record`, `stop`, `releaseVideoResources`, completion | `service/camera/`, `media/video/` |
| Everything else | HTTP request handlers, HAL channels, MCU registers, daemon, database, settings, dongles, discovery | | see `PROJECT.json`, `components` |

### 1.2 How they interact

* The **main loop** (`WmScheduler::run`) ticks the scheduler, pushes a wake token for
  every capture that has left slot 1, then waits for a trigger and for a signal.
* The **capture worker** (a thread of `CaptureLaneTask`) takes pictures and videos and
  writes a *description* next to them: a JSON file that names the media and carries an
  `F_UploadedTag` for itself and for each of them. Files are the only channel from
  capture to upload; the token says only "look again".
* The **upload worker** (a thread of `UploadTask`) scans the directories for
  descriptions with a tag still 0, uploads them, and parks in the port when a pass
  found nothing to do. It never ends by itself: `poll` turns the task `Done` when the
  port is *settled* (parked and no token), and the task's destructor stops the port
  and joins the thread.
* The **upload thread** of the client sends one file at a time and waits for an
  answer; answers arrive on a **receiving thread**, carry no file name, and set two
  flags the upload thread polls. A `std::function` assigned by the upload worker is
  called by the upload thread after each file.
* A run ends for one of three reasons, and the first one counts: both slots have been
  empty for the idle grace, the upload has made no progress for the upload timeout
  (which also raises a SIGTERM), or a signal. Then `stopAll` stops and joins both
  tasks, and after an upload timeout the work directories on tmpfs are moved to the SD.
* In a recording the **recording thread** of the `VideoRecorder` reports to the
  `CameraRecorder`, which reports to the `RecordTask`; the thread that owns the task
  meanwhile triggers, stops and releases, and the destructor of the recorder joins the
  recording thread.
* In user mode the **event loop** of libevent runs every RTSP request and timer, the
  **main thread** ticks the idle timer every 200 ms, **HTTP threads** submit jobs and are
  counted as activity, the **photo worker** photographs and publishes, and the **accept**
  and **heartbeat** threads of the event service share one client under one lock. The
  **producer thread** of a media session fills the ring the event loop sends from.
  The shutdown goes HTTP server, photo worker, event service, RTSP server.

### 1.3 What is hard here, and what makes each part correct

* *Scheduler*: four clocks and flags decide when a battery-powered device switches off.
  Correct: a finished capture is handed to an uploader, the uploader does not leave
  while a capture may still produce work, the grace is a whole grace, the first
  shutdown reason stands, every run ends.
* *Port and upload worker*: the classic lost wake-up, across a mutex, a condition
  variable and a destructor. Correct: an uploader parked over pending work is owed a
  wake-up; `Done` means drained; a stopped worker can be joined.
* *Upload of one unit*: two threads, a server, a callback that is rebound in
  flight, acknowledgements without identity, a rewrite that truncates first, `stop()`
  and power loss anywhere. Correct: no file leaves the device before the server has
  it; the tags tell which files are left; a stop returns.
* *Preview*: PLAY is granted in one event and starts in a later one, and between the two
  the session may be replaced or lost; a request may name session id 0, which stands for
  streams that are not set up and, where the preview is released, for any session. Correct:
  whatever plays is the one active session; a granted preview starts; the idle timer does
  not end a preview that is watched.
* *Frames*: a ring that owns memory, shifted in the middle, read by one thread between
  the critical sections of another. Correct: it is a queue, nothing is owned twice, a key
  frame gets in.
* *Photo jobs and events*: outcomes are published outside the lock, to clients that
  replace each other. Correct: what is told is true, told once and numbered; a job
  settles; no connection is forgotten.
* *Recording*: two threads and three flags around one `shared_ptr`. Correct: the recorder
  is not taken from under its callback, a stop is heard, what was started is reported.
* *Work directories*: directories that outlive the boot that made them, on two file
  systems, under names that may collide. Correct: nothing captured is deleted or
  overwritten before it is up.

Every such place is listed with its line in `PROJECT.json`, `hazards`.

## 2. Modules

| Module | Models | Composes |
|---|---|---|
| `TaskScheduler` | `WmTaskSchedulerCore` and `TaskSlot`, over tasks that do anything the `WmTask` interface allows | |
| `TaskSchedulerProofs` | its theorems | extends `TaskScheduler` |
| `WmRuntime` | one run of the program: main loop, capture worker, upload worker, port, shutdown | instantiates `TaskScheduler` as `Core` |
| `UploadDesc` | one description and its media going up: `uploadOneDesc`, the client's queue and thread, the server, `stop()`, power loss | instantiates `Custody` as `Unit` |
| `WmRuntimeProofs` | its theorems | extends `WmRuntime`, instantiates `TaskSchedulerProofs` as `Slots` |
| `Custody` | abstract: what uploading promises for the media of a unit | |
| `UploadDescProofs` | the theorems of `UploadDesc` | extends `UploadDesc` |
| `WorkDirs` | the work directories of m2 over many boots: quickSnap, sweep, ingest, upload, rescue, power loss | |
| `WorkDirsProofs` | its theorems | extends `WorkDirs` |
| `RtspPreview` | connections, sessions and PLAY of `rtsp.c`, `RtspServer`'s callbacks, `UmIdleCore`, the main loop of user mode and its shutdown | |
| `RtspPreviewProofs` | its theorems | extends `RtspPreview` |
| `MediaFifo` | `MediaFIFO`, the video producer thread and the sender | instantiates `FrameQueue` as `Abstract` |
| `FrameQueue` | abstract: the queue the ring stands for | |
| `MediaFifoProofs` | the theorems of `MediaFifo` | extends `MediaFifo` |
| `TcpEvents` | the event service and its peers | |
| `PhotoJobs` | `PhotoJobManager`, what it publishes, and the shutdown of both | extends `TcpEvents` |
| `PhotoJobsProofs` | its theorems and those of `TcpEvents` | extends `PhotoJobs` |
| `Recording` | `RecordTask`, `CameraRecorder`, the life cycle of `VideoRecorder` | |
| `RecordingProofs` | its theorems | extends `Recording` |

### 2.1 TaskScheduler

`task[t]` is what `state()` of the task in slot `t` returns and may change at any
time; `slot[t]` is the slot's own copy (`TaskSlot::state_`), refreshed by
`markDoneFromTask`. The difference is the point: a task is over before its slot knows.
`Bootstrap`, `OnExternalCaptureTrigger`, `Tick`, `SignalShutdown` and `StopAll` are the
methods. `tick()` is one action (the main loop is the only caller), split by its
outcome into `TickTimesOut`, `TickIdle` and `TickBusy`; `TaskAfterTick` and
`SlotAfterTick` are the slots as its four phases leave them. `stopAll()` blocks in the
tasks, so it is taken apart: `StopSlot` asks, `JoinSlot` returns when the task is over.
Clocks are ages that saturate at the value they are compared with; `quietFor` is a
history variable that the code does not have: for how long no slot has held a task at
work, which is what the grace measures. `CaptureStarts` and `UploadStarts` are what
`TaskSlot::start` may find a task to be when it looks after `start()`: the thread of a
capture may be over by then (`Done`, `Failed`), an `UploadTask` is Running until it is
polled or stopped.

### 2.2 WmRuntime

The tasks get bodies. `pc` is the main loop (boot, tick, push, wait, then the shutdown),
`capturing` the capture worker, `worker` the upload worker with the places where
`runLoop` can be interrupted: before and after the connect, between two files of a pass,
while a file is at the storage client, between the end of a pass and the critical section
of `parkIfNoWork`, and in the wait. The port's critical sections are single actions
(`Push`, `Park`, `Wake`, `Settled` where a tick polls). Every action of the scheduler is
an action of the module `TaskScheduler`, instantiated as `Core`, whose parameters the
threads supply; so its properties and theorems hold of the composed program.

* `CaptureLaneTask::start` makes the thread (`Launch`), which runs before `TaskSlot::start`
  looks (`Launched`): a capture may be found Done or Failed there (`CaptureFound`), and
  then the idle clock is not cleared (`TriggerIdle`).
* A tick that polls an uploader Done drops it, and its destructor signals the port
  (`Settle`) and joins the parked worker (`Reaped` waits for it): two steps between which
  the worker runs and the main loop does not.
* Uploading a description is `BeginUpload` and, when the storage client is through with
  it, `EndUpload`; what happens in between is the subject of `UploadDesc`. `stop()` in that
  interval may end the client's thread with files still queued, and the wait at
  `upload_task.cpp:334` then does not end: `Interrupted` lets the worker become `stuck`.

A description is `torn` while it is being written, `pending` or `gone`.

### 2.3 UploadDesc and Custody

File 0 is the description, the others its media. The worker's `uploadOneDesc` is a
sequence of steps that stops wherever another thread, the server or a power loss can
get in between: queue the description and wait 8 s for it, write it back (two steps:
`std::ofstream` truncates, then writes), rebind the callback, queue the media one by
one, wait for the queue to drain, delete what is up, write the description back, remove
the unit. The client's thread takes a file, opens it, resets the two flags and sends,
and returns on an answer or a timeout. `HandleUploadCommand` sets the flags for
whichever upload happens to be waiting, as the code does. `stop()` is three steps, the two
critical sections of `requestStop` and the shutdown of the socket (`StopQueue`,
`StopUpload`, `StopSocket`); the socket is the management client's, which the storage client
borrows, so only `mgmt->shutdownSocket()` has an effect. A power loss keeps the disk and
the server's memory.

`Custody` is the promise: the device is in charge of a file as long as the file and a
description that asks for it are on disk, and gives it up only once the server has
accepted it. `UploadDesc` implements it (`KeepsCustody`).

### 2.4 WorkDirs

A boot with a capture (`QuickSnap`) makes a directory on tmpfs, a boot without one
(`ForceUpload`) only looks for old ones. `BuildWorkDirs` is wm_app's list together with
`ensureWorkDirDesc`; `UploadOneDesc` uploads any part of what a description asks for and
can be opened; `UploadTimeout`, `StartMove`, `CopyBegins`, `CopyEnds`, `CopyFails` and
`MoveEnds` are `persistStrandedTmpDir` with `moveDirectoryRecursive` file by file, where
any copy may fail and the power may go at any point. Photo names consist of the time
stamp and a number, so directories made under the same stamp (a clock without RTC starts
over) hold files of the same names; and a description is found by the name of the
directory it is in, but finds its photos by the path it was made with. Both are modelled
because both matter.

`UploadOneDesc` stands for a unit that nobody stops in flight; what a `stop()` does to
it is `UploadDesc`'s business. The order of the list is left open: directories are
visited in any order, which includes "-d first".

### 2.5 RtspPreview

One action per handler of the event loop, which runs them one at a time: `Connect`,
`Setup`, `Play` (and `PlayUnanswered`, when the answer cannot be written), the timer event
of the deferred start (`DeferredPlay`, `DeferredTooLate`), `Teardown`, `Close`. `streams`
holds per connection and stream its session and whether it plays; `deferred` the session
of the pending timer event; `active` the pair of `active_client` and `active_session_id`.
`AfterOnSessionPlay` is what `RtspServer::onSessionPlay` does: it starts the media if they
do not run, which may fail, and otherwise calls the callback that counts. `HttpRequest`,
`Elapse` and `Turn` are the idle timer's inputs and the main loop's turn, with the tick
before the look at the request counter as in the code; `StopMedia`, `StopServer` and
`Deinitialize` are the shutdown. The event loop is asked to break and its thread is
detached, so it may serve until the end.

Requests may name any session and also id 0 (`Ids`; `None` in the model). A stream that is
not set up has it, so a PLAY of id 0 is granted without a SETUP, counts and reserves
nothing; a TEARDOWN of id 0 matches such a stream, or a connection without a deferred start,
and `server_release_active_session` takes 0 for any session (`Releases`): the preview is given
back while its own stream plays on. `zeroed` remembers which connections have done that.

### 2.6 MediaFifo and FrameQueue

`slots` is `frames_` with, per slot, the buffer it owns. Each operation of the ring is one
critical section and one action of the producer (`Store`, `MakeRoomOfNonKey`,
`MakeRoomOfKey`, `StoreKey`), so that the sender may `Pull` or `Release` between any two of
the up to four a key frame needs. `Push` keeps the slot's buffer or takes any that no slot
owns, which covers the code's reallocation. `stop()` leaves the ring as it is. Called by the event
loop it keeps the sender waiting for the producer, called by the main thread it does not; the
model lets the sender go on in both cases. `FrameQueue` is the queue without
indices, and `RingIsQueue` the refinement. Audio sessions drop plainly and are left out.

### 2.7 TcpEvents and PhotoJobs

`TcpEvents` has the client with its sequence number and activity, the accept thread with
the connection it has accepted and not handed over (`taken`), the heartbeat thread, and
the peers with what each has received. `Publish` is `publishLocked`: an event is sent or
the client is dropped. `PhotoJobs` extends it by the jobs. `Submit`, `PickUp` and
`Photograph` are critical sections, `Tell` happens outside the lock. `state` remembers jobs
that have been pruned so that what was told of them can be compared; `order` is what can
be asked for. `StopJobs`, `JoinWorker`, `StopHttp` and `StopEvents` follow the cleanup hook
and `ProcessLifecycle::shutdown`; HTTP threads still submit until `mg_stop` has returned.

### 2.8 Recording

The owner's steps and the recording thread's steps around `video_recorder_`. The callback
of `CameraRecorder` and that of `RecordTask` each look at the pointer and then use it
(`Look`, `Use`); `TakeAway` is the `reset()` that empties it before the destructor joins
(`Released`). `crashed` records a use of the empty pointer; nothing is modelled after it.
`WaitTimesOut` may happen at any point of the wait, for a wait of 8 s bounds nothing in a
thread that writes to an SD card. `stop()` is not the end: `CaptureLane::runOnceBlocking` calls
it after every capture and the task is triggered again. This run checks deadlock: the owner
never waits for good.

## 3. Runs

| Run | Question | Result |
|---|---|---|
| `scheduler` | the two-slot scheduler over arbitrary tasks | holds |
| `runtime` | the composed run, three modes, connections and uploads that fail at any time | holds |
| `upload_unit` | a unit of two media with rejections, lost answers and failed sends | holds |
| `upload_unit_cut` | the same in m1's shared directory, with `stop()` and power losses anywhere | holds |
| `work_dirs` | work directories over any number of boots, with equal time stamps | holds |
| `preview` | two clients against one preview, the idle timer, the shutdown | holds |
| `media_fifo` | producer and sender around a ring that wraps | holds |
| `photo_jobs` | photo jobs and the event service, up to their end | holds |
| `recording` | recordings that start, fail, end, are stopped or given up | holds |
| `upload_stop` | does a `stop()` between two files of a unit return? | no |
| `upload_unit_late_ack` | does an acknowledgement that comes late do harm? | yes |
| `preview_abandoned` | does a camera nobody watches any more turn itself off? | no |

What the passing runs establish:

* `scheduler`. `CaptureHandedOver`: the hand-over between the slots has no gap,
  whichever way a capture's end falls between two ticks, and also when it is over before its
  `start()` looks. `IdleGraceHonoured`: an idle shutdown needs both slots empty and a whole
  grace in which none has held a task at work, also when a capture comes and goes between two
  ticks. That the slots have been *empty* for it is more than the code does (3.3). `ShutdownIsFinal`: the SIGTERM
  that an upload timeout raises cannot replace its reason, on which the rescue depends.
  `StoppedIsQuiet`: what follows `stopAll`, the rescue first of all, finds no task at work.
* `runtime`. `WakeUpOwed`: no lost wake-up. `DoneMeansDrained`: a connected uploader
  that leaves as `Done` leaves nothing behind. `EndsUnlessCaught`: every run ends in a power
  off unless `stop()` catches the uploader between two files; the join of an uploader that is
  Done and parked, that of the capture, and that of an uploader anywhere else return.
* `upload_unit`, `upload_unit_cut`. `KeepsCustody`, `RemovedMeansAccepted`,
  `DeletedMeansAccepted`, `RemovedWhole`: nothing is deleted that the server has not
  accepted. `TagsTellFiles`: a pass resumes with exactly the files that are left, even
  though the description may be given up after 8 s and go up later, under the media's
  callback. `EventuallyRemoved`: after the last fault the unit goes up.
* `work_dirs`. `RescueKeeps`: a rescue neither overwrites a directory of the same stamp
  nor lets go of the source before the copy is whole. `AcceptedWhole`: a copy that
  failed half way is never taken for a work directory by a later boot, so the server is
  not given half a photo. It is stated for rescues that no loss of power cuts short;
  when one does, a later boot does make a description for the torn copy. `RemovedUp`: a
  directory is removed only when everything in it is up. It is stated for captures with
  different stamps; three captures under one stamp break it (the description in `ts_2`
  names the photos of the new `ts` on tmpfs and removes `ts_2` when those are up).

* `preview`. `StreamingIsActive`: a stream that plays belongs to the active session,
  although it was granted in one event and started in another, except for a client that has
  given the preview back by a TEARDOWN of session id 0; that exception is needed, and with it
  two clients can play at once (3.3). `GrantedStarts`: a granted preview starts unless the
  client gives the session or the preview up. `NoShutdownWhileWatched`: the
  timer never decides under a running preview, whichever request, tick or callback comes
  between. The count it relies on is too high rather than too low.
* `media_fifo`. `RingIsQueue`, `OwnersDiffer`: shifting frames in a ring that has wrapped
  neither reorders frames nor leaves a buffer with two owners. `KeyFrameEnters`: whatever
  the sender releases between the producer's steps, the room made for a key frame is
  there, and the frame enters last. What the sender releases need not be the frame it has
  sent: when the producer has dropped that one, another leaves unsent.
* `photo_jobs`. `ToldOnceAndTruly`: numbering, order and outcomes of what clients are told,
  across replacements. `Answerable`: retention never takes an unsettled job. `AcceptedSettles`,
  `ClientHears`: under fair threads a job ends and a client hears something or is dropped.
  `NoneForgotten`: also a connection accepted while `stop()` is under way is closed.
* `recording`. `TakenOnlyByForce`: as long as `stop()` does not run out of patience, the
  callbacks never meet an empty `video_recorder_`; after 8 s they can. `OneEncoder`,
  `StopIsHeard`, `ReportedWhenOver`.

What the others show (quotes and lines in `PROJECT.json`, `findings`):

* `upload_stop`: `requestStop` ends the client's thread after the file it is sending; the files
  queued behind it stay queued, the worker waits for the queue, `stop()` for the worker, and
  the program for `stop()`. No fault of the network is needed.
* `upload_unit_late_ack`: an answer carries no name. `KeepsCustody` therefore needs
  `AckTimely`, which the code does not guarantee.
* `preview_abandoned`: the play callback runs at the PLAY and again at the deferred start,
  the close callback once. One preview is enough, and the idle timer counts a client for
  good. This is also why `WatchedIsCounted` holds with ease. A PLAY of session id 0 does the
  same in fewer steps: it is counted and, having reserved nothing, never uncounted; that is
  the trace TLC prints.

### 3.1 Bounds, and why they are enough

* `IdleGrace`, `UploadTimeout`, `ConnectGrace` of 1 or 2 units: the code only compares
  clocks with these limits, and every order of the expiries occurs already with 1; 2 for
  the grace so that "some of it" and "all of it" differ.
* `MaxCaptures = 3`: one at boot, one that meets the first uploader, one that meets its
  successor. `MaxDescs = 2`: one file in the pass while another is written.
* `NMedia = 2`: a first, a last, and one that fails while the other does not.
* `MaxFaults = 4` (2 with crashes and stops): each file of a unit can fail once and one
  of them again; the theorems of the scheduler do not depend on any bound.
* `Shots = 2`, `Stamps = 2`: two captures with the same or with different stamps; boots
  are not bounded, since the state after a boot is only what is on the SD. `Photos = 2`:
  one copied while the other fails. The suffix needs no bound of
  its own: a free name is always found among one more than the captures.
* `Trigger` and `Signal` are enabled but never owed.
* `preview`: two clients, two session ids and one stream are the least with which one
  session can be replaced by, or compete with, another; `MaxPlays = 3` grants the preview,
  hands it over and grants it again; `Timeout = 2`, `Window = 1` as for the grace.
* `media_fifo`: three slots are the least with an inner one to shift, seven frames go round
  the ring more than twice.
* `photo_jobs`: one job kept of two, so that one is pruned; two connections, so that one is
  replaced; `MaxBeats = 2`, one before and one after an event.
* `recording`: three recordings, a first, one that meets its remains, and one after a
  failure; the theorems do not depend on the number.

The runs switch the deadlock check off since the program does stop (and, in `media_fifo`,
the frames run out); that it stops nowhere else is what `EndsUnlessCaught` and
`EventuallyRemoved` say. `recording` has it on.

### 3.2 Fairness

Weak fairness on every thread (`MainLoop`, `Shutdown`, `CaptureWorker`, `UploadWorker`,
`UploadThread`, `Server`, `Worker`): the kernel schedules them, and none of their waits
depends on more than what the guard says; on `Elapse`: the clock runs. Weak
fairness on the capture worker means that a recording ends, which the recorder's
configured duration and `RecordTask::stop`'s 8 s bound give; on the upload worker, that
`uploadOneDesc` returns unless it is `stuck`: the client's own time-outs bound its waits. Strong fairness only on
`ServerAccepts`: a server that accepts files at all accepts one that is offered again
and again; without it a run need not end. Triggers, signals,
`stop()`, faults and power losses are never owed; a `stop()` that has begun goes on
(`StopUpload \/ StopSocket`).

In `RtspPreview` the event loop serves its timers (`Deferred`), the main loop turns, the
clock runs and a shutdown that has begun goes on; in `PhotoJobs` the worker, the accept and
the heartbeat thread and a shutdown go on. Nobody is obliged to connect, request, submit,
close or stop. `MediaFifo` and `Recording` state no liveness.

### 3.3 What does not hold, and is not run

These properties are stated in the modules, are what the documents say of the program, and
fail for the code; a run can be made from the constants given.

| Property | Where | What happens |
|---|---|---|
| `UploaderAlive` | `WmRuntime`, constants of `WmRuntime.cfg` | `SlotOutputPort::stopped_` is never reset and the port is shared by all uploaders of a run: the second one's thread exits at its first park and nothing uploads until the upload timeout. `upload_task.h:11` says the thread never ends by itself |
| `GiveUpRescued` | `WmRuntime`, `ConnectOutcomes = {FALSE}` | without a connection the worker parks like an idle one, `poll` calls it `Done`, the run ends in the idle grace, and `persistStrandedTmpDir` moves nothing. `doc/knowledge/specs/wm-upload-sd-fallback.md:30` expects the upload timeout |
| `PowersOff` | `WmRuntime`, constants of `WmRuntime.cfg` | a signal or an upload timeout may stop the uploader between two files (`upload_stop`). And `EndsUnlessCaught` itself fails with `UploadOutcomes = {"pending"}`: a pass that tried anything refreshes the activity clock (`upload_task.cpp:121`), so a server that never accepts keeps the device awake; so does a broken connection, since `connected_` is never cleared |
| `EmptyBeforeIdleShutdown` | `TaskScheduler`, constants of `TaskScheduler.cfg` | `onExternalCaptureTrigger` clears the idle clock only when the task was found Running: a triggered capture that is over before `TaskSlot::start` looks occupies slot 1 until the next tick, which may remove it and shut down at once. `doc/knowledge/specs/wm-app-spec.md:126` wants the slots empty for the whole grace |
| `RemovedMeansAccepted` | `UploadDesc`, `MayStop = TRUE` | after `requestStop` a file is skipped silently and nothing sets `allFileUploaded` to false: the unit is removed with its media unsent |
| `OneClientPlays` | `RtspPreview`, constants of `RtspPreview.cfg` | a TEARDOWN of session id 0 passes (`rtsp.c:1214-1226`) and releases the active preview (`rtsp.c:711-720`) while its stream plays on; another client may then play. `doc/knowledge/specs/rtsp-delayed-startup.md:425` says that several clients are not supported and get an error |
| `FailedIsSilent` | `Recording`, constants of `Recording.cfg` | `VideoRecorder::record` reports a failed start through the callback before it returns false (`VideoRecorder.cpp:328`, `:334`, `:369`), and `CameraRecorder.cpp:236` ignores the flag: `RecordTask` counts and describes a file that was never made. `CameraRecorder.h:147` says that `onComplete` is not called then |
| `ResumeFindsMedia` | `WorkDirs`, constants of `WorkDirs.cfg` | a description rescued to the SD names `/tmp/media/<ts>`; no later boot can open its photos |

Of user mode, `PhotoJobs` lets a `Submit` between `StopJobs` and `JoinWorker` start a worker
that nobody asks to stop: `PhotoJobManager::stop` then never returns. No property claims
that it does.

## 4. Proofs

`TaskSchedulerProofs` proves, for every `IdleGrace`, `UploadTimeout`, `MaxCaptures` and
sets of start outcomes allowed by `SchedulerAssumption`:

* `SlotInvariant`: `Spec => []SlotInv`. `SlotInv` is the inductive strengthening: beside
  the types it ties the slot's copy to the task (an empty slot holds no task, a slot
  that is live holds a task that is live or already over) and the locks and the progress
  of `stopAll` to the shutdown reason. `TypeOK` alone is not inductive: `TaskAfterTick`
  keeps its type only because a slot that is polled holds a task.
* `TypesHold` (`TypeOK`), `StoppedQuiet` (`StoppedIsQuiet`) and `FinalShutdown`
  (`ShutdownIsFinal`) from it. `StoppedIsQuiet` needs the whole chain of `stopAll`: once
  a slot has been joined its task is over, and since both slots are locked nothing can
  start there again.
* `GraceHonoured` (`IdleGraceHonoured`) from `GraceInvariant`, whatever a start finds of its
  task: `GraceInv` says that while the idle clock runs it shows no more than the time for
  which no slot has held a task at work.
* `SlotsHandOver`: the three hand-over properties (`CaptureHandedOver`,
  `UploadHeldWhileCapturing`, `UploadFollowsCapture`; a run checks the first), from
  `HandInvariant`, under the assumption `RunningUploads`, that an uploader is Running when its
  `start()` returns: `UploadTask::start` sets that state and nobody else but the scheduler
  changes it. Captures may be found in any state.

`WmRuntimeProofs` proves, for every grace, timeout and number of captures and descriptions
(`RuntimeAssumption`: naturals), whatever the connection and the server do:

* `CoreTheoremsHold` carries the theorems of `TaskSchedulerProofs` over to the program. It
  rests on the lemma `ProgramIsCore`, one part per kind of step: a step of the program is one
  the scheduler or its tasks can take, or leaves them alone. `WmRuntime` is written that way;
  what has to be proved is that a thread moves its task only where the task is live, which
  needs `CaptureInStep`, `UploadInStep` and `ReapInStep`. `RunningUploads` is met by the
  instance, whose `UploadStarts` is `{"Running"}`; captures may be over at their start.
* `WakeUpIsOwed` (`WakeUpOwed`). The property speaks of a parked worker; what is inductive
  is `NothingMissed`, which follows a pass from its listing to the park: whatever is
  pending and not on the listing is *owed* a look, by the capture that is still in slot 1,
  then by the push, then by the token. `CaptureInStep` and `UploadInStep` tie the threads
  to what the slots say of them.
* `DoneIsDrained` (`DoneMeansDrained`) and `TypesHold` from the same invariant.

`UploadDescProofs` proves, for any number of media and faults:

* `TypesHold` (`TypeOK`) and `TagsTellTheFiles` (`TagsTellFiles`) while power stays
  (`~MayCrash`: a crash between the deletion of a file and the rewrite leaves its tag 0). The
  strengthening follows the tags through the copy the worker holds (`root`) from the scan
  to the rewrite.
* Where answers come in time or not at all (`AckTimely`, the condition `upload_unit_late_ack`
  shows to be needed): `RemovedIsAccepted` without `stop()`, `DeletedIsAccepted` also with it in
  a directory that is not exclusive, `RemovalIsWhole` for a worker nobody has asked to stop.
  The invariant says that the one answer that can be under way is for the file in hand
  (`AnswersInStep`), and that nobody is taken for uploaded, in a tag, a flag or a list, whom
  the server has not accepted (`AckedIsAccepted`). That `stop()` has to be excluded is one
  of the things that do not hold of the code (3.3).
* `UploadKeepsCustody` (`KeepsCustody`), the refinement of `Custody` step by step, and from it
  and the invariant `NoMediumIsLost`, under the same two conditions.

The conditions are the ones the runs are configured with; the lemmas are proved once, for
all settings of the flags, with each part of the invariant under its own condition.

`WorkDirsProofs` proves, for any captures, photos and time stamps and any number of boots:

* `TypesHold` (`TypeOK`) and `WholePhotosOnly` (`AcceptedWhole`). The type of the copy's target
  needs that `NextFree` finds a name, and that needs a count: there are no more directories on
  the SD than captures made, one less while one is still to be rescued (`RoomLeft`), and more
  names than captures (`NextFreeIs`, by the pigeonhole).
* `RescueLosesNothing` (`RescueKeeps`). `MoveInStep` says for each photo where it is: to be
  copied, at hand, or whole in the copy. When the source goes, all is in the copy; when the
  copy goes, or is cut short, all is still in the source.
* `RemovedIsUp` (`RemovedUp`), which holds where no two captures share a stamp. Then stamps tell
  directories apart (`StampsTell`), and every whole description lists what has not gone up of
  the photos next to it, under the path they have or had on tmpfs (`DescsList`): a photo found
  under that path is the one meant (`FoundAtHome`).

`MediaFifoProofs` proves, for every capacity and every finite stream of frames:

* `TypesHold` (`TypeOK`), `BuffersAreOwnedOnce` (`OwnersDiffer`) and `RingImplementsQueue`
  (`RingIsQueue`): each step of the ring is a step of `FrameQueue`. The hard step is
  `DropFirstNonKey`, which shifts slots in the middle across the wrap.
* `KeyFramesGetIn` (`KeyFrameEnters`): the room made for a key frame is still there when it is
  stored, since only the producer fills the ring (`RoomMade`).

`PhotoJobsProofs` proves, for any number of jobs, connections, beats and jobs kept:

* `TypesHold` (`TypeOK`) and `NoConnectionForgotten` (`NoneForgotten`), for `TcpEvents` with
  whatever `PhotoJobs` publishes.
* `JobsAreToldOnceAndTruly` (`ToldOnceAndTruly`). Jobs are worked on in the order of their
  numbers (`JobsInOrder`), and what has been told is of jobs before the one in hand
  (`ToldIsPast`): so the next one told is new, on whichever connection.
* `JobsAreAnswerable` (`Answerable`). `pruneLocked` stops at a job that is active and the last
  one submitted is active, so the suffix that stays contains what `Kept` asks for.

`RtspPreviewProofs` proves, for any clients, sessions, streams, timeout and window:

* `TypesHold` (`TypeOK`) and `OneAtATime` (`StreamingIsActive`), with requests that name any
  session id and 0. The strengthening, `DeferredIsActive`, says that a start is put off only
  for the session that is active, unless its client has given the preview back by id 0: this
  is what the split of PLAY into two events needs.
* `Counted` (`WatchedIsCounted`): running media are counted, whoever started them. From it
  `NotWhileWatched` (`NoShutdownWhileWatched`): a decision needs a count of 0.

`RecordingProofs` proves for every number of recordings `TypesHold`, `EncoderIsSingle`,
`StopsAreHeard`, `OnlyByForce` and `AllReported`. Their common inductive
invariant `IInv` adds four parts to the properties: `recording_` covers the thread's use of
the recorder unless `stop()` has given up (`Covered`); a thread that uses the recorder has it
(`Held`); without a thread there is no recorder, and there is neither where a start is made
(`Gone`); and reports are those of past triggers, each once, the current one missing exactly
while it has not reported (`Accounted`).

Only model-checked: liveness (`EndsUnlessCaught`, `EventuallyRemoved`, `GrantedStarts`,
`AcceptedSettles`, `ClientHears`), which needs ENABLED and is out of the prover's reach, and
the three runs that expect a violation. Nothing is proved by induction over data:
functions of the models are not recursive, and where a least number is wanted (`NextFree`,
`pruneLocked`) the lemma `Least` gets it from the well-foundedness of `<`, which the library
states without an operator parameter.

The assumptions of the proofs are the named ones of the modules, which TLC evaluates in every
run, and the conditions stated in the theorems themselves. `NoneIsApart` of `WorkDirs` says only
that the marker for "nothing" is no stamp and no path.

## 5. Not modelled

`PROJECT.json`, `components`, lists every part with the reason. Of the modelled parts:

* `TaskScheduler`: tracing and counters that only diagnostics read.
* `WmRuntime`: heartbeat mode (a straight line of calls), the PIR's GPIO (only whether a
  trigger came), the details of a capture.
* `RtspPreview`: RTP and RTCP, DESCRIBE and OPTIONS, the priming of the first frame, and
  frames themselves (`MediaFifo`); failures of start-up.
* `MediaFifo`: `pushBlocking`, `flush` and statistics; a `malloc` that fails in `push`, upon which
  the frame is not stored (MediaFIFO.cpp:51-54); the audio session's plain drop; the encoder
  behind the source; `pullData` that reports the end of a file (simulation only).
* `PhotoJobs`, `TcpEvents`: what a photograph is, the text of events, the second a send may
  hold the lock; a second `start` of the event service within one process; the look at
  `worker.joinable()` in `stop()` outside the lock, which races with a `submit` that makes the
  worker anew (`JoinWorker` is one step).
* `Recording`: encoding and muxing, thumbnails as data, HTTP handlers that own a recorder; an
  exception of the completion callback, which CameraRecorder.cpp:263-269 swallows and which
  leaves `recording_` set until the wait of `stop()` runs out.
* `WorkDirs`: descriptions torn by a loss of power while wm writes them (in `UploadDesc`),
  a source on tmpfs that cannot be removed after a whole copy, upon which the code deletes the
  copy (`MoveEnds`), the order of the backlog.
* `UploadDesc`: the wire format and chunking: a send happens or fails, and one that fails half
  way leaves a connection that still works (`SendFails`; StorageServClient.cpp:240-263 would leave
  the stream out of step, after which nothing is accepted). The thread's branch for a socket of
  -1 (`TakeFile`; :82-86): the client is made with a connected socket, and nothing sets it to -1
  while its thread runs. Descriptions of
  another product or without `file_inf`, which are deleted unread, and the torn read of
  the `std::function` that is assigned while another thread may call it.

Most of what is left out entirely is SDK set-up, register access, SQL, key-value files,
protocol text and conversions, and vendored headers and samples: there the control is a
straight line and the models would repeat it.

## 6. Plan

Built so far: `TaskScheduler`, `WmRuntime`, `Custody`, `UploadDesc`, `WorkDirs`,
`RtspPreview`, `Recording`, `MediaFifo` over `FrameQueue`, `TcpEvents` and `PhotoJobs`.

All of them have their theorems. What a proof could still add: that the single steps by which
`WmRuntime` (`EndUpload`) and `WorkDirs` (`UploadOneDesc`) upload a description agree with what
`UploadDesc` does in many.

Candidates for further modules: the daemon's heartbeats and restarts, login time-outs of the
management client, the legacy `UploadWorker`, the reference counts of the shared video
session, the hysteresis of `DayNightSwitch`.
