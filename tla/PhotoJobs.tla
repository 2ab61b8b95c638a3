------------------------------ MODULE PhotoJobs ------------------------------
(***************************************************************************)
(* Photographs taken on request of the HTTP API: the jobs, the one worker  *)
(* thread that carries them out and tells the event client, and the end of *)
(* the HTTP server and of the event service.                               *)
(*                                                                         *)
(* A submit, a pick-up and an outcome are critical sections of one lock.   *)
(* The photograph is taken and the event is sent outside of it.  stop()    *)
(* cancels what is pending under the lock and joins the worker outside,    *)
(* and the HTTP server calls it while its threads still serve requests.    *)
(***************************************************************************)
EXTENDS TcpEvents, Integers, SequencesExt, FiniteSetsExt

CONSTANTS
    MaxJobs,    \* bound on the jobs that are submitted
    Retained    \* kMaxRetainedJobs

ASSUME JobsAreBounded == MaxJobs \in Nat /\ Retained \in Nat \ {0}

Jobs == 1 .. MaxJobs
Outcomes == [job : Jobs, status : {"completed", "failed"}]

ASSUME BeatIsNoOutcome == Beat \notin Outcomes

VARIABLES
    submitted,      \* nextJobSequence; also the last job
    state,          \* per job: its state, remembered when it has been pruned
    pending,        \* pendingJobIds
    order,          \* jobOrder: the jobs that can still be asked for
    stopRequested,  \* stopRequested
    worker,         \* the worker thread; "none" when it is not joinable
    job,            \* the job the worker is at, 0 before the first
    main            \* how far the main thread has got

jobVars == <<submitted, state, pending, order, stopRequested, worker, job>>
vars == <<eventVars, jobVars, main>>

Init ==
    /\ InitEvents
    /\ submitted = 0
    /\ state = [j \in Jobs |-> "none"]
    /\ pending = <<>>
    /\ order = <<>>
    /\ stopRequested = FALSE
    /\ worker = "none"
    /\ job = 0
    /\ main = "starting"

HttpServes == main \in {"starting", "serving", "joining", "joined"}
Active(s) == s \in {"accepted", "processing"}
Settled(s) == s \in {"completed", "failed"}

\* Mutant: the oldest jobs go, whatever has become of them.
PrunedUnlooked(ord, st) ==
    LET Goes(n) == \A i \in 1 .. n : i <= Len(ord) - Retained
    IN  SubSeq(ord, 1 + Max({n \in 0 .. Len(ord) : Goes(n)}), Len(ord))

\* pruneLocked: the oldest jobs go, up to the first that is not settled.
Pruned(ord, st) ==
    LET Goes(n) == \A i \in 1 .. n : i <= Len(ord) - Retained /\ Settled(st[ord[i]])
    IN  SubSeq(ord, 1 + Max({n \in 0 .. Len(ord) : Goes(n)}), Len(ord))

-----------------------------------------------------------------------------
(* The HTTP threads *)

\* ensureWorkerLocked and the rest of submit.  A worker that has ended and has
\* not been joined yet is still joinable.
Submit ==
    /\ HttpServes
    /\ submitted < MaxJobs
    /\ submitted' = submitted + 1
    /\ state' = [state EXCEPT ![submitted'] = "accepted"]
    /\ pending' = Append(pending, submitted')
    /\ order' = Pruned(Append(order, submitted'), state')
    /\ IF worker = "none"
       THEN worker' = "waiting" /\ stopRequested' = FALSE
       ELSE UNCHANGED <<worker, stopRequested>>
    /\ UNCHANGED <<eventVars, job, main>>

-----------------------------------------------------------------------------
(* The worker *)

PickUp ==
    /\ worker = "waiting"
    /\ pending # <<>>
    /\ job' = Head(pending)
    /\ pending' = Tail(pending)
    /\ state' = [state EXCEPT ![job'] = "processing"]
    /\ worker' = "taking"
    /\ UNCHANGED <<eventVars, submitted, order, stopRequested, main>>

\* Mutant: the worker ends when it runs out of jobs.
WorkerEndsIdle ==
    /\ worker = "waiting"
    /\ pending = <<>>
    /\ worker' = "ended"
    /\ UNCHANGED <<eventVars, submitted, state, pending, order, stopRequested, job, main>>

WorkerEnds ==
    /\ worker = "waiting"
    /\ stopRequested /\ pending = <<>>
    /\ worker' = "ended"
    /\ UNCHANGED <<eventVars, submitted, state, pending, order, stopRequested, job, main>>

\* Mutant: a failure is not noted before it is told.
PhotographUnsettled ==
    /\ worker = "taking"
    /\ \E s \in {"completed", "processing"} : state' = [state EXCEPT ![job] = s]
    /\ order' = Pruned(order, state')
    /\ worker' = "telling"
    /\ UNCHANGED <<eventVars, submitted, pending, stopRequested, job, main>>

\* takePhoto has returned, well or not.
Photograph ==
    /\ worker = "taking"
    /\ \E s \in {"completed", "failed"} : state' = [state EXCEPT ![job] = s]
    /\ order' = Pruned(order, state')
    /\ worker' = "telling"
    /\ UNCHANGED <<eventVars, submitted, pending, stopRequested, job, main>>

\* publishFinishedEvent, with the copy taken with the outcome.
Tell ==
    /\ worker = "telling"
    /\ Publish([job |-> job, status |-> state[job]])
    /\ worker' = "waiting"
    /\ UNCHANGED <<running, listening, threadVars, submitted, state, pending, order,
                   stopRequested, job, main>>

Worker == PickUp \/ WorkerEnds \/ Photograph \/ Tell

-----------------------------------------------------------------------------
(* The main thread *)

\* The event service is wanted, not needed.
StartEvents ==
    /\ main = "starting"
    /\ main' = "serving"
    /\ StartService \/ UNCHANGED eventVars
    /\ UNCHANGED jobVars

\* cancelPendingLocked: the jobs nobody will pick up any more.
Cancelled == [j \in Jobs |-> IF Contains(pending, j) THEN "failed" ELSE state[j]]

\* PhotoJobManager::stop up to the join.
StopJobs ==
    /\ main = "serving"
    /\ main' = "joining"
    /\ stopRequested' = TRUE
    /\ state' = Cancelled
    /\ pending' = <<>>
    /\ UNCHANGED <<eventVars, submitted, order, worker, job>>

JoinWorker ==
    /\ main = "joining"
    /\ worker \in {"none", "ended"}
    /\ worker' = "none"
    /\ main' = "joined"
    /\ UNCHANGED <<eventVars, submitted, state, pending, order, stopRequested, job>>

\* mg_stop waits for the threads that serve requests.
StopHttp ==
    /\ main = "joined"
    /\ main' = "quiet"
    /\ UNCHANGED <<eventVars, jobVars>>

\* TcpEventService::stop.
StopEvents ==
    /\ \/ main = "quiet" /\ main' = "marked" /\ StopMark
       \/ main = "marked" /\ main' = "closing" /\ CloseListener
       \/ main = "closing" /\ main' = "off" /\ CloseLast
    /\ UNCHANGED jobVars

Main == JoinWorker \/ StopHttp \/ StopEvents

Next ==
    \/ Submit
    \/ Worker
    \/ StartEvents
    \/ StopJobs
    \/ Main
    \/ /\ \/ Acceptor
          \/ HeartbeatTurn
          \/ Elapse
          \/ \E c \in Conns : Knock(c)
       /\ UNCHANGED <<jobVars, main>>

Spec == Init /\ [][Next]_vars

\* The threads go on.  Nobody has to connect, to submit or to stop.
FairSpec ==
    /\ Spec
    /\ WF_vars(Worker)
    /\ WF_vars(Main)
    /\ WF_vars(Acceptor /\ UNCHANGED <<jobVars, main>>)
    /\ WF_vars(HeartbeatTurn /\ UNCHANGED <<jobVars, main>>)

-----------------------------------------------------------------------------
Told(c) == {received[c][i].what : i \in 1 .. Len(received[c])} \ {Beat}

TypeOK ==
    /\ EventTypeOK
    /\ received \in [Conns -> Seq([seq : Nat, what : {Beat} \cup Outcomes])]
    /\ submitted \in 0 .. MaxJobs
    /\ state \in [Jobs -> {"none", "accepted", "processing", "completed", "failed"}]
    /\ pending \in Seq(Jobs)
    /\ order \in Seq(Jobs)
    /\ stopRequested \in BOOLEAN
    /\ worker \in {"none", "waiting", "taking", "telling", "ended"}
    /\ job \in 0 .. MaxJobs
    /\ main \in {"starting", "serving", "joining", "joined", "quiet", "marked",
                 "closing", "off"}

\* The events of a connection are numbered without a gap, jobs are told of in
\* the order of their submission, no job is told twice, to one client or to
\* two, and what was told stays what a status request answers
\* (PhotoJobManager.cpp workerLoop, which publishes a copy after it has given
\* up the lock).
ToldOnceAndTruly ==
    /\ Numbered
    /\ \A c \in Conns : \A i, k \in 1 .. Len(received[c]) :
           i < k /\ Beat \notin {received[c][i].what, received[c][k].what} =>
               received[c][i].what.job < received[c][k].what.job
    /\ \A c, d \in Conns : \A e \in Told(c) :
           /\ e.status = state[e.job]
           /\ c # d => \A f \in Told(d) : e.job # f.job

\* A job that is not settled can be asked for, so can the last one, and no more
\* than the permitted number is kept except behind one that is not settled and
\* after the pending ones were cancelled (pruneLocked, cancelPendingLocked).
Answerable ==
    /\ \A j \in Jobs : Active(state[j]) \/ (submitted = j) => Contains(order, j)
    /\ Len(order) > Retained => Active(state[order[1]]) \/ main # "serving"

\* A job that was accepted is settled, unless the camera is being shut down.
AcceptedSettles ==
    \A j \in Jobs : Active(state[j]) ~> (Settled(state[j]) \/ main # "serving")
=============================================================================
