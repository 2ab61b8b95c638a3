-------------------------- MODULE UploadDescProofs --------------------------
(***************************************************************************)
(* What the upload of one description promises, whatever the number of its *)
(* media and of faults, and under which conditions on the server's answers *)
(* and on stop().                                                          *)
(***************************************************************************)
EXTENDS UploadDesc, SequenceTheorems, TLAPS

Has(q, f) == \E i \in 1 .. Len(q) : q[i] = f
Queued(f) == Has(queue, f)

(* The upload thread has a file in hand while it is in upload(). *)
ThreadInStep ==
    /\ current = Idle <=> phase \in {"idle", "exited"}
    /\ threadRun <=> stopping = "no"
    /\ ~MayStop => stopping = "no"

(* What is queued when: the description at most until the media are queued, *)
(* and nothing once the worker has seen the queue drained.                  *)
WorkerInStep ==
    /\ worker \in {"scan", "settle", "rewrite", "finish", "exited"} =>
           queue = <<>> /\ current = Idle
    /\ worker \in {"descWait", "descWrite", "bind"} =>
           \A m \in Media : ~Queued(m) /\ current # m
    /\ worker \in {"queue", "settle", "rewrite", "finish"} => callback = "media"
    /\ descFile = "absent" => worker \in {"scan", "exited"}

(* No medium is passed over in a pass that is not stopped. *)
NoneMissed ==
    stopping = "no" => \A m \in Media :
        /\ worker = "queue" /\ m < next =>
               \/ root[m] = 1 \/ ~allUploaded
               \/ m \in uploadedList \/ current = m \/ Queued(m)
        /\ worker = "settle" => root[m] = 1 \/ ~allUploaded \/ m \in uploadedList
        /\ worker \in {"rewrite", "finish"} => root[m] = 1 \/ ~allUploaded

(* The tags the worker has in hand, or has written, tell the files. *)
Tagged(tags) == \A m \in Media : tags[m] = 0 <=> m \in present

TagsInStep ==
    /\ worker = "scan" /\ descFile = "whole" => Tagged(tag)
    /\ worker = "descWait" => Tagged(tag)
    /\ worker \in {"descWait", "descWrite", "bind", "queue", "settle", "rewrite", "finish"} =>
           Tagged(root)
    /\ worker = "finish" => Tagged(tag)

(* The one answer that can be under way is for the file in hand. *)
AnswersInStep ==
    /\ phase = "sent" =>
           /\ success => current \in accepted
           /\ stopping \in {"no", "queue"} /\ received => inbox = <<>> /\ replies = <<>>
           /\ \/ inbox = <<>> /\ replies = <<>>
              \/ inbox = <<current>> /\ replies = <<>>
              \/ inbox = <<>> /\ Len(replies) = 1 /\ (replies[1] => current \in accepted)
    /\ phase = "open" \/ (phase # "sent" /\ stopping \in {"no", "queue"}) =>
           inbox = <<>> /\ replies = <<>>
    /\ phase = "over" /\ outcome => current \in accepted

(* What the device takes as uploaded has been accepted. *)
AckedIsAccepted ==
    /\ \A f \in Files : tag[f] = 1 \/ root[f] = 1 => f \in accepted
    /\ descUploaded => Desc \in accepted
    /\ uploadedList \subseteq accepted

(* What has left the device has been accepted. *)
GoneIsAccepted ==
    /\ ~Exclusive \/ ~MayStop => DeletedMeansAccepted
    /\ ~MayStop => RemovedMeansAccepted

BaseInv == TypeOK /\ ThreadInStep /\ WorkerInStep /\ NoneMissed
AckInv == AnswersInStep /\ AckedIsAccepted /\ GoneIsAccepted

IInv == BaseInv /\ (~MayCrash => TagsInStep) /\ (AckTimely => AckInv)

-----------------------------------------------------------------------------
(* Queues *)

\* What a queue contains when it is empty,
LEMMA EmptyHas == \A f : ~Has(<<>>, f)
BY DEF Has

\* ... when a file is added,
LEMMA AppendHas ==
    ASSUME NEW S, NEW q \in Seq(S), NEW e \in S
    PROVE  /\ Append(q, e) \in Seq(S)
           /\ \A f : Has(Append(q, e), f) <=> Has(q, f) \/ f = e
<1>1. /\ Append(q, e) \in Seq(S)
      /\ Len(Append(q, e)) = Len(q) + 1 /\ Len(q) \in Nat
      /\ \A i \in 1 .. Len(q) : Append(q, e)[i] = q[i]
      /\ Append(q, e)[Len(q) + 1] = e
  BY AppendProperties, LenProperties
<1>2. \A i \in 1 .. Len(Append(q, e)) : i \in 1 .. Len(q) \/ i = Len(q) + 1
  BY <1>1
<1>3. \A i \in 1 .. Len(q) : i \in 1 .. Len(Append(q, e))
  BY <1>1
<1>4. Len(q) + 1 \in 1 .. Len(Append(q, e))
  BY <1>1
<1> QED BY <1>1, <1>2, <1>3, <1>4 DEF Has

\* ... and when the first one is taken.
LEMMA TailHas ==
    ASSUME NEW S, NEW q \in Seq(S), q # <<>>
    PROVE  /\ Head(q) \in S /\ Tail(q) \in Seq(S)
           /\ Len(Tail(q)) = Len(q) - 1 /\ Len(q) \in Nat \ {0}
           /\ \A f : Has(q, f) <=> f = Head(q) \/ Has(Tail(q), f)
<1>1. /\ Head(q) \in S /\ Tail(q) \in Seq(S) /\ Head(q) = q[1]
      /\ Len(Tail(q)) = Len(q) - 1 /\ Len(q) \in Nat \ {0}
      /\ \A i \in 1 .. Len(Tail(q)) : Tail(q)[i] = q[i + 1]
  BY HeadTailProperties, EmptySeq
<1>2. \A i \in 1 .. Len(q) :
          i = 1 \/ (i - 1 \in 1 .. Len(Tail(q)) /\ Tail(q)[i - 1] = q[i])
  BY <1>1
<1>3. \A i \in 1 .. Len(Tail(q)) : i + 1 \in 1 .. Len(q)
  BY <1>1
<1>4. 1 \in 1 .. Len(q)
  BY <1>1
<1> QED BY <1>1, <1>2, <1>3, <1>4 DEF Has

-----------------------------------------------------------------------------
(* The worker, the upload thread and the queue between them *)

\* The first part of the invariant holds at the start.
LEMMA InitBase == Init => BaseInv
<1> SUFFICES ASSUME Init PROVE BaseInv
  OBVIOUS
<1> USE UploadAssumption DEF Init, Files, Media, Desc, Idle
<1>1. TypeOK
  <2>1. <<>> \in Seq(Files) /\ <<>> \in Seq(BOOLEAN)
    BY EmptySeq
  <2>2. 1 \in 1 .. NMedia + 1 /\ 0 \in 0 .. MaxFaults
    OBVIOUS
  <2> QED BY <2>1, <2>2 DEF TypeOK, FlagsOK
<1>2. ThreadInStep /\ WorkerInStep /\ NoneMissed
  BY DEF ThreadInStep, WorkerInStep, NoneMissed
<1> QED BY <1>1, <1>2 DEF BaseInv

\* The flags stay Boolean.
LEMMA NextFlags == TypeOK /\ [Next]_vars => FlagsOK'
<1> SUFFICES ASSUME TypeOK, [Next]_vars PROVE FlagsOK'
  OBVIOUS
<1>0. FlagsOK
  BY DEF TypeOK
<1> USE <1>0 DEF FlagsOK, diskVars, workVars, clientVars, ackVars, serverVars
<1>1. CASE UNCHANGED <<descUploaded, allUploaded, threadRun, outcome, ackVars>>
  BY <1>1
<1>2. CASE OpenFails \/ SendFails \/ Answered \/ AckTimeout \/ Send \/ Callback
  BY <1>2 DEF OpenFails, SendFails, Answered, AckTimeout, Send, Callback, UploadReturns
<1>3. CASE HandleUploadCommand
  <2>1. Head(replies) \in BOOLEAN
    BY <1>3, TailHas DEF TypeOK, HandleUploadCommand
  <2> QED BY <1>3, <2>1 DEF HandleUploadCommand
<1>4. CASE BeginPass \/ BindMedia \/ StopQueue \/ StopUpload \/ StopSocket \/ Crash
  BY <1>4 DEF BeginPass, BindMedia, StopQueue, StopUpload, StopSocket, Crash
<1>5. CASE TakeFile \/ ThreadExits \/ Server \/ (\E ok \in BOOLEAN : AnswerLost(ok))
  BY <1>1, <1>3, <1>5 DEF TakeFile, ThreadExits, Server, ServerAnswers, AnswerLost
<1>6. CASE DescAcked \/ WriteAcked \/ DescGivesUp \/ QueueMedia \/ Drained
           \/ (\E m \in Media : DeleteMedia(m)) \/ MediaSettled \/ WriteSettled \/ Finish
           \/ WorkerExits \/ UNCHANGED vars
  BY <1>1, <1>6 DEF DescAcked, OpenDesc, WriteAcked, WriteDesc, DescGivesUp, QueueMedia,
     Drained, DeleteMedia, MediaSettled, WriteSettled, Finish, WorkerExits, vars
<1> QED BY <1>1, <1>2, <1>3, <1>4, <1>5, <1>6 DEF Next, UploadThread, Worker, Faults

\* The sequences under way keep their types.
LEMMA NextTypes == TypeOK /\ ThreadInStep /\ [Next]_vars => TypeOK'
<1> SUFFICES ASSUME TypeOK, ThreadInStep, [Next]_vars PROVE TypeOK'
  OBVIOUS
<1>0. FlagsOK'
  BY NextFlags
<1> USE <1>0, UploadAssumption
    DEF TypeOK, diskVars, workVars, clientVars, ackVars, serverVars, Fault
<1>1. CASE TakeFile
  BY <1>1, TailHas DEF TakeFile
<1>2. CASE ThreadExits
  BY <1>2 DEF ThreadExits
<1>3. CASE OpenFails
  BY <1>3 DEF OpenFails, UploadReturns
<1>4. CASE SendFails
  BY <1>4 DEF SendFails, UploadReturns
<1>5. CASE Send
  <2>1. current \in Files
    BY <1>5 DEF Send, OnDisk, Files, Media, Desc, Idle
  <2> QED BY <1>5, <2>1, AppendHas DEF Send
<1>6. CASE Answered
  BY <1>6 DEF Answered, UploadReturns
<1>7. CASE AckTimeout
  BY <1>7 DEF AckTimeout, UploadReturns
<1>8. CASE Callback
  <2>1. current \in Files
    BY <1>8 DEF Callback, ThreadInStep
  <2> QED BY <1>8, <2>1 DEF Callback
<1>9. CASE \E ok \in BOOLEAN : ServerAnswers(ok)
  BY <1>9, TailHas, AppendHas DEF ServerAnswers
<1>10. CASE \E ok \in BOOLEAN : AnswerLost(ok)
  BY <1>10, TailHas DEF AnswerLost
<1>11. CASE HandleUploadCommand
  BY <1>11, TailHas DEF HandleUploadCommand
<1>12. CASE BeginPass
  <2>1. Enqueued(Desc) \in Seq(Files)
    BY AppendHas DEF Enqueued, Files
  <2>2. queue' \in Seq(Files) /\ callback' \in {"none", "desc", "media"}
    BY <1>12, <2>1 DEF BeginPass
  <2>3. worker' \in {"descWait", "bind"}
    BY <1>12 DEF BeginPass
  <2> QED BY <1>12, <2>2, <2>3 DEF BeginPass
<1>13. CASE DescAcked
  BY <1>13 DEF DescAcked, OpenDesc
<1>14. CASE WriteAcked
  BY <1>14 DEF WriteAcked, WriteDesc
<1>15. CASE DescGivesUp
  BY <1>15 DEF DescGivesUp
<1>16. CASE BindMedia
  BY <1>16 DEF BindMedia
<1>17. CASE QueueMedia
  <2>1. next \in Files /\ next + 1 \in 1 .. NMedia + 1
    BY <1>17 DEF QueueMedia, Files, Media
  <2> QED BY <1>17, <2>1, AppendHas DEF QueueMedia, Enqueued
<1>18. CASE Drained
  BY <1>18 DEF Drained
<1>19. CASE \E m \in Media : DeleteMedia(m)
  BY <1>19 DEF DeleteMedia
<1>20. CASE MediaSettled
  BY <1>20 DEF MediaSettled, OpenDesc
<1>21. CASE WriteSettled
  BY <1>21 DEF WriteSettled, WriteDesc
<1>22. CASE Finish
  BY <1>22 DEF Finish
<1>23. CASE WorkerExits
  BY <1>23 DEF WorkerExits
<1>24. CASE StopQueue
  BY <1>24 DEF StopQueue
<1>25. CASE StopUpload \/ StopSocket
  BY <1>25 DEF StopUpload, StopSocket
<1>26. CASE Crash
  <2>1. <<>> \in Seq(Files) /\ <<>> \in Seq(BOOLEAN)
    BY EmptySeq
  <2> QED BY <1>26, <2>1 DEF Crash
<1>27. CASE UNCHANGED vars
  BY <1>27 DEF vars
<1> QED BY <1>1, <1>2, <1>3, <1>4, <1>5, <1>6, <1>7, <1>8, <1>9, <1>10, <1>11, <1>12, <1>13,
           <1>14, <1>15, <1>16, <1>17, <1>18, <1>19, <1>20, <1>21, <1>22, <1>23, <1>24, <1>25,
           <1>26, <1>27 DEF Next, UploadThread, Server, Worker, Faults

\* The two threads, and what is queued in which state of the worker.
LEMMA NextInStep ==
    TypeOK /\ ThreadInStep /\ WorkerInStep /\ [Next]_vars => ThreadInStep' /\ WorkerInStep'
<1> SUFFICES ASSUME TypeOK, ThreadInStep, WorkerInStep, [Next]_vars
             PROVE  ThreadInStep' /\ WorkerInStep'
  OBVIOUS
<1>0. /\ queue \in Seq(Files) /\ current \in Files \cup {Idle} /\ next \in 1 .. NMedia + 1
      /\ \A m \in Media : m \in Files /\ m # Desc
      /\ Idle \notin Files
  BY UploadAssumption DEF TypeOK, Files, Media, Desc, Idle
<1>a. /\ queue # <<>> => Head(queue) \in Files
                         /\ \A f : Queued(f) <=> f = Head(queue) \/ Has(Tail(queue), f)
      /\ \A f \in Files : \A g : Has(Append(queue, f), g) <=> Queued(g) \/ g = f
      /\ \A f : ~Has(<<>>, f)
  BY <1>0, TailHas, AppendHas, EmptyHas DEF Queued
<1> USE <1>0 DEF ThreadInStep, WorkerInStep, Queued, diskVars, workVars, clientVars
<1>1. CASE TakeFile
  BY <1>1, <1>a DEF TakeFile
<1>2. CASE ThreadExits
  BY <1>2 DEF ThreadExits
<1>3. CASE OpenFails \/ SendFails \/ Answered \/ AckTimeout
  BY <1>3 DEF OpenFails, SendFails, Answered, AckTimeout, UploadReturns
<1>4. CASE Send
  BY <1>4 DEF Send
<1>5. CASE Callback
  BY <1>5 DEF Callback
<1>6. CASE HandleUploadCommand \/ \E ok \in BOOLEAN : ServerAnswers(ok) \/ AnswerLost(ok)
  BY <1>6 DEF ServerAnswers, AnswerLost, HandleUploadCommand
<1>7. CASE BeginPass
  <2>1. Desc \in Files
    BY DEF Files
  <2> QED BY <1>7, <1>a, <2>1 DEF BeginPass, Enqueued
<1>8. CASE DescAcked \/ WriteAcked \/ DescGivesUp \/ BindMedia
  BY <1>8 DEF DescAcked, OpenDesc, WriteAcked, WriteDesc, DescGivesUp, BindMedia
<1>9. CASE QueueMedia
  BY <1>9 DEF QueueMedia
<1>10. CASE Drained \/ \E m \in Media : DeleteMedia(m)
  BY <1>10 DEF Drained, DeleteMedia
<1>11. CASE MediaSettled \/ WriteSettled \/ Finish \/ WorkerExits
  BY <1>11 DEF MediaSettled, OpenDesc, WriteSettled, WriteDesc, Finish, WorkerExits
<1>12. CASE StopQueue \/ StopUpload \/ StopSocket \/ UNCHANGED vars
  BY <1>12 DEF StopQueue, StopUpload, StopSocket, vars
<1>13. CASE Crash
  BY <1>13, <1>a DEF Crash
<1> QED BY <1>1, <1>2, <1>3, <1>4, <1>5, <1>6, <1>7, <1>8, <1>9, <1>10, <1>11, <1>12, <1>13
        DEF Next, UploadThread, Server, Worker, Faults

\* Each medium that a pass offers is uploaded, or fails, before it settles.
LEMMA NextMisses == BaseInv /\ [Next]_vars => NoneMissed'
<1> SUFFICES ASSUME BaseInv, [Next]_vars PROVE NoneMissed'
  OBVIOUS
<1>0. /\ TypeOK /\ ThreadInStep /\ WorkerInStep /\ NoneMissed
      /\ queue \in Seq(Files) /\ next \in 1 .. NMedia + 1 /\ NMedia \in Nat
      /\ \A m \in Media : m \in 1 .. NMedia /\ m \in Files /\ m # Idle
      /\ root \in [Files -> {0, 1}]
  BY UploadAssumption DEF BaseInv, TypeOK, Files, Media, Desc, Idle
<1>a. /\ queue # <<>> => \A f : Queued(f) <=> f = Head(queue) \/ Has(Tail(queue), f)
      /\ \A f \in Files : \A g : Has(Append(queue, f), g) <=> Queued(g) \/ g = f
      /\ \A f : ~Has(<<>>, f)
  BY <1>0, TailHas, AppendHas, EmptyHas DEF Queued
<1> SUFFICES ASSUME NEW m \in Media, stopping' = "no"
             PROVE  /\ worker' = "queue" /\ m < next' =>
                           \/ root'[m] = 1 \/ ~allUploaded'
                           \/ m \in uploadedList' \/ current' = m \/ Queued(m)'
                    /\ worker' = "settle" => root'[m] = 1 \/ ~allUploaded' \/ m \in uploadedList'
                    /\ worker' \in {"rewrite", "finish"} => root'[m] = 1 \/ ~allUploaded'
  BY DEF NoneMissed
<1> USE DEF Queued, diskVars, workVars, clientVars
<1>1. CASE TakeFile
  BY <1>0, <1>1, <1>a DEF TakeFile, NoneMissed, ThreadInStep
<1>2. CASE ThreadExits
  BY <1>0, <1>2 DEF ThreadExits, NoneMissed
<1>3. CASE OpenFails \/ SendFails \/ Answered \/ AckTimeout
  BY <1>0, <1>3 DEF OpenFails, SendFails, Answered, AckTimeout, UploadReturns, NoneMissed
<1>4. CASE Send
  BY <1>0, <1>4 DEF Send, NoneMissed
<1>5. CASE Callback
  BY <1>0, <1>5 DEF Callback, NoneMissed, WorkerInStep, ThreadInStep
<1>6. CASE HandleUploadCommand \/ \E ok \in BOOLEAN : ServerAnswers(ok) \/ AnswerLost(ok)
  BY <1>0, <1>6 DEF ServerAnswers, AnswerLost, HandleUploadCommand, NoneMissed
<1>7. CASE BeginPass \/ DescAcked \/ WriteAcked \/ DescGivesUp \/ BindMedia
  <2>1. worker' \in {"descWait", "bind", "descWrite"} \/ (worker' = "queue" /\ next' = 1)
    BY <1>7 DEF BeginPass, DescAcked, OpenDesc, WriteAcked, WriteDesc, DescGivesUp, BindMedia
  <2> QED BY <1>0, <2>1
<1>9. CASE QueueMedia
  <2>1. next \in Files /\ worker' = "queue" /\ next' = next + 1 /\ stopping = "no" /\ threadRun
    BY <1>0, <1>9 DEF QueueMedia, ThreadInStep, Files, Media
  <2>2. CASE m < next
    <3>1. Queued(m) => Queued(m)'
      BY <1>0, <1>9, <1>a, <2>1 DEF QueueMedia, Enqueued
    <3> QED BY <1>0, <1>9, <2>1, <2>2, <3>1 DEF QueueMedia, NoneMissed
  <2>3. CASE m = next
    BY <1>0, <1>9, <1>a, <2>1, <2>3 DEF QueueMedia, Enqueued
  <2>4. m < next' => m < next \/ m = next
    BY <1>0, <2>1
  <2> QED BY <2>1, <2>2, <2>3, <2>4
<1>10. CASE Drained
  <2>1. m < next
    BY <1>0, <1>10 DEF Drained
  <2> QED BY <1>0, <1>10, <1>a, <2>1 DEF Drained, NoneMissed
<1>11. CASE \E n \in Media : DeleteMedia(n)
  BY <1>0, <1>11 DEF DeleteMedia, NoneMissed
<1>12. CASE MediaSettled \/ WriteSettled
  BY <1>0, <1>12 DEF MediaSettled, OpenDesc, WriteSettled, WriteDesc, NoneMissed
<1>13. CASE Finish \/ WorkerExits \/ Crash
  BY <1>13 DEF Finish, WorkerExits, Crash
<1>14. CASE StopQueue \/ StopUpload \/ StopSocket \/ UNCHANGED vars
  BY <1>0, <1>14 DEF StopQueue, StopUpload, StopSocket, vars, NoneMissed
<1> QED BY <1>1, <1>2, <1>3, <1>4, <1>5, <1>6, <1>7, <1>9, <1>10, <1>11, <1>12, <1>13, <1>14
        DEF Next, UploadThread, Server, Worker, Faults

\* Every step keeps the first part.
LEMMA NextBase == BaseInv /\ [Next]_vars => BaseInv'
BY NextTypes, NextInStep, NextMisses DEF BaseInv

-----------------------------------------------------------------------------
(* The tags *)

\* Where power is not lost, the tags the worker has in hand tell the files.
LEMMA NextTags ==
    ASSUME ~MayCrash, BaseInv, TagsInStep, [Next]_vars
    PROVE  TagsInStep'
<1>0. /\ TypeOK /\ WorkerInStep
      /\ root \in [Files -> {0, 1}] /\ tag \in [Files -> {0, 1}]
      /\ \A m \in Media : m \in Files /\ m # Desc
      /\ Desc \in Files
  BY UploadAssumption DEF BaseInv, TypeOK, Files, Media, Desc
<1> USE <1>0 DEF TagsInStep, Tagged, diskVars, workVars
<1>1. CASE UNCHANGED <<descFile, tag, present, worker, root>>
  BY <1>1
<1>2. CASE BeginPass
  BY <1>2 DEF BeginPass
<1>3. CASE DescAcked
  BY <1>3 DEF DescAcked, OpenDesc
<1>4. CASE WriteAcked \/ WriteSettled
  BY <1>4 DEF WriteAcked, WriteSettled, WriteDesc
<1>5. CASE DescGivesUp \/ BindMedia
  BY <1>5 DEF DescGivesUp, BindMedia
<1>6. CASE Drained \/ WorkerExits
  BY <1>6 DEF Drained, WorkerExits
<1>7. ASSUME NEW n \in Media, DeleteMedia(n)
      PROVE  TagsInStep'
  BY <1>7 DEF DeleteMedia
<1>8. CASE MediaSettled
  BY <1>8 DEF MediaSettled, OpenDesc
<1>9. CASE Finish
  BY <1>9 DEF Finish
<1>10. CASE TakeFile \/ ThreadExits \/ OpenFails \/ SendFails \/ Send \/ Answered
            \/ AckTimeout \/ Callback
  BY <1>1, <1>10 DEF TakeFile, ThreadExits, OpenFails, SendFails, Send, Answered, AckTimeout,
     Callback, UploadReturns
<1>11. CASE Server \/ (\E ok \in BOOLEAN : AnswerLost(ok)) \/ QueueMedia \/ StopQueue
            \/ StopUpload \/ StopSocket \/ UNCHANGED vars
  BY <1>1, <1>11 DEF Server, ServerAnswers, HandleUploadCommand, AnswerLost, QueueMedia,
     StopQueue, StopUpload, StopSocket, vars
<1>12. ~Crash
  BY DEF Crash
<1> QED BY <1>2, <1>3, <1>4, <1>5, <1>6, <1>7, <1>8, <1>9, <1>10, <1>11, <1>12
        DEF Next, UploadThread, Worker, Faults

-----------------------------------------------------------------------------
(* The answers *)

\* The server takes in one file at a time.
LEMMA AcceptsOne ==
    ASSUME BaseInv, [Next]_vars
    PROVE  accepted' = accepted \/ \E f \in Files : accepted' = accepted \cup {f}
<1> USE DEF serverVars
<1>1. CASE UploadThread \/ SendFails
  BY <1>1 DEF UploadThread, TakeFile, ThreadExits, OpenFails, Send, Answered, AckTimeout,
     Callback, SendFails, UploadReturns
<1>2. ASSUME NEW ok \in BOOLEAN, ServerAnswers(ok) \/ AnswerLost(ok)
      PROVE  accepted' = accepted \/ \E f \in Files : accepted' = accepted \cup {f}
  <2>1. inbox # <<>> /\ accepted' \in {accepted, accepted \cup {Head(inbox)}}
    BY <1>2 DEF ServerAnswers, AnswerLost
  <2>2. Head(inbox) \in Files
    BY <2>1, HeadTailProperties DEF BaseInv, TypeOK
  <2> QED BY <2>1, <2>2
<1>3. CASE Worker \/ HandleUploadCommand
  BY <1>3 DEF Worker, BeginPass, DescAcked, OpenDesc, WriteAcked, WriteDesc, DescGivesUp,
     BindMedia, QueueMedia, Drained, DeleteMedia, MediaSettled, WriteSettled, Finish,
     WorkerExits, HandleUploadCommand
<1>4. CASE StopQueue \/ StopUpload \/ StopSocket \/ Crash \/ UNCHANGED vars
  BY <1>4 DEF StopQueue, StopUpload, StopSocket, Crash, vars
<1> QED BY <1>1, <1>2, <1>3, <1>4 DEF Next, Server, Faults

\* Nothing is taken back.
LEMMA AcceptedGrows == BaseInv /\ [Next]_vars => accepted \subseteq accepted'
BY AcceptsOne

\* On a connection that answers in time or not at all, an answer is for the
\* file in hand.
LEMMA NextAnswers ==
    ASSUME AckTimely, BaseInv, AnswersInStep, [Next]_vars
    PROVE  AnswersInStep'
<1>0. /\ TypeOK /\ ThreadInStep
      /\ inbox \in Seq(Files) /\ replies \in Seq(BOOLEAN)
      /\ accepted \subseteq accepted'
  BY AcceptedGrows DEF BaseInv, TypeOK
<1> USE DEF AnswersInStep, diskVars, workVars, clientVars, ackVars, serverVars
<1>1. CASE UNCHANGED <<phase, success, received, stopping, inbox, replies, current, outcome>>
  BY <1>0, <1>1
<1>2. CASE TakeFile \/ ThreadExits
  BY <1>0, <1>2 DEF TakeFile, ThreadExits, ThreadInStep
<1>3. CASE OpenFails \/ SendFails
  BY <1>0, <1>3 DEF OpenFails, SendFails, UploadReturns
<1>4. CASE Send
  BY <1>0, <1>4 DEF Send
<1>5. CASE Answered
  BY <1>0, <1>5 DEF Answered, UploadReturns
<1>6. CASE AckTimeout
  BY <1>0, <1>6 DEF AckTimeout, UploadReturns
<1>7. CASE Callback
  BY <1>0, <1>7 DEF Callback
<1>8. ASSUME NEW ok \in BOOLEAN, ServerAnswers(ok) \/ AnswerLost(ok)
      PROVE  AnswersInStep'
  <2>1. inbox # <<>> /\ inbox' = Tail(inbox) /\ (ok => accepted' = accepted \cup {Head(inbox)})
        /\ UNCHANGED <<phase, success, received, stopping, current, outcome>>
        /\ replies' \in {Append(replies, ok), replies}
    BY <1>8 DEF ServerAnswers, AnswerLost
  <2>2. CASE phase = "sent" /\ inbox = <<current>> /\ replies = <<>>
    <3>1. inbox' = <<>> /\ (ok => current \in accepted')
      BY <2>1, <2>2
    <3>2. replies' = <<>> \/ (Len(replies') = 1 /\ replies'[1] = ok)
      BY <2>1, <2>2
    <3> QED BY <1>0, <2>1, <2>2, <3>1, <3>2
  <2>3. CASE phase # "sent"
    BY <1>0, <2>1, <2>3
  <2> QED BY <2>1, <2>2, <2>3
<1>9. CASE HandleUploadCommand
  <2>1. /\ replies # <<>> /\ received' = TRUE /\ success' = Head(replies)
        /\ replies' = Tail(replies)
        /\ UNCHANGED <<phase, stopping, current, outcome, inbox, accepted>>
    BY <1>9 DEF HandleUploadCommand
  <2>2. CASE phase = "sent"
    <3>1. inbox = <<>> /\ Len(replies) = 1 /\ (replies[1] => current \in accepted)
      BY <2>1, <2>2
    <3>2. replies' = <<>> /\ success' = replies[1]
      <4>1. Len(replies') = 0 /\ replies' \in Seq(BOOLEAN)
        BY <1>0, <2>1, <3>1, HeadTailProperties
      <4> QED BY <4>1, <2>1, EmptySeq
    <3> QED BY <2>1, <2>2, <3>1, <3>2
  <2>3. CASE phase # "sent"
    BY <2>1, <2>3
  <2> QED BY <2>2, <2>3
<1>10. CASE StopQueue \/ StopUpload \/ StopSocket
  BY <1>0, <1>10 DEF StopQueue, StopUpload, StopSocket
<1>11. CASE Crash
  BY <1>11 DEF Crash
<1>12. CASE Worker
  BY <1>1, <1>12 DEF Worker, BeginPass, DescAcked, OpenDesc, WriteAcked, WriteDesc, DescGivesUp,
     BindMedia, QueueMedia, Drained, DeleteMedia, MediaSettled, WriteSettled, Finish,
     WorkerExits
<1>13. CASE UNCHANGED vars
  BY <1>1, <1>13 DEF vars
<1> QED BY <1>2, <1>3, <1>4, <1>5, <1>6, <1>7, <1>8, <1>9, <1>10, <1>11, <1>12, <1>13
        DEF Next, UploadThread, Server, Faults

\* What the device takes as uploaded has been accepted.
LEMMA NextAcked ==
    ASSUME AckTimely, BaseInv, AnswersInStep, AckedIsAccepted, [Next]_vars
    PROVE  AckedIsAccepted'
<1>0. /\ TypeOK /\ ThreadInStep
      /\ root \in [Files -> {0, 1}] /\ tag \in [Files -> {0, 1}]
      /\ accepted \subseteq accepted'
      /\ \A m \in Media : m \in Files
      /\ Desc \in Files
  BY AcceptedGrows DEF BaseInv, TypeOK, Files
<1> USE <1>0 DEF AckedIsAccepted, diskVars, workVars
<1>1. CASE UNCHANGED <<tag, root, descUploaded, uploadedList>>
  BY <1>1
<1>2. CASE Callback
  BY <1>2 DEF Callback, AnswersInStep
<1>3. CASE BeginPass
  BY <1>3 DEF BeginPass
<1>4. CASE DescAcked
  BY <1>4 DEF DescAcked, OpenDesc
<1>5. CASE WriteAcked \/ WriteSettled
  BY <1>5 DEF WriteAcked, WriteSettled, WriteDesc
<1>6. CASE BindMedia
  BY <1>6 DEF BindMedia
<1>7. ASSUME NEW m \in Media, DeleteMedia(m)
      PROVE  AckedIsAccepted'
  BY <1>7 DEF DeleteMedia
<1>8. CASE Crash
  BY <1>8 DEF Crash
<1>9. CASE TakeFile \/ ThreadExits \/ OpenFails \/ SendFails \/ Send \/ Answered \/ AckTimeout
  BY <1>1, <1>9 DEF TakeFile, ThreadExits, OpenFails, SendFails, Send, Answered, AckTimeout,
     UploadReturns
<1>10. CASE Server \/ (\E ok \in BOOLEAN : AnswerLost(ok)) \/ StopQueue \/ StopUpload
            \/ StopSocket \/ UNCHANGED vars
  BY <1>1, <1>10 DEF Server, ServerAnswers, HandleUploadCommand, AnswerLost, StopQueue,
     StopUpload, StopSocket, vars
<1>11. CASE DescGivesUp \/ QueueMedia \/ Drained \/ MediaSettled \/ Finish \/ WorkerExits
  BY <1>1, <1>11 DEF DescGivesUp, QueueMedia, Drained, MediaSettled, OpenDesc, Finish,
     WorkerExits
<1> QED BY <1>2, <1>3, <1>4, <1>5, <1>6, <1>7, <1>8, <1>9, <1>10, <1>11
        DEF Next, UploadThread, Worker, Faults

\* A description that a worker nobody has asked to stop removes went up with
\* all its media.
LEMMA FinishTakesAll ==
    ASSUME BaseInv, AckedIsAccepted, Finish, Complete, stopping = "no"
    PROVE  accepted = Files
<1>1. ASSUME NEW m \in Media
      PROVE  m \in accepted
  BY <1>1 DEF BaseInv, NoneMissed, AckedIsAccepted, Finish, Complete, Files
<1>2. Desc \in accepted
  BY DEF AckedIsAccepted, Complete
<1>3. accepted \subseteq Files
  BY DEF BaseInv, TypeOK
<1> QED BY <1>1, <1>2, <1>3 DEF Files

\* Only Finish removes the description, and only Finish and DeleteMedia media.
LEMMA WhatGoes ==
    ASSUME BaseInv, [Next]_vars
    PROVE  \/ Finish /\ Complete
           \/ \E m \in Media : DeleteMedia(m)
           \/ present' = present /\ (descFile' = "absent" <=> descFile = "absent")
<1>0. WorkerInStep
  BY DEF BaseInv
<1> USE DEF diskVars
<1>1. CASE UploadThread \/ SendFails
  BY <1>1 DEF UploadThread, TakeFile, ThreadExits, OpenFails, Send, Answered, AckTimeout,
     Callback, SendFails, UploadReturns
<1>2. CASE Server \/ (\E ok \in BOOLEAN : AnswerLost(ok))
  BY <1>2 DEF Server, ServerAnswers, HandleUploadCommand, AnswerLost
<1>3. CASE BeginPass \/ DescGivesUp \/ BindMedia \/ QueueMedia \/ Drained \/ WorkerExits
  BY <1>3 DEF BeginPass, DescGivesUp, BindMedia, QueueMedia, Drained, WorkerExits
<1>4. CASE DescAcked \/ WriteAcked \/ MediaSettled \/ WriteSettled
  BY <1>0, <1>4 DEF DescAcked, OpenDesc, WriteAcked, WriteDesc, MediaSettled, WriteSettled,
     WorkerInStep
<1>5. CASE Finish /\ ~Complete
  BY <1>0, <1>5 DEF Finish, WorkerInStep
<1>6. CASE StopQueue \/ StopUpload \/ StopSocket \/ Crash \/ UNCHANGED vars
  BY <1>6 DEF StopQueue, StopUpload, StopSocket, Crash, vars
<1> QED BY <1>1, <1>2, <1>3, <1>4, <1>5, <1>6 DEF Next, Worker, Faults

\* What has left the device has been accepted.
LEMMA NextGone ==
    ASSUME BaseInv, AckedIsAccepted, GoneIsAccepted, [Next]_vars
    PROVE  GoneIsAccepted'
<1>0. /\ accepted \subseteq accepted' /\ accepted' \subseteq Files
      /\ present \subseteq Media /\ Media \subseteq Files
  BY AcceptedGrows, NextBase DEF BaseInv, TypeOK, Files
<1>1. CASE present' = present /\ (descFile' = "absent" <=> descFile = "absent")
  BY <1>0, <1>1 DEF GoneIsAccepted, DeletedMeansAccepted, RemovedMeansAccepted
<1>2. ASSUME NEW m \in Media, DeleteMedia(m)
      PROVE  GoneIsAccepted'
  <2>1. m \in accepted /\ present' = present \ {m} /\ descFile' = descFile
    BY <1>2 DEF DeleteMedia, AckedIsAccepted
  <2> QED BY <1>0, <2>1 DEF GoneIsAccepted, DeletedMeansAccepted, RemovedMeansAccepted
<1>3. CASE Finish /\ Complete
  <2>1. ~MayStop => accepted' = Files
    <3>1. ~MayStop => stopping = "no"
      BY DEF BaseInv, ThreadInStep
    <3> QED BY <1>0, <1>3, <3>1, FinishTakesAll
  <2>2. ~Exclusive => present' = present
    BY <1>3 DEF Finish
  <2> QED BY <1>0, <2>1, <2>2 DEF GoneIsAccepted, DeletedMeansAccepted, RemovedMeansAccepted
<1> QED BY <1>1, <1>2, <1>3, WhatGoes

-----------------------------------------------------------------------------
(* The invariant *)

\* The whole invariant holds at the start.
LEMMA InitInv == Init => IInv
<1> SUFFICES ASSUME Init PROVE IInv
  OBVIOUS
<1> USE UploadAssumption DEF Init, Files, Media, Desc, Idle
<1>1. BaseInv
  BY InitBase
<1>2. TagsInStep
  BY DEF TagsInStep, Tagged
<1>3. AckInv
  BY DEF AckInv, AnswersInStep, AckedIsAccepted, GoneIsAccepted, DeletedMeansAccepted,
     RemovedMeansAccepted
<1> QED BY <1>1, <1>2, <1>3 DEF IInv

\* IInv is inductive.
LEMMA NextInv == IInv /\ [Next]_vars => IInv'
<1> SUFFICES ASSUME IInv, [Next]_vars PROVE IInv'
  OBVIOUS
<1>1. BaseInv /\ BaseInv'
  BY NextBase DEF IInv
<1>2. ~MayCrash => TagsInStep'
  BY <1>1, NextTags DEF IInv
<1>3. ASSUME AckTimely PROVE AckInv'
  <2>1. AnswersInStep /\ AckedIsAccepted /\ GoneIsAccepted
    BY <1>3 DEF IInv, AckInv
  <2> QED BY <1>1, <1>3, <2>1, NextAnswers, NextAcked, NextGone DEF AckInv
<1> QED BY <1>1, <1>2, <1>3 DEF IInv

\* It holds throughout.
LEMMA InvHolds == Spec => []IInv
BY InitInv, NextInv, PTL DEF Spec

-----------------------------------------------------------------------------
(* What follows from it *)

\* The types of the disk, the worker, the client and the server.
THEOREM TypesHold == Spec => []TypeOK
<1>1. IInv => TypeOK
  BY DEF IInv, BaseInv
<1> QED BY <1>1, InvHolds, PTL

\* A medium is tagged as uploaded exactly when its file has been deleted, late
\* answers and stops notwithstanding, as long as power is not lost.
THEOREM TagsTellTheFiles ==
    ASSUME ~MayCrash
    PROVE  Spec => []TagsTellFiles
<1>1. IInv => TagsTellFiles
  BY DEF IInv, TagsInStep, Tagged, TagsTellFiles
<1> QED BY <1>1, InvHolds, PTL

\* Where answers come in time or not at all, a medium is deleted only once the
\* server has it, in a directory of its own as long as nobody calls stop().
THEOREM DeletedIsAccepted ==
    ASSUME AckTimely, ~Exclusive \/ ~MayStop
    PROVE  Spec => []DeletedMeansAccepted
<1>1. IInv => DeletedMeansAccepted
  BY DEF IInv, AckInv, GoneIsAccepted
<1> QED BY <1>1, InvHolds, PTL

\* Where answers come in time or not at all and nobody calls stop(), a
\* description that has gone took every file with it to the server, whatever
\* crashes cut short.
THEOREM RemovedIsAccepted ==
    ASSUME AckTimely, ~MayStop
    PROVE  Spec => []RemovedMeansAccepted
<1>1. IInv => RemovedMeansAccepted
  BY DEF IInv, AckInv, GoneIsAccepted
<1> QED BY <1>1, InvHolds, PTL

\* A description removed by a worker that nobody has asked to stop went up with
\* all its media, whatever crashes and stops have cut short before.
THEOREM RemovalIsWhole ==
    ASSUME AckTimely
    PROVE  Spec => RemovedWhole
<1>1. ASSUME IInv, [Next]_vars, descFile # "absent", descFile' = "absent", ~StopRequested
      PROVE  accepted = Files
  <2>1. BaseInv /\ AckedIsAccepted /\ stopping = "no"
    BY <1>1 DEF IInv, AckInv, StopRequested
  <2>2. ~\E m \in Media : DeleteMedia(m)
    BY <1>1 DEF DeleteMedia
  <2>3. Finish /\ Complete
    BY <1>1, <2>1, <2>2, WhatGoes
  <2> QED BY <2>1, <2>3, FinishTakesAll
<1>2. IInv /\ [Next]_vars =>
        [descFile # "absent" /\ descFile' = "absent" /\ ~StopRequested => accepted = Files]_vars
  BY <1>1
<1> QED BY <1>2, InvHolds, PTL DEF Spec, RemovedWhole

\* The upload of a description is a way of keeping custody: the device lets go
\* of media only once the server has accepted them.
THEOREM UploadKeepsCustody ==
    ASSUME AckTimely, ~MayStop
    PROVE  Spec => KeepsCustody
<1>1. Init => Unit!Init
  BY DEF Init, Unit!Init, Owed
<1>2. ASSUME IInv, [Next]_vars
      PROVE  [Unit!Next]_(Unit!vars)
  <2>0. /\ BaseInv /\ AckedIsAccepted /\ stopping = "no" /\ TypeOK
        /\ accepted \subseteq Files /\ present \subseteq Media
    BY <1>2 DEF IInv, AckInv, BaseInv, ThreadInStep, TypeOK
  <2> DEFINE Taken == accepted \ {Desc}
  <2>1. CASE Finish /\ Complete
    <3>1. accepted = Files /\ accepted' = accepted /\ Owed' = {}
      BY <2>0, <2>1, FinishTakesAll DEF Finish, Owed, serverVars
    <3>2. Media \subseteq Files /\ Desc \notin Media
      BY DEF Files, Media, Desc
    <3>3. Owed \subseteq Media
      BY <2>0 DEF Owed
    <3>4. Owed \in SUBSET Owed /\ Owed \subseteq Taken /\ Owed' = Owed \ Owed /\ Taken' = Taken
      <4> HIDE DEF Owed
      <4> QED BY <3>1, <3>2, <3>3
    <3> QED BY <3>4 DEF Unit!Next, Unit!Forget
  <2>2. ASSUME NEW m \in Media, DeleteMedia(m)
        PROVE  [Unit!Next]_(Unit!vars)
    <3>1. /\ m \in accepted /\ m # Desc /\ accepted' = accepted
          /\ Owed' = Owed \ (Owed \cap {m})
      BY <2>0, <2>2 DEF DeleteMedia, AckedIsAccepted, Owed, serverVars, Media, Desc
    <3>2. Owed \cap {m} \in SUBSET Owed /\ Owed \cap {m} \subseteq Taken /\ Taken' = Taken
      BY <3>1
    <3> QED BY <3>1, <3>2 DEF Unit!Next, Unit!Forget
  <2>3. CASE present' = present /\ (descFile' = "absent" <=> descFile = "absent")
    <3>1. Owed' = Owed
      BY <2>3 DEF Owed
    <3>2. accepted' = accepted \/ \E f \in Files : accepted' = accepted \cup {f}
      BY <1>2, <2>0, AcceptsOne
    <3>3. CASE Taken' = Taken
      BY <3>1, <3>3 DEF Unit!vars
    <3>4. ASSUME NEW m \in Media, Taken' = Taken \cup {m}
          PROVE  Unit!Next
      BY <3>1, <3>4 DEF Unit!Next, Unit!Accept
    <3>5. Taken' = Taken \/ \E m \in Media : Taken' = Taken \cup {m}
      BY <3>2 DEF Files, Media, Desc
    <3> QED BY <3>3, <3>4, <3>5
  <2> QED BY <1>2, <2>0, <2>1, <2>2, <2>3, WhatGoes
<1> QED BY <1>1, <1>2, InvHolds, PTL DEF Spec, KeepsCustody, Unit!Spec

\* No medium is lost: each is on the server or still in the device's charge.
THEOREM NoMediumIsLost ==
    ASSUME AckTimely, ~MayStop
    PROVE  Spec => []Unit!NothingLost
<1>1. IInv => Unit!NothingLost
  BY DEF IInv, BaseInv, TypeOK, AckInv, GoneIsAccepted, DeletedMeansAccepted,
     RemovedMeansAccepted, Unit!NothingLost, Owed, Files, Media, Desc
<1> QED BY <1>1, InvHolds, PTL
=============================================================================
