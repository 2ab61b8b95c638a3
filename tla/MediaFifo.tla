------------------------------ MODULE MediaFifo ------------------------------
(***************************************************************************)
(* The frames of a video MediaSession on their way from the encoder to the *)
(* event loop of the RTSP server: the ring of MediaFIFO, the producer      *)
(* thread that fills it and decides what to drop when it is full, and the  *)
(* sender that takes a frame, works through it over many timer events and  *)
(* then releases it.                                                       *)
(*                                                                         *)
(* The ring owns the memory of its frames.  popBlocking hands out the      *)
(* oldest frame without removing it, and release removes whatever is       *)
(* oldest then.  Each operation of the ring is one critical section; the   *)
(* producer needs up to four of them for one frame, and the sender may act *)
(* between any two.                                                        *)
(***************************************************************************)
EXTENDS Integers, Sequences, FiniteSets

CONSTANTS
    Capacity,   \* fifoSize_
    MaxFrames,  \* bound on the frames the encoder delivers
    None        \* no buffer, no frame

ASSUME SizesAreSet == Capacity \in Nat \ {0} /\ MaxFrames \in Nat

Indices == 0 .. Capacity - 1
Buffers == 1 .. Capacity + 1
Frames == [n : 1 .. MaxFrames, key : BOOLEAN]

ASSUME NoneIsNothing == None \notin Buffers /\ None \notin Frames

VARIABLES
    slots,      \* frames_: per index the buffer it owns and the frame in it
    head,       \* head_
    tail,       \* tail_
    count,      \* count_
    pc,         \* where the producer thread is; "off": it has ended
    frame,      \* the frame the producer is working on
    dropping,   \* droppingGop
    produced,   \* frames delivered by the encoder so far
    running,    \* MediaSession::running_
    held        \* the frame in the sender's hands and its buffer, or None

ring == <<slots, head, tail, count>>
producer == <<pc, frame, dropping, produced>>
vars == <<ring, producer, running, held>>

At(i) == (head + i) % Capacity
Owned == {slots[i].buf : i \in Indices} \ {None}

Init ==
    /\ slots = [i \in Indices |-> [buf |-> None, frame |-> None]]
    /\ head = 0
    /\ tail = 0
    /\ count = 0
    /\ pc = "off"
    /\ frame = None
    /\ dropping = FALSE
    /\ produced = 0
    /\ running = FALSE
    /\ held = None

-----------------------------------------------------------------------------
(* The operations of the ring *)

\* push: the slot keeps its buffer when the frame fits, and gets another one
\* when it does not.
Push(f) ==
    /\ count < Capacity
    /\ \E b \in Buffers \ (Owned \ {slots[tail].buf}) :
           slots' = [slots EXCEPT ![tail] = [buf |-> b, frame |-> f]]
    /\ tail' = (tail + 1) % Capacity
    /\ count' = count + 1
    /\ head' = head

Full == count >= Capacity

\* Mutant: the head does not wrap.
AdvanceUnwrapped ==
    /\ head' = head + 1
    /\ count' = count - 1
    /\ tail' = tail

\* release, and the end of dropOldest: the oldest frame leaves.
Advance ==
    /\ head' = (head + 1) % Capacity
    /\ count' = count - 1
    /\ tail' = tail

DropOldest ==
    /\ count > 0
    /\ slots' = [slots EXCEPT ![head].buf = None]
    /\ Advance

\* Mutant: any non-key frame will do.
IsSomeNonKey(k) == k < count /\ ~slots[At(k)].frame.key

IsFirstNonKey(k) ==
    /\ k < count
    /\ ~slots[At(k)].frame.key
    /\ \A i \in 0 .. k - 1 : slots[At(i)].frame.key

\* Mutant: the slot that is given up keeps the buffer it has passed on.
DropFirstNonKeyKept ==
    /\ \E k \in Indices :
           /\ IsFirstNonKey(k)
           /\ slots' = [j \in Indices |->
                  IF \E i \in 1 .. k : j = At(i)
                  THEN slots[(j + Capacity - 1) % Capacity]
                  ELSE slots[j]]
    /\ Advance

\* dropFirstNonKeyFrame: the older frames move up by one slot to fill the gap.
DropFirstNonKey ==
    /\ \E k \in Indices :
           /\ IsFirstNonKey(k)
           /\ slots' = [j \in Indices |->
                  IF j = head THEN [slots[j] EXCEPT !.buf = None]
                  ELSE IF \E i \in 1 .. k : j = At(i)
                       THEN slots[(j + Capacity - 1) % Capacity]
                       ELSE slots[j]]
    /\ Advance

AllKeys == \A i \in 0 .. count - 1 : slots[At(i)].frame.key

-----------------------------------------------------------------------------
(* The producer thread: MediaSession::producerLoop *)

Goto(p) == pc' = p

\* A frame from the encoder, copied out of it.
Deliver(key) ==
    /\ pc = "pull" /\ running
    /\ produced < MaxFrames
    /\ produced' = produced + 1
    /\ frame' = [n |-> produced + 1, key |-> key]
    /\ Goto("push")
    /\ UNCHANGED <<ring, dropping, running, held>>

LoopEnds ==
    /\ pc = "pull" /\ ~running
    /\ Goto("off")
    /\ UNCHANGED <<ring, frame, dropping, produced, running, held>>

\* Mutant: the next key frame is skipped with the rest.
SkipWhileDropping ==
    /\ pc = "push"
    /\ dropping
    /\ Goto("pull")
    /\ UNCHANGED <<ring, frame, dropping, produced, running, held>>

\* The rest of a group of pictures whose frame was dropped is not wanted.
SkipNonKey ==
    /\ pc = "push"
    /\ dropping /\ ~frame.key
    /\ Goto("pull")
    /\ UNCHANGED <<ring, frame, dropping, produced, running, held>>

Store ==
    /\ pc = "push"
    /\ frame.key \/ ~dropping
    /\ Push(frame)
    /\ dropping' = FALSE
    /\ Goto("pull")
    /\ UNCHANGED <<frame, produced, running, held>>

StartDropping ==
    /\ pc = "push"
    /\ ~frame.key /\ ~dropping
    /\ Full
    /\ dropping' = TRUE
    /\ Goto("pull")
    /\ UNCHANGED <<ring, frame, produced, running, held>>

\* A key frame has to get in.
MakeRoom ==
    /\ pc = "push"
    /\ frame.key
    /\ Full
    /\ dropping' = FALSE
    /\ Goto("drop")
    /\ UNCHANGED <<ring, frame, produced, running, held>>

MakeRoomOfNonKey ==
    /\ pc = "drop"
    /\ DropFirstNonKey
    /\ Goto("store")
    /\ UNCHANGED <<frame, dropping, produced, running, held>>

NothingButKeys ==
    /\ pc = "drop"
    /\ AllKeys
    /\ Goto("dropKey")
    /\ UNCHANGED <<ring, frame, dropping, produced, running, held>>

\* dropOldest finds nothing to drop when the sender has emptied the ring.
MakeRoomOfKey ==
    /\ pc = "dropKey"
    /\ IF count > 0 THEN DropOldest ELSE UNCHANGED ring
    /\ Goto("store")
    /\ UNCHANGED <<frame, dropping, produced, running, held>>

\* Nobody else pushes, so the room that was made is still there.
StoreKey ==
    /\ pc = "store"
    /\ Push(frame)
    /\ Goto("pull")
    /\ UNCHANGED <<frame, dropping, produced, running, held>>

Producer ==
    \/ \E key \in BOOLEAN : Deliver(key)
    \/ LoopEnds
    \/ SkipNonKey
    \/ Store
    \/ StartDropping
    \/ MakeRoom
    \/ MakeRoomOfNonKey
    \/ NothingButKeys
    \/ MakeRoomOfKey
    \/ StoreKey

-----------------------------------------------------------------------------
(* The event loop, and the main thread when it stops the server *)

\* MediaSession::start and stop; stop waits for the producer, so a start finds
\* it ended.  What is in the ring stays there for the next session.
Start ==
    /\ pc = "off" /\ ~running
    /\ running' = TRUE
    /\ Goto("pull")
    /\ dropping' = FALSE
    /\ UNCHANGED <<ring, frame, produced, held>>

Stop ==
    /\ running
    /\ running' = FALSE
    /\ UNCHANGED <<ring, producer, held>>

\* pullDataInternal, for the first frame and for each later one.  A stop() called
\* by the event loop keeps that waiting for the producer; one called by the main
\* thread, in RtspServer::stop, does not, so the sender goes on here.
Pull ==
    /\ held = None
    /\ count > 0
    /\ held' = slots[head]
    /\ UNCHANGED <<ring, producer, running>>

\* releaseDataInternal, when the last unit of the frame has been sent.
Release ==
    /\ held # None
    /\ held' = None
    /\ IF count > 0 THEN Advance /\ UNCHANGED slots ELSE UNCHANGED ring
    /\ UNCHANGED <<producer, running>>

\* VideoCtx_drop in the middle of a frame.
GiveUp ==
    /\ held # None
    /\ held' = None
    /\ UNCHANGED <<ring, producer, running>>

EventLoop == Start \/ Stop \/ Pull \/ Release \/ GiveUp

Next == Producer \/ EventLoop

Spec == Init /\ [][Next]_vars

-----------------------------------------------------------------------------
TypeOK ==
    /\ slots \in [Indices -> [buf : Buffers \cup {None}, frame : Frames \cup {None}]]
    /\ head \in Indices
    /\ tail \in Indices
    /\ count \in 0 .. Capacity
    /\ tail = (head + count) % Capacity
    /\ pc \in {"off", "pull", "push", "drop", "dropKey", "store"}
    /\ frame \in Frames \cup {None}
    /\ dropping \in BOOLEAN
    /\ produced \in 0 .. MaxFrames
    /\ running \in BOOLEAN
    /\ held \in {None} \cup [buf : Buffers, frame : Frames]

\* The queue the ring stands for, oldest first.
Queue == [i \in 1 .. count |-> slots[At(i - 1)].frame]

\* Wherever the ring has wrapped, whatever is shifted and between whichever two
\* of the producer's steps the sender releases, frames enter and leave as in a
\* queue (MediaFIFO.cpp push, release, dropOldest, dropFirstNonKeyFrame).
Abstract == INSTANCE FrameQueue WITH queue <- Queue
RingIsQueue == Abstract!Spec

\* No two slots own one buffer, also those outside the queue: a later push or
\* the destructor would free it twice (MediaFIFO.cpp dropFirstNonKeyFrame).
OwnersDiffer ==
    \A i, j \in Indices :
        i # j /\ slots[i].buf # None => slots[i].buf # slots[j].buf

\* A key frame always gets in, and last, however full the ring was and whatever
\* the sender released meanwhile (MediaSession.cpp producerLoop).
KeyFrameEnters ==
    [][(pc \notin {"off", "pull"} /\ pc' = "pull" /\ frame.key) =>
         (Queue' # <<>> /\ Queue'[count'] = frame)]_vars
=============================================================================
