----------------------------- MODULE FrameQueue -----------------------------
(***************************************************************************)
(* What MediaFIFO promises: a bounded queue of frames.  A frame enters     *)
(* last, and leaves either as the oldest or, when room has to be made, as  *)
(* the oldest that is not a key frame.                                     *)
(***************************************************************************)
EXTENDS Naturals, SequencesExt

CONSTANTS Frames, Capacity

VARIABLE queue

Init == queue = <<>>

Enter == \E f \in Frames : Len(queue) < Capacity /\ queue' = Append(queue, f)

LeaveOldest == queue # <<>> /\ queue' = Tail(queue)

LeaveFirstNonKey ==
    \E i \in 1 .. Len(queue) :
        /\ ~queue[i].key
        /\ \A j \in 1 .. i - 1 : queue[j].key
        /\ queue' = RemoveAt(queue, i)

Next == Enter \/ LeaveOldest \/ LeaveFirstNonKey

Spec == Init /\ [][Next]_queue
=============================================================================
