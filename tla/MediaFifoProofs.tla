--------------------------- MODULE MediaFifoProofs ---------------------------
(***************************************************************************)
(* What holds of the ring for any capacity and any stream of frames.       *)
(*                                                                         *)
(* The invariant: the slots of the queue hold a buffer and a frame, the    *)
(* producer has a frame in its hands whenever it works on one, a key frame *)
(* while it makes room for it, and there is room when it comes to store    *)
(* it.  The first is what makes the frame the sender pulls a real one, the *)
(* last what makes the store of a key frame succeed.                       *)
(***************************************************************************)
EXTENDS MediaFifo, SequenceTheorems, TLAPS

\* The queue holds frames, each in a buffer (MediaFIFO.cpp push).
QueueHeld ==
    \A i \in 0 .. count - 1 :
        slots[At(i)].buf \in Buffers /\ slots[At(i)].frame \in Frames

\* The frame the producer works on (MediaSession.cpp producerLoop).
InHand ==
    /\ pc \notin {"off", "pull"} => frame \in Frames
    /\ pc \in {"drop", "dropKey", "store"} => frame.key

\* Only the producer fills the ring, so the room it made is there when it comes
\* to store the key frame (MediaSession.cpp producerLoop, the second push).
RoomMade == pc = "store" => count < Capacity

IInv ==
    /\ TypeOK
    /\ QueueHeld
    /\ InHand
    /\ RoomMade
    /\ OwnersDiffer

-----------------------------------------------------------------------------
(* The arithmetic of the ring *)

\* An index below twice the capacity wraps at most once.
LEMMA ModSmall ==
    ASSUME NEW a \in Nat, a < 2 * Capacity
    PROVE  a % Capacity = IF a < Capacity THEN a ELSE a - Capacity
BY SizesAreSet

\* Neither does a place counted from an index, up to a full round.
LEMMA Wrap ==
    ASSUME NEW h \in Indices, NEW i \in 0 .. Capacity
    PROVE  /\ (h + i) % Capacity = IF h + i < Capacity THEN h + i ELSE h + i - Capacity
           /\ (h + i) % Capacity \in Indices
<1>1. h + i \in Nat /\ h + i < 2 * Capacity
  BY SizesAreSet DEF Indices
<1> QED BY <1>1, ModSmall, SizesAreSet DEF Indices

\* What At computes, without the modulus.
LEMMA AtIs ==
    ASSUME head \in Indices, NEW i \in 0 .. Capacity
    PROVE  /\ At(i) = IF head + i < Capacity THEN head + i ELSE head + i - Capacity
           /\ At(i) \in Indices
BY Wrap DEF At

\* Different places of the queue are different slots.
LEMMA AtDiffers ==
    ASSUME head \in Indices, NEW i \in Indices, NEW j \in Indices, At(i) = At(j)
    PROVE  i = j
<1>1. i \in 0 .. Capacity /\ j \in 0 .. Capacity
  BY SizesAreSet DEF Indices
<1> QED BY <1>1, AtIs, SizesAreSet DEF Indices

\* The slot before a place of the queue is the place before.
LEMMA AtBefore ==
    ASSUME head \in Indices, NEW i \in 1 .. Capacity - 1
    PROVE  (At(i) + Capacity - 1) % Capacity = At(i - 1)
<1>1. i \in 0 .. Capacity /\ i - 1 \in 0 .. Capacity
  BY SizesAreSet
<1>2. /\ At(i) \in Indices
      /\ At(i) = IF head + i < Capacity THEN head + i ELSE head + i - Capacity
      /\ At(i - 1) = IF head + (i - 1) < Capacity THEN head + (i - 1)
                     ELSE head + (i - 1) - Capacity
  BY <1>1, AtIs
<1>3. At(i) + Capacity - 1 \in Nat /\ At(i) + Capacity - 1 < 2 * Capacity
  BY <1>2, SizesAreSet DEF Indices
<1> QED BY <1>2, <1>3, ModSmall, SizesAreSet DEF Indices

\* The head is the first place, and the one after the last place too.
LEMMA AtEnds ==
    ASSUME head \in Indices
    PROVE  At(0) = head /\ At(Capacity) = head
BY AtIs, SizesAreSet DEF Indices

\* Once the head has advanced, every place is what the next place was.
LEMMA AtAdvanced ==
    ASSUME head \in Indices, head' = (head + 1) % Capacity
    PROVE  /\ head' \in Indices
           /\ \A i \in Indices : (head' + i) % Capacity = At(i + 1)
<1>1. head' = At(1)
  BY DEF At
<1>2. 1 \in 0 .. Capacity
  BY SizesAreSet
<1>3. head' \in Indices /\ head' = IF head + 1 < Capacity THEN head + 1 ELSE 0
  BY <1>1, <1>2, AtIs, SizesAreSet DEF Indices
<1>4. ASSUME NEW i \in Indices PROVE (head' + i) % Capacity = At(i + 1)
  <2>1. i + 1 \in 0 .. Capacity
    BY SizesAreSet DEF Indices
  <2>2. At(i + 1) = IF head + (i + 1) < Capacity THEN head + (i + 1)
                    ELSE head + (i + 1) - Capacity
    BY <2>1, AtIs
  <2>3. i \in 0 .. Capacity
    BY SizesAreSet DEF Indices
  <2>4. (head' + i) % Capacity = IF head' + i < Capacity THEN head' + i
                                 ELSE head' + i - Capacity
    BY <1>3, <2>3, Wrap
  <2> QED BY <1>3, <2>2, <2>4, SizesAreSet DEF Indices
<1> QED BY <1>3, <1>4

-----------------------------------------------------------------------------
(* The operations of the ring *)

Slot == [buf : Buffers \cup {None}, frame : Frames \cup {None}]

RingOK ==
    /\ slots \in [Indices -> Slot]
    /\ head \in Indices
    /\ tail \in Indices
    /\ count \in 0 .. Capacity
    /\ tail = At(count)

RingInv == RingOK /\ QueueHeld /\ OwnersDiffer

\* push: the new frame comes after the others, which keep their places.
LEMMA PushKeeps ==
    ASSUME RingInv, NEW f \in Frames, Push(f)
    PROVE  /\ RingInv'
           /\ count' = count + 1 /\ head' = head
           /\ \A i \in 0 .. count - 1 : slots'[At(i)] = slots[At(i)]
           /\ slots'[At(count)].frame = f
<1> USE SizesAreSet, NoneIsNothing
<1>1. PICK b \in Buffers \ (Owned \ {slots[tail].buf}) :
          slots' = [slots EXCEPT ![tail] = [buf |-> b, frame |-> f]]
  BY DEF Push
<1>2. /\ tail \in Indices /\ count \in Indices /\ count \in 0 .. Capacity
      /\ head' = head /\ count' = count + 1 /\ tail' = (tail + 1) % Capacity
      /\ tail = At(count)
  BY DEF Push, RingInv, RingOK, Indices
<1>3. slots' \in [Indices -> Slot]
  <2>1. [buf |-> b, frame |-> f] \in Slot
    BY DEF Slot
  <2> QED BY <1>1, <2>1 DEF RingInv, RingOK
<1>4. tail' = At(count + 1) /\ tail' \in Indices
  <2>1. head \in Indices /\ count + 1 \in 0 .. Capacity
    BY <1>2 DEF RingInv, RingOK, Indices
  <2>2. /\ At(count + 1) \in Indices
        /\ At(count + 1) = IF head + (count + 1) < Capacity THEN head + (count + 1)
                           ELSE head + (count + 1) - Capacity
        /\ At(count) = IF head + count < Capacity THEN head + count ELSE head + count - Capacity
    BY <1>2, <2>1, AtIs
  <2>3. tail + 1 \in Nat /\ tail + 1 < 2 * Capacity
    BY <1>2 DEF Indices
  <2>4. tail' = IF tail + 1 < Capacity THEN tail + 1 ELSE tail + 1 - Capacity
    BY <1>2, <2>3, ModSmall
  <2> QED BY <1>2, <2>1, <2>2, <2>4 DEF Indices
<1>5. RingOK'
  BY <1>2, <1>3, <1>4 DEF RingInv, RingOK, At, Indices, Push
<1>6. ASSUME NEW i \in 0 .. count - 1
      PROVE  At(i) # tail /\ slots'[At(i)] = slots[At(i)]
  <2>1. i \in Indices /\ i # count /\ head \in Indices
    BY <1>2 DEF RingInv, RingOK, Indices
  <2>2. At(i) # tail
    BY <1>2, <2>1, AtDiffers
  <2> QED BY <1>1, <2>2
<1>7. slots'[At(count)] = [buf |-> b, frame |-> f]
  BY <1>1, <1>2 DEF RingInv, RingOK
<1>8. QueueHeld'
  <2> SUFFICES ASSUME NEW i \in 0 .. count
               PROVE  slots'[At(i)].buf \in Buffers /\ slots'[At(i)].frame \in Frames
    BY <1>2 DEF QueueHeld, At, RingInv, RingOK
  <2>1. CASE i = count
    BY <1>7, <2>1
  <2>2. CASE i # count
    <3>1. i \in 0 .. count - 1
      BY <2>2, <1>2
    <3> QED BY <3>1, <1>6 DEF RingInv, QueueHeld
  <2> QED BY <2>1, <2>2
<1>9. OwnersDiffer'
  <2> SUFFICES ASSUME NEW i \in Indices, NEW j \in Indices,
                      i # j, slots'[i].buf # None
               PROVE  slots'[i].buf # slots'[j].buf
    BY DEF OwnersDiffer
  <2>1. \A k \in Indices : k # tail => /\ slots'[k] = slots[k]
                                       /\ slots[k].buf # b
    <3> SUFFICES ASSUME NEW k \in Indices, k # tail
                 PROVE  slots'[k] = slots[k] /\ slots[k].buf # b
      OBVIOUS
    <3>1. slots'[k] = slots[k]
      BY <1>1 DEF RingInv, RingOK
    <3>2. b # None
      OBVIOUS
    <3>3. slots[k].buf # None => slots[k].buf # slots[tail].buf
      BY <1>2 DEF RingInv, OwnersDiffer
    <3>4. slots[k].buf # None => slots[k].buf \in Owned \ {slots[tail].buf}
      BY <3>3 DEF Owned
    <3> QED BY <3>1, <3>2, <3>4
  <2>2. slots'[tail].buf = b
    BY <1>2, <1>7
  <2> QED BY <2>1, <2>2 DEF RingInv, OwnersDiffer
<1> QED BY <1>2, <1>5, <1>6, <1>7, <1>8, <1>9 DEF RingInv

\* release and both drops: the head moves on, the tail stays the end of what is
\* left.
LEMMA AdvanceKeeps ==
    ASSUME RingOK, count > 0, Advance, slots' \in [Indices -> Slot]
    PROVE  /\ RingOK'
           /\ count' = count - 1 /\ count' < Capacity
           /\ \A i \in Indices : (head' + i) % Capacity = At(i + 1)
<1>1. head \in Indices /\ head' = (head + 1) % Capacity /\ count' = count - 1 /\ tail' = tail
  BY DEF RingOK, Advance
<1>2. head' \in Indices /\ \A i \in Indices : (head' + i) % Capacity = At(i + 1)
  BY <1>1, AtAdvanced
<1>3. count - 1 \in Indices /\ count - 1 + 1 = count /\ count - 1 \in 0 .. Capacity
  BY SizesAreSet DEF RingOK, Indices
<1>4. (head' + count') % Capacity = At(count)
  BY <1>1, <1>2, <1>3
<1>5. tail' = At(count)'
  BY <1>1, <1>4 DEF RingOK, At
<1> QED BY <1>1, <1>2, <1>3, <1>5, SizesAreSet DEF RingOK

\* The oldest frame leaves: the others keep their slots and move up one place.
LEMMA LeavesOldest ==
    ASSUME RingInv, count > 0, Advance,
           \/ UNCHANGED slots
           \/ slots' = [slots EXCEPT ![head].buf = None]
    PROVE  /\ RingInv'
           /\ count' = count - 1 /\ count' < Capacity
           /\ \A i \in 0 .. count - 2 :
                  slots'[(head' + i) % Capacity].frame = slots[At(i + 1)].frame
<1>1. head \in Indices /\ count \in 0 .. Capacity /\ slots \in [Indices -> Slot]
  BY DEF RingInv, RingOK
<1>2. slots' \in [Indices -> Slot]
  BY <1>1 DEF Slot
<1>3. RingOK'
  BY <1>2, AdvanceKeeps DEF RingInv
<1>4. count' = count - 1 /\ count' < Capacity
  BY <1>2, AdvanceKeeps DEF RingInv
<1>5. ASSUME NEW i \in 0 .. count - 2
      PROVE  /\ (head' + i) % Capacity = At(i + 1)
             /\ slots'[At(i + 1)] = slots[At(i + 1)]
             /\ i + 1 \in 0 .. count - 1
  <2>1. i \in Indices /\ i + 1 \in Indices /\ 0 \in Indices /\ i + 1 # 0
    BY <1>1, SizesAreSet DEF Indices
  <2>2. (head' + i) % Capacity = At(i + 1)
    BY <1>2, <2>1, AdvanceKeeps DEF RingInv
  <2>3. At(i + 1) # head
    BY <1>1, <2>1, AtDiffers, AtEnds
  <2>4. At(i + 1) \in Indices
    BY <1>1, <2>1, AtIs, SizesAreSet DEF Indices
  <2> QED BY <1>1, <2>2, <2>3, <2>4
<1>6. QueueHeld'
  <2> SUFFICES ASSUME NEW i \in 0 .. count - 2
               PROVE  /\ slots'[(head' + i) % Capacity].buf \in Buffers
                      /\ slots'[(head' + i) % Capacity].frame \in Frames
    BY <1>1, <1>4 DEF QueueHeld, At
  <2> QED BY <1>5 DEF RingInv, QueueHeld
<1>7. OwnersDiffer'
  BY <1>1 DEF RingInv, OwnersDiffer, Slot
<1> QED BY <1>3, <1>4, <1>5, <1>6, <1>7 DEF RingInv

\* dropFirstNonKeyFrame, place by place: the slots of the places up to the
\* dropped one take what the place before them had, and the old head's slot is
\* left without a buffer.
LEMMA ShiftedSlots ==
    ASSUME RingInv, NEW k \in Indices, IsFirstNonKey(k),
           slots' = [j \in Indices |->
                  IF j = head THEN [slots[j] EXCEPT !.buf = None]
                  ELSE IF \E i \in 1 .. k : j = At(i)
                       THEN slots[(j + Capacity - 1) % Capacity]
                       ELSE slots[j]]
    PROVE  /\ slots' \in [Indices -> Slot]
           /\ slots'[head].buf = None
           /\ \A i \in 1 .. k : slots'[At(i)] = slots[At(i - 1)]
           /\ \A j \in Indices : (\A i \in 0 .. k : j # At(i)) => slots'[j] = slots[j]
<1>1. head \in Indices /\ count \in 0 .. Capacity /\ slots \in [Indices -> Slot]
  BY DEF RingInv, RingOK
<1>2. /\ [slots[head] EXCEPT !.buf = None] \in Slot
      /\ [slots[head] EXCEPT !.buf = None].buf = None
  BY <1>1 DEF Slot
<1>3. slots'[head].buf = None
  BY <1>1, <1>2
<1>4. ASSUME NEW i \in 1 .. k
      PROVE  At(i) # head /\ At(i) \in Indices /\ slots'[At(i)] = slots[At(i - 1)]
             /\ At(i - 1) \in Indices
  <2>1. i \in Indices /\ i # 0 /\ 0 \in Indices /\ i \in 1 .. Capacity - 1
        /\ i \in 0 .. Capacity /\ i - 1 \in 0 .. Capacity
    BY SizesAreSet DEF Indices
  <2>2. At(i) # head /\ At(i) \in Indices /\ At(i - 1) \in Indices
    BY <1>1, <2>1, AtDiffers, AtEnds, AtIs
  <2>3. (At(i) + Capacity - 1) % Capacity = At(i - 1)
    BY <1>1, <2>1, AtBefore
  <2> QED BY <2>2, <2>3
<1>5. ASSUME NEW j \in Indices, \A i \in 0 .. k : j # At(i)
      PROVE  slots'[j] = slots[j]
  <2>1. j # head
    BY <1>1, <1>5, AtEnds DEF Indices
  <2>2. ~ \E i \in 1 .. k : j = At(i)
    BY <1>5 DEF Indices
  <2> QED BY <2>1, <2>2
<1>6. ASSUME NEW j \in Indices PROVE slots'[j] \in Slot
  <2>1. CASE \A i \in 0 .. k : j # At(i)
    BY <1>1, <1>5, <2>1
  <2>2. ASSUME NEW i \in 1 .. k, j = At(i) PROVE slots'[j] \in Slot
    <3>1. slots'[At(i)] = slots[At(i - 1)] /\ At(i - 1) \in Indices
      BY <1>4
    <3> QED BY <1>1, <2>2, <3>1
  <2>3. CASE j = At(0)
    BY <1>1, <1>2, <2>3, AtEnds
  <2> QED BY <2>1, <2>2, <2>3 DEF Indices
<1>7. slots' \in [Indices -> Slot]
  BY <1>6
<1> QED BY <1>3, <1>4, <1>5, <1>7

\* The oldest frame that is not a key frame leaves: the older ones keep their
\* places and the younger ones move up by one.
LEMMA LeavesFirstNonKey ==
    ASSUME RingInv, count > 0, DropFirstNonKey
    PROVE  /\ RingInv'
           /\ count' = count - 1 /\ count' < Capacity
           /\ \E k \in 0 .. count - 1 :
                  /\ IsFirstNonKey(k)
                  /\ \A i \in 0 .. count - 2 :
                         slots'[(head' + i) % Capacity].frame =
                             IF i < k THEN slots[At(i)].frame ELSE slots[At(i + 1)].frame
<1>1. head \in Indices /\ count \in 0 .. Capacity /\ slots \in [Indices -> Slot]
  BY DEF RingInv, RingOK
<1>2. PICK k \in Indices :
          /\ IsFirstNonKey(k)
          /\ slots' = [j \in Indices |->
                 IF j = head THEN [slots[j] EXCEPT !.buf = None]
                 ELSE IF \E i \in 1 .. k : j = At(i)
                      THEN slots[(j + Capacity - 1) % Capacity]
                      ELSE slots[j]]
  BY DEF DropFirstNonKey
<1>3. /\ slots' \in [Indices -> Slot]
      /\ slots'[head].buf = None
      /\ \A i \in 1 .. k : slots'[At(i)] = slots[At(i - 1)]
      /\ \A j \in Indices : (\A i \in 0 .. k : j # At(i)) => slots'[j] = slots[j]
  BY <1>2, ShiftedSlots
<1>4. k \in 0 .. count - 1
  BY <1>1, <1>2 DEF IsFirstNonKey, Indices
<1>5. /\ RingOK' /\ count' = count - 1 /\ count' < Capacity
      /\ \A i \in Indices : (head' + i) % Capacity = At(i + 1)
  BY <1>3, AdvanceKeeps DEF RingInv, DropFirstNonKey
<1>6. ASSUME NEW i \in 0 .. count - 2
      PROVE  /\ slots'[(head' + i) % Capacity] =
                    IF i < k THEN slots[At(i)] ELSE slots[At(i + 1)]
             /\ i \in 0 .. count - 1 /\ i + 1 \in 0 .. count - 1
  <2>1. i \in Indices /\ i + 1 \in Indices /\ i + 1 \in 0 .. Capacity
    BY <1>1, SizesAreSet DEF Indices
  <2>2. (head' + i) % Capacity = At(i + 1) /\ At(i + 1) \in Indices
    BY <1>1, <1>5, <2>1, AtIs
  <2>3. CASE i < k
    <3>1. i + 1 \in 1 .. k /\ i + 1 - 1 = i
      BY <2>3, <1>4
    <3>2. slots'[At(i + 1)] = slots[At(i + 1 - 1)]
      BY <1>3, <3>1
    <3> QED BY <1>1, <2>2, <2>3, <3>1, <3>2
  <2>4. CASE ~(i < k)
    <3>1. \A m \in 0 .. k : m \in Indices /\ m # i + 1
      BY <2>4, <1>4, SizesAreSet DEF Indices
    <3>2. \A m \in 0 .. k : At(i + 1) # At(m)
      BY <1>1, <2>1, <3>1, AtDiffers
    <3>3. slots'[At(i + 1)] = slots[At(i + 1)]
      BY <1>3, <2>2, <3>2
    <3> QED BY <1>1, <2>2, <2>4, <3>3
  <2> QED BY <2>3, <2>4, <1>1, SizesAreSet
<1>7. QueueHeld'
  <2> SUFFICES ASSUME NEW i \in 0 .. count - 2
               PROVE  /\ slots'[(head' + i) % Capacity].buf \in Buffers
                      /\ slots'[(head' + i) % Capacity].frame \in Frames
    BY <1>1, <1>5 DEF QueueHeld, At
  <2> QED BY <1>6 DEF RingInv, QueueHeld
<1>8. OwnersDiffer'
  <2> SUFFICES ASSUME NEW i \in Indices, NEW j \in Indices,
                      i # j, slots'[i].buf # None
               PROVE  slots'[i].buf # slots'[j].buf
    BY DEF OwnersDiffer
  <2> DEFINE Outside(n) == \A m \in 0 .. k : n # At(m)
  <2>1. i # head
    BY <1>3
  <2>2. ASSUME NEW n \in Indices, n # head
        PROVE  Outside(n) \/ \E m \in 1 .. k : n = At(m)
    BY <1>1, <2>2, AtEnds DEF Indices
  <2>3. ASSUME NEW n \in Indices, n # head
        PROVE  \E p \in Indices :
                   /\ slots'[n] = slots[p]
                   /\ \/ Outside(n) /\ p = n
                      \/ \E m \in 1 .. k : n = At(m) /\ p = At(m - 1)
    <3>1. CASE Outside(n)
      BY <1>3, <3>1
    <3>2. ASSUME NEW m \in 1 .. k, n = At(m)
          PROVE  At(m - 1) \in Indices /\ slots'[n] = slots[At(m - 1)]
      <4>1. m - 1 \in 0 .. Capacity
        BY SizesAreSet DEF Indices
      <4> QED BY <1>1, <1>3, <3>2, <4>1, AtIs
    <3> HIDE DEF Outside
    <3> QED BY <1>1, <2>2, <2>3, <3>1, <3>2
  <2>4. CASE j = head
    BY <1>3, <2>4
  <2>5. CASE j # head
    <3>1. PICK p \in Indices :
              /\ slots'[i] = slots[p]
              /\ \/ Outside(i) /\ p = i
                 \/ \E m \in 1 .. k : i = At(m) /\ p = At(m - 1)
      BY <2>1, <2>3
    <3>2. PICK q \in Indices :
              /\ slots'[j] = slots[q]
              /\ \/ Outside(j) /\ q = j
                 \/ \E m \in 1 .. k : j = At(m) /\ q = At(m - 1)
      BY <2>5, <2>3
    <3>3. p # q
      <4>1. CASE Outside(i) /\ p = i /\ Outside(j) /\ q = j
        BY <4>1
      <4>2. ASSUME NEW m \in 1 .. k, i = At(m), p = At(m - 1), Outside(j), q = j
            PROVE  p # q
        BY <4>2 DEF Indices
      <4>3. ASSUME NEW m \in 1 .. k, j = At(m), q = At(m - 1), Outside(i), p = i
            PROVE  p # q
        BY <4>3 DEF Indices
      <4>4. ASSUME NEW m \in 1 .. k, i = At(m), p = At(m - 1),
                   NEW n \in 1 .. k, j = At(n), q = At(n - 1)
            PROVE  p # q
        <5>1. m # n /\ m - 1 # n - 1 /\ m - 1 \in Indices /\ n - 1 \in Indices
          BY <4>4, SizesAreSet DEF Indices
        <5> QED BY <1>1, <4>4, <5>1, AtDiffers
      <4> HIDE DEF Outside
      <4> QED BY <3>1, <3>2, <4>1, <4>2, <4>3, <4>4
    <3> QED BY <3>1, <3>2, <3>3 DEF RingInv, OwnersDiffer
  <2> QED BY <2>4, <2>5
<1>9. \A i \in 0 .. count - 2 :
          slots'[(head' + i) % Capacity].frame =
              IF i < k THEN slots[At(i)].frame ELSE slots[At(i + 1)].frame
  BY <1>6
<1> QED BY <1>2, <1>4, <1>5, <1>7, <1>8, <1>9 DEF RingInv

-----------------------------------------------------------------------------
(* The invariant *)

\* The types of what is not the ring.
HandsOK ==
    /\ pc \in {"off", "pull", "push", "drop", "dropKey", "store"}
    /\ frame \in Frames \cup {None}
    /\ dropping \in BOOLEAN
    /\ produced \in 0 .. MaxFrames
    /\ running \in BOOLEAN
    /\ held \in {None} \cup [buf : Buffers, frame : Frames]

\* The invariant, sorted by whom it is about.
LEMMA IInvParts ==
    /\ IInv <=> RingInv /\ HandsOK /\ InHand /\ RoomMade
    /\ IInv' <=> RingInv' /\ HandsOK' /\ InHand' /\ RoomMade'
BY DEF IInv, RingInv, RingOK, HandsOK, TypeOK, Slot, At

\* An empty ring has the invariant.
LEMMA InitInv == Init => IInv
<1> SUFFICES ASSUME Init PROVE RingInv /\ HandsOK /\ InHand /\ RoomMade
  BY IInvParts
<1>1. head \in Indices /\ tail = At(count)
  BY SizesAreSet, AtIs DEF Init, Indices
<1>2. [buf |-> None, frame |-> None] \in Slot
  BY DEF Slot
<1>3. RingOK
  BY <1>1, <1>2, SizesAreSet DEF Init, RingOK, Indices
<1>4. QueueHeld /\ OwnersDiffer
  BY DEF Init, QueueHeld, OwnersDiffer
<1>5. HandsOK
  <2>1. dropping \in BOOLEAN /\ running \in BOOLEAN
    BY DEF Init
  <2>2. produced \in 0 .. MaxFrames
    BY SizesAreSet DEF Init
  <2> QED BY <2>1, <2>2 DEF Init, HandsOK
<1>6. InHand /\ RoomMade
  BY DEF Init, InHand, RoomMade
<1> QED BY <1>3, <1>4, <1>5, <1>6 DEF RingInv

\* A step that leaves the ring alone.
LEMMA RingSame == RingInv /\ UNCHANGED ring => RingInv'
BY DEF RingInv, RingOK, QueueHeld, OwnersDiffer, At, ring

\* A place of the queue has to be there for a frame to be dropped from it.
LEMMA SomethingToDrop == RingInv /\ DropFirstNonKey => count > 0
BY SizesAreSet DEF RingInv, RingOK, DropFirstNonKey, IsFirstNonKey, Indices

\* The sender gets a frame, in a buffer, whenever there is one.
LEMMA OldestHeld ==
    ASSUME RingInv, count > 0
    PROVE  slots[head] \in [buf : Buffers, frame : Frames]
<1>1. 0 \in 0 .. count - 1 /\ At(0) = head
  BY AtEnds DEF RingInv, RingOK
<1>2. slots[head].buf \in Buffers /\ slots[head].frame \in Frames /\ slots[head] \in Slot
  BY <1>1 DEF RingInv, RingOK, QueueHeld
<1> QED BY <1>2 DEF Slot

\* Every step of producer and sender keeps it.
LEMMA NextInv == IInv /\ [Next]_vars => IInv'
<1> SUFFICES ASSUME RingInv, HandsOK, InHand, RoomMade, [Next]_vars
             PROVE  RingInv' /\ HandsOK' /\ InHand' /\ RoomMade'
  BY IInvParts
<1> USE DEF HandsOK, InHand, RoomMade, Goto, ring, producer
<1>0. count \in 0 .. Capacity
  BY DEF RingInv, RingOK
<1>1. ASSUME NEW key \in BOOLEAN, Deliver(key)
      PROVE  RingInv' /\ HandsOK' /\ InHand' /\ RoomMade'
  <2>1. frame' \in Frames /\ produced' \in 0 .. MaxFrames
    BY <1>1, SizesAreSet DEF Deliver, Frames
  <2> QED BY <1>1, <2>1, RingSame DEF Deliver
<1>2. CASE LoopEnds
  BY <1>2, RingSame DEF LoopEnds
<1>3. CASE SkipNonKey
  BY <1>3, RingSame DEF SkipNonKey
<1>4. CASE Store
  <2>1. RingInv'
    BY <1>4, PushKeeps DEF Store
  <2> QED BY <1>4, <2>1 DEF Store
<1>5. CASE StartDropping
  BY <1>5, RingSame DEF StartDropping
<1>6. CASE MakeRoom
  BY <1>6, RingSame DEF MakeRoom
<1>7. CASE MakeRoomOfNonKey
  <2>1. RingInv' /\ count' < Capacity
    BY <1>7, LeavesFirstNonKey, SomethingToDrop DEF MakeRoomOfNonKey
  <2> QED BY <1>7, <2>1 DEF MakeRoomOfNonKey
<1>8. CASE NothingButKeys
  BY <1>8, RingSame DEF NothingButKeys
<1>9. CASE MakeRoomOfKey
  <2>1. RingInv' /\ count' < Capacity
    <3>1. CASE count > 0
      BY <1>9, <3>1, LeavesOldest DEF MakeRoomOfKey, DropOldest
    <3>2. CASE ~(count > 0)
      BY <1>0, <1>9, <3>2, RingSame, SizesAreSet DEF MakeRoomOfKey
    <3> QED BY <3>1, <3>2
  <2> QED BY <1>9, <2>1 DEF MakeRoomOfKey
<1>10. CASE StoreKey
  <2>1. RingInv'
    BY <1>10, PushKeeps DEF StoreKey
  <2> QED BY <1>10, <2>1 DEF StoreKey
<1>11. CASE Start
  BY <1>11, RingSame DEF Start
<1>12. CASE Stop
  BY <1>12, RingSame DEF Stop
<1>13. CASE Pull
  BY <1>13, RingSame, OldestHeld DEF Pull
<1>14. CASE Release
  <2>1. RingInv' /\ (pc = "store" => count' < Capacity)
    <3>1. CASE count > 0
      BY <1>14, <3>1, LeavesOldest DEF Release
    <3>2. CASE ~(count > 0)
      BY <1>0, <1>14, <3>2, RingSame, SizesAreSet DEF Release
    <3> QED BY <3>1, <3>2
  <2> QED BY <1>14, <2>1 DEF Release
<1>15. CASE GiveUp
  BY <1>15, RingSame DEF GiveUp
<1>16. CASE UNCHANGED vars
  BY <1>16, RingSame DEF vars
<1> QED BY <1>1, <1>2, <1>3, <1>4, <1>5, <1>6, <1>7, <1>8, <1>9, <1>10, <1>11, <1>12,
           <1>13, <1>14, <1>15, <1>16 DEF Next, Producer, EventLoop

-----------------------------------------------------------------------------
(* The queue the ring stands for *)

\* The queue, now and after a step, is a sequence of frames.
LEMMA QueueIs ==
    /\ RingInv => /\ Queue \in Seq(Frames) /\ Len(Queue) = count /\ count \in Nat
                  /\ \A i \in 1 .. count : Queue[i] = slots[At(i - 1)].frame
    /\ RingInv' => /\ Queue' \in Seq(Frames) /\ Len(Queue') = count' /\ count' \in Nat
                   /\ \A i \in 1 .. count' :
                          Queue'[i] = slots'[(head' + (i - 1)) % Capacity].frame
<1>1. ASSUME RingInv
      PROVE  /\ Queue \in Seq(Frames) /\ Len(Queue) = count /\ count \in Nat
             /\ \A i \in 1 .. count : Queue[i] = slots[At(i - 1)].frame
  <2>1. count \in Nat
    BY <1>1, SizesAreSet DEF RingInv, RingOK
  <2>2. \A i \in 1 .. count : slots[At(i - 1)].frame \in Frames
    BY <1>1, <2>1 DEF RingInv, QueueHeld
  <2>3. Queue \in [1 .. count -> Frames]
    BY <2>2 DEF Queue
  <2> QED BY <2>1, <2>3 DEF Queue
<1>2. ASSUME RingInv'
      PROVE  /\ Queue' \in Seq(Frames) /\ Len(Queue') = count' /\ count' \in Nat
             /\ \A i \in 1 .. count' : Queue'[i] = slots'[(head' + (i - 1)) % Capacity].frame
  <2>1. count' \in Nat
    BY <1>2, SizesAreSet DEF RingInv, RingOK
  <2>2. \A i \in 0 .. count' - 1 : slots'[(head' + i) % Capacity].frame \in Frames
    BY <1>2, <2>1 DEF RingInv, QueueHeld, At
  <2>3. ASSUME NEW i \in 1 .. count'
        PROVE  slots'[(head' + (i - 1)) % Capacity].frame \in Frames
    <3>1. \A n \in Nat : \A j \in 1 .. n : j - 1 \in 0 .. n - 1
      OBVIOUS
    <3>2. i - 1 \in 0 .. count' - 1
      BY <2>1, <3>1
    <3> QED BY <2>2, <3>2
  <2>4. Queue' = [i \in 1 .. count' |-> slots'[(head' + (i - 1)) % Capacity].frame]
    BY DEF Queue, At
  <2>5. Queue' \in [1 .. count' -> Frames]
    BY <2>3, <2>4
  <2> QED BY <2>1, <2>4, <2>5
<1> QED BY <1>1, <1>2

\* A push is an entry at the end.
LEMMA PushEnters ==
    ASSUME RingInv, NEW f \in Frames, Push(f)
    PROVE  /\ Abstract!Enter
           /\ count' \in 1 .. Len(Queue') /\ Queue'[count'] = f
<1>1. /\ RingInv' /\ count' = count + 1 /\ head' = head
      /\ \A i \in 0 .. count - 1 : slots'[At(i)] = slots[At(i)]
      /\ slots'[At(count)].frame = f
  BY PushKeeps
<1>2. /\ Queue \in Seq(Frames) /\ Len(Queue) = count /\ count \in Nat
      /\ Queue' \in Seq(Frames) /\ Len(Queue') = count + 1
      /\ \A i \in 1 .. count : Queue[i] = slots[At(i - 1)].frame
      /\ \A i \in 1 .. count + 1 : Queue'[i] = slots'[At(i - 1)].frame
  BY <1>1, QueueIs DEF At
<1>3. Queue'[count + 1] = f
  BY <1>1, <1>2
<1>4. Queue' = Append(Queue, f)
  <2>1. Len(Append(Queue, f)) = Len(Queue') /\ Append(Queue, f) \in Seq(Frames)
    BY <1>2, AppendProperties
  <2>2. ASSUME NEW i \in 1 .. Len(Queue') PROVE Queue'[i] = Append(Queue, f)[i]
    <3>1. CASE i = count + 1
      BY <1>2, <1>3, <3>1, AppendProperties
    <3>2. CASE i # count + 1
      <4>1. i \in 1 .. count /\ i - 1 \in 0 .. count - 1
        BY <1>2, <3>2
      <4>2. Append(Queue, f)[i] = Queue[i]
        BY <1>2, <4>1, AppendProperties
      <4> QED BY <1>1, <1>2, <4>1, <4>2
    <3> QED BY <3>1, <3>2
  <2> QED BY <1>2, <2>1, <2>2, SeqEqual
<1>5. Len(Queue) < Capacity
  BY <1>2 DEF Push
<1> QED BY <1>1, <1>2, <1>3, <1>4, <1>5 DEF Abstract!Enter

\* A release, or a drop of the oldest, is a departure from the front.
LEMMA OldestLeaves ==
    ASSUME RingInv, count > 0, Advance,
           \/ UNCHANGED slots
           \/ slots' = [slots EXCEPT ![head].buf = None]
    PROVE  Abstract!LeaveOldest
<1>1. /\ RingInv' /\ count' = count - 1
      /\ \A i \in 0 .. count - 2 :
             slots'[(head' + i) % Capacity].frame = slots[At(i + 1)].frame
  BY LeavesOldest
<1>2. /\ Queue \in Seq(Frames) /\ Len(Queue) = count /\ count \in Nat
      /\ Queue' \in Seq(Frames) /\ Len(Queue') = count - 1
      /\ \A i \in 1 .. count : Queue[i] = slots[At(i - 1)].frame
      /\ \A i \in 1 .. count - 1 : Queue'[i] = slots'[(head' + (i - 1)) % Capacity].frame
  BY <1>1, QueueIs
<1>3. Queue # <<>>
  BY <1>2
<1>4. /\ Tail(Queue) \in Seq(Frames) /\ Len(Tail(Queue)) = count - 1
      /\ \A i \in 1 .. count - 1 : Tail(Queue)[i] = Queue[i + 1]
  BY <1>2, <1>3, HeadTailProperties
<1>5. ASSUME NEW i \in 1 .. count - 1 PROVE Queue'[i] = Tail(Queue)[i]
  <2>1. i - 1 \in 0 .. count - 2 /\ i - 1 + 1 = i /\ i + 1 \in 1 .. count /\ i + 1 - 1 = i
    BY <1>2
  <2>2. slots'[(head' + (i - 1)) % Capacity].frame = slots[At(i - 1 + 1)].frame
    BY <1>1, <2>1
  <2>3. Queue[i + 1] = slots[At(i + 1 - 1)].frame
    BY <1>2, <2>1
  <2> QED BY <1>2, <1>4, <2>1, <2>2, <2>3
<1>6. Queue' = Tail(Queue)
  BY <1>2, <1>4, <1>5, SeqEqual
<1> QED BY <1>3, <1>6 DEF Abstract!LeaveOldest

\* What is left of a sequence without its n-th element.
LEMMA RemoveAtIs ==
    ASSUME NEW S, NEW s \in Seq(S), NEW n \in 1 .. Len(s)
    PROVE  /\ Abstract!RemoveAt(s, n) \in Seq(S)
           /\ Len(Abstract!RemoveAt(s, n)) = Len(s) - 1
           /\ \A i \in 1 .. Len(s) - 1 :
                  Abstract!RemoveAt(s, n)[i] = IF i < n THEN s[i] ELSE s[i + 1]
<1> DEFINE a == SubSeq(s, 1, n - 1)
           b == SubSeq(s, n + 1, Len(s))
<1>1. Len(s) \in Nat /\ \A i \in 1 .. Len(s) : s[i] \in S
  BY ElementOfSeq, LenProperties
<1>2. /\ a \in Seq(S) /\ Len(a) = n - 1
      /\ \A i \in 1 .. n - 1 : a[i] = s[i]
  <2>1. 1 \in Int /\ n - 1 \in Int /\ \A i \in 1 .. n - 1 : s[i] \in S
    BY <1>1
  <2>2. /\ a \in Seq(S) /\ Len(a) = IF 1 <= n - 1 THEN n - 1 - 1 + 1 ELSE 0
        /\ \A i \in 1 .. n - 1 - 1 + 1 : a[i] = s[1 + i - 1]
    BY <2>1, SubSeqProperties
  <2> QED BY <1>1, <2>2
<1>3. /\ b \in Seq(S) /\ Len(b) = Len(s) - n
      /\ \A i \in 1 .. Len(s) - n : b[i] = s[n + i]
  <2>1. n + 1 \in Int /\ Len(s) \in Int /\ \A i \in n + 1 .. Len(s) : s[i] \in S
    BY <1>1
  <2>2. /\ b \in Seq(S) /\ Len(b) = IF n + 1 <= Len(s) THEN Len(s) - (n + 1) + 1 ELSE 0
        /\ \A i \in 1 .. Len(s) - (n + 1) + 1 : b[i] = s[n + 1 + i - 1]
    BY <2>1, SubSeqProperties
  <2> QED BY <1>1, <2>2
<1> HIDE DEF a, b
<1>4. /\ a \o b \in Seq(S) /\ Len(a \o b) = Len(a) + Len(b)
      /\ \A i \in 1 .. Len(a) + Len(b) :
             (a \o b)[i] = IF i <= Len(a) THEN a[i] ELSE b[i - Len(a)]
  BY <1>2, <1>3, ConcatProperties
<1>5. Len(a \o b) = Len(s) - 1
  BY <1>1, <1>2, <1>3, <1>4
<1>6. ASSUME NEW i \in 1 .. Len(s) - 1
      PROVE  (a \o b)[i] = IF i < n THEN s[i] ELSE s[i + 1]
  <2>1. i \in 1 .. Len(a) + Len(b)
    BY <1>1, <1>2, <1>3
  <2>2. CASE i < n
    BY <1>1, <1>2, <1>4, <2>1, <2>2
  <2>3. CASE ~(i < n)
    <3>1. i - (n - 1) \in 1 .. Len(s) - n /\ n + (i - (n - 1)) = i + 1
      BY <1>1, <2>3
    <3>2. (a \o b)[i] = b[i - (n - 1)]
      BY <1>1, <1>2, <1>4, <2>1, <2>3
    <3>3. b[i - (n - 1)] = s[n + (i - (n - 1))]
      BY <1>3, <3>1
    <3> QED BY <2>3, <3>1, <3>2, <3>3
  <2> QED BY <2>2, <2>3
<1>7. Abstract!RemoveAt(s, n) = a \o b
  BY DEF Abstract!RemoveAt, a, b
<1> QED BY <1>4, <1>5, <1>6, <1>7

\* The shift of dropFirstNonKeyFrame is the departure of the oldest frame that
\* is not a key frame.
LEMMA FirstNonKeyLeaves ==
    ASSUME RingInv, count > 0, DropFirstNonKey
    PROVE  Abstract!LeaveFirstNonKey
<1>1. PICK k \in 0 .. count - 1 :
          /\ IsFirstNonKey(k)
          /\ \A i \in 0 .. count - 2 :
                 slots'[(head' + i) % Capacity].frame =
                     IF i < k THEN slots[At(i)].frame ELSE slots[At(i + 1)].frame
  BY LeavesFirstNonKey
<1>2. /\ Queue \in Seq(Frames) /\ Len(Queue) = count /\ count \in Nat
      /\ Queue' \in Seq(Frames) /\ Len(Queue') = count - 1
      /\ \A i \in 1 .. count : Queue[i] = slots[At(i - 1)].frame
      /\ \A i \in 1 .. count - 1 : Queue'[i] = slots'[(head' + (i - 1)) % Capacity].frame
  BY LeavesFirstNonKey, QueueIs
<1> DEFINE n == k + 1
<1>3. n \in 1 .. Len(Queue) /\ n - 1 = k
  BY <1>2
<1>4. ~Queue[n].key
  BY <1>1, <1>2, <1>3 DEF IsFirstNonKey
<1>5. \A j \in 1 .. n - 1 : Queue[j].key
  <2> SUFFICES ASSUME NEW j \in 1 .. k PROVE Queue[j].key
    BY <1>3
  <2>1. j - 1 \in 0 .. k - 1 /\ j \in 1 .. count
    BY <1>2
  <2> QED BY <1>1, <1>2, <2>1 DEF IsFirstNonKey
<1>6. Queue' = Abstract!RemoveAt(Queue, n)
  <2> DEFINE r == Abstract!RemoveAt(Queue, n)
  <2>1. /\ r \in Seq(Frames) /\ Len(r) = count - 1
        /\ \A i \in 1 .. count - 1 : r[i] = IF i < n THEN Queue[i] ELSE Queue[i + 1]
    BY <1>2, <1>3, RemoveAtIs
  <2> HIDE DEF r
  <2>2. ASSUME NEW i \in 1 .. count - 1 PROVE Queue'[i] = r[i]
    <3>1. /\ i - 1 \in 0 .. count - 2 /\ i - 1 + 1 = i
          /\ i \in 1 .. count /\ i + 1 \in 1 .. count /\ i + 1 - 1 = i
          /\ (i < n <=> i - 1 < k)
      BY <1>2
    <3>2. slots'[(head' + (i - 1)) % Capacity].frame =
              IF i - 1 < k THEN slots[At(i - 1)].frame ELSE slots[At(i - 1 + 1)].frame
      BY <1>1, <3>1
    <3>3. Queue[i] = slots[At(i - 1)].frame /\ Queue[i + 1] = slots[At(i + 1 - 1)].frame
      BY <1>2, <3>1
    <3> HIDE DEF n
    <3> QED BY <1>2, <2>1, <3>1, <3>2, <3>3
  <2>3. Queue' = r
    BY <1>2, <2>1, <2>2, SeqEqual
  <2> QED BY <2>3 DEF r
<1> HIDE DEF n
<1> QED BY <1>3, <1>4, <1>5, <1>6 DEF Abstract!LeaveFirstNonKey

\* The empty ring is the empty queue.
LEMMA InitMaps == Init => Abstract!Init
<1> SUFFICES ASSUME Init PROVE Queue = <<>>
  BY DEF Abstract!Init
<1>1. Queue \in Seq(Frames) /\ Len(Queue) = 0
  BY InitInv, IInvParts, QueueIs DEF Init
<1> QED BY <1>1, EmptySeq

\* A step that leaves the ring alone leaves the queue alone.
LEMMA SameQueue == UNCHANGED ring => Queue' = Queue
BY DEF ring, Queue, At

\* Every step is one of the queue's, or leaves it as it is.
LEMMA NextMaps == IInv /\ [Next]_vars => [Abstract!Next]_Queue
<1> SUFFICES ASSUME RingInv, HandsOK, InHand, [Next]_vars
             PROVE  Abstract!Next \/ Queue' = Queue
  BY IInvParts
<1> USE DEF InHand, producer
<1>0. count \in 0 .. Capacity
  BY DEF RingInv, RingOK
<1>1. ASSUME NEW key \in BOOLEAN, Deliver(key) PROVE Queue' = Queue
  BY <1>1, SameQueue DEF Deliver
<1>2. CASE LoopEnds \/ SkipNonKey \/ StartDropping \/ MakeRoom \/ NothingButKeys
  BY <1>2, SameQueue DEF LoopEnds, SkipNonKey, StartDropping, MakeRoom, NothingButKeys
<1>3. CASE Store
  BY <1>3, PushEnters DEF Store, Abstract!Next
<1>4. CASE StoreKey
  BY <1>4, PushEnters DEF StoreKey, Abstract!Next
<1>5. CASE MakeRoomOfNonKey
  BY <1>5, SomethingToDrop, FirstNonKeyLeaves DEF MakeRoomOfNonKey, Abstract!Next
<1>6. CASE MakeRoomOfKey
  <2>1. CASE count > 0
    BY <1>6, <2>1, OldestLeaves DEF MakeRoomOfKey, DropOldest, Abstract!Next
  <2>2. CASE ~(count > 0)
    BY <1>6, <2>2, SameQueue DEF MakeRoomOfKey
  <2> QED BY <2>1, <2>2
<1>7. CASE Start \/ Stop \/ Pull \/ GiveUp
  BY <1>7, SameQueue DEF Start, Stop, Pull, GiveUp
<1>8. CASE Release
  <2>1. CASE count > 0
    BY <1>8, <2>1, OldestLeaves DEF Release, Abstract!Next
  <2>2. CASE ~(count > 0)
    BY <1>8, <2>2, SameQueue DEF Release
  <2> QED BY <2>1, <2>2
<1>9. CASE UNCHANGED vars
  BY <1>9, SameQueue DEF vars
<1> QED BY <1>1, <1>2, <1>3, <1>4, <1>5, <1>6, <1>7, <1>8, <1>9
        DEF Next, Producer, EventLoop

\* The producer goes back for the next frame only after a key frame has got in.
LEMMA NextKeyFrameEnters ==
    ASSUME IInv, [Next]_vars, pc \notin {"off", "pull"}, pc' = "pull", frame.key
    PROVE  Queue' # <<>> /\ Queue'[count'] = frame
<1> USE DEF Goto
<1>1. RingInv /\ frame \in Frames
  BY IInvParts DEF InHand
<1>2. Store \/ StoreKey
  BY DEF Next, Producer, EventLoop, Deliver, LoopEnds, SkipNonKey, StartDropping, MakeRoom,
         MakeRoomOfNonKey, NothingButKeys, MakeRoomOfKey, Start, Stop, Pull, Release, GiveUp,
         producer, vars
<1>3. Push(frame)
  BY <1>2 DEF Store, StoreKey
<1>4. count' \in 1 .. Len(Queue') /\ Queue'[count'] = frame
  BY <1>1, <1>3, PushEnters
<1>5. Queue' # <<>>
  <2>1. RingInv'
    BY <1>1, <1>3, PushKeeps
  <2>2. Len(Queue') \in Nat /\ Queue' \in Seq(Frames)
    BY <2>1, QueueIs
  <2>3. Len(Queue') # 0
    BY <1>4, <2>2
  <2> QED BY <2>3
<1> QED BY <1>4, <1>5

-----------------------------------------------------------------------------
(* The theorems *)

\* It holds throughout.
LEMMA InvHolds == Spec => []IInv
<1> QED BY InitInv, NextInv, PTL DEF Spec

\* Whatever the order of the producer's and the sender's steps, the indices
\* stay those of a ring and the sender has a frame in a buffer in its hands or
\* nothing (MediaFIFO.cpp, MediaSession.cpp pullDataInternal).
THEOREM TypesHold == Spec => []TypeOK
<1>1. IInv => TypeOK
  BY DEF IInv
<1> QED BY InvHolds, <1>1, PTL

\* No buffer is ever owned by two slots, however the ring wraps and whatever is
\* shifted (MediaFIFO.cpp push, dropFirstNonKeyFrame).
THEOREM BuffersAreOwnedOnce == Spec => []OwnersDiffer
<1>1. IInv => OwnersDiffer
  BY DEF IInv
<1> QED BY InvHolds, <1>1, PTL

\* The ring implements the queue of frames: whatever its size, frames leave in
\* the order they entered but for the non-key frames dropped first
\* (MediaFIFO.cpp push, release, dropOldest, dropFirstNonKeyFrame).
THEOREM RingImplementsQueue == Spec => RingIsQueue
<1> QED BY InvHolds, InitMaps, NextMaps, PTL DEF Spec, RingIsQueue, Abstract!Spec

\* However full the ring was, the key frame the producer worked on is the
\* youngest of the queue when it turns to the next one (MediaSession.cpp
\* producerLoop).
THEOREM KeyFramesGetIn == Spec => KeyFrameEnters
<1>1. IInv /\ [Next]_vars =>
          [(pc \notin {"off", "pull"} /\ pc' = "pull" /\ frame.key) =>
               (Queue' # <<>> /\ Queue'[count'] = frame)]_vars
  BY NextKeyFrameEnters
<1> QED BY InvHolds, <1>1, PTL DEF Spec, KeyFrameEnters
==============================================================================
