-------------------------- MODULE RtspPreviewProofs --------------------------
(***************************************************************************)
(* What holds of the preview for any clients, sessions, streams and times. *)
(*                                                                         *)
(* The invariant: a client that has not given the preview back by session  *)
(* id 0 has streams that play, and starts put off, only for the active     *)
(* session, and media that run are counted.  The first two support each    *)
(* other, because the start that is put off sets the stream playing        *)
(* without looking at the active session.                                  *)
(***************************************************************************)
EXTENDS RtspPreview, TLAPS

\* A start is put off only for the active session (rtsp.c Client_play, which
\* reserves the session before it schedules the start), with the same
\* exception.
DeferredIsActive ==
    \A c \in Clients \ zeroed : deferred[c] # None => active = ActiveOf(c, deferred[c])

IInv ==
    /\ TypeOK
    /\ StreamingIsActive
    /\ DeferredIsActive
    /\ WatchedIsCounted

-----------------------------------------------------------------------------
(* What the helpers return *)

\* What a call of onSessionPlay may leave: values of their types, and media
\* that run are counted.
Counts(r) ==
    /\ r.media \in BOOLEAN /\ r.count \in Nat /\ r.idle \in -1 .. Timeout
    /\ r.media => r.count > 0

\* onSessionPlay counts the media it finds running or starts.
LEMMA AfterPlayCounts ==
    ASSUME TypeOK, NEW r \in AfterOnSessionPlay
    PROVE  Counts(r)
<1>1. count \in Nat /\ idleAge \in -1 .. Timeout /\ -1 \in -1 .. Timeout
  BY TimesAreSet DEF TypeOK
<1>2. \/ r = [media |-> TRUE, count |-> count + 1, idle |-> -1]
      \/ r = [media |-> FALSE, count |-> count, idle |-> idleAge]
  BY Zenon DEF AfterOnSessionPlay
<1>3. CASE r = [media |-> TRUE, count |-> count + 1, idle |-> -1]
  BY <1>1, <1>3 DEF Counts
<1>4. CASE r = [media |-> FALSE, count |-> count, idle |-> idleAge]
  BY <1>1, <1>4 DEF Counts
<1> QED BY <1>2, <1>3, <1>4

\* So does the PLAY handler, which leaves all alone if the session plays.
LEMMA OnPlayCounts ==
    ASSUME TypeOK, WatchedIsCounted, NEW c, NEW s, NEW r \in OnPlay(c, s)
    PROVE  Counts(r)
<1>1. CASE Playing(c, s)
  <2>1. r = [media |-> media, count |-> count, idle |-> idleAge]
    BY <1>1 DEF OnPlay
  <2>2. media \in BOOLEAN /\ count \in Nat /\ idleAge \in -1 .. Timeout
    BY DEF TypeOK
  <2> QED BY <2>1, <2>2 DEF Counts, WatchedIsCounted
<1>2. CASE ~Playing(c, s)
  BY <1>2, AfterPlayCounts DEF OnPlay
<1> QED BY <1>1, <1>2

\* onRtspDisconnect keeps the counter a natural number.
LEMMA OneLessType ==
    ASSUME NEW n \in Nat
    PROVE  OneLess(n) \in Nat
BY DEF OneLess

LEMMA InitInv == Init => IInv
<1> SUFFICES ASSUME Init PROVE IInv
  OBVIOUS
<1>1. TypeOK
  <2>1. Unset \in [session : Ids, on : BOOLEAN]
    BY DEF Unset, Ids
  <2>2. streams \in [Clients -> [Streams -> [session : Ids, on : BOOLEAN]]]
    BY <2>1 DEF Init
  <2>3. idleAge \in -1 .. Timeout /\ httpAge \in 0 .. Window /\ plays \in 0 .. MaxPlays
    BY TimesAreSet, BoundIsSet DEF Init
  <2>4. deferred \in [Clients -> Ids]
    BY DEF Init, Ids
  <2> QED BY <2>2, <2>3, <2>4 DEF Init, TypeOK
<1>2. StreamingIsActive /\ DeferredIsActive /\ WatchedIsCounted
  BY DEF Init, StreamingIsActive, DeferredIsActive, WatchedIsCounted, Unset
<1> QED BY <1>1, <1>2 DEF IInv

-----------------------------------------------------------------------------
(* The steps *)

\* Types and the count of the media, one action at a time.
LEMMA NextType ==
    TypeOK /\ WatchedIsCounted /\ [Next]_vars => TypeOK' /\ WatchedIsCounted'
<1> SUFFICES ASSUME TypeOK, WatchedIsCounted, [Next]_vars PROVE TypeOK' /\ WatchedIsCounted'
  OBVIOUS
<1>a. /\ open \subseteq Clients
      /\ streams \in [Clients -> [Streams -> [session : Ids, on : BOOLEAN]]]
      /\ deferred \in [Clients -> Ids]
      /\ active \in (Clients \X Sessions) \cup {None}
      /\ media \in BOOLEAN /\ count \in Nat
      /\ httpNew \in BOOLEAN /\ httpAge \in 0 .. Window
      /\ idleAge \in -1 .. Timeout /\ decided \in BOOLEAN
      /\ phase \in {"serving", "leaving", "paused", "halted", "off"}
      /\ plays \in 0 .. MaxPlays /\ zeroed \subseteq Clients
      /\ media => count > 0
  BY DEF TypeOK, WatchedIsCounted
<1> DEFINE Goal == TypeOK' /\ WatchedIsCounted'
<1>1. ASSUME NEW c \in Clients, Connect(c) PROVE Goal
  BY <1>1, <1>a DEF Connect, otherVars, TypeOK, WatchedIsCounted
<1>2. ASSUME NEW c \in Clients, Close(c) PROVE Goal
  <2>1. /\ active' \in (Clients \X Sessions) \cup {None} /\ media' \in BOOLEAN /\ count' \in Nat
        /\ media' => count' > 0
    BY <1>2, <1>a, OneLessType DEF Close, ReleaseAndNotify
  <2>2. streams' \in [Clients -> [Streams -> [session : Ids, on : BOOLEAN]]]
    BY <1>2, <1>a DEF Close, Unset, Ids
  <2>3. deferred' \in [Clients -> Ids]
    BY <1>2, <1>a DEF Close, Ids
  <2> QED BY <1>2, <1>a, <2>1, <2>2, <2>3 DEF Close, otherVars, TypeOK, WatchedIsCounted
<1>3. ASSUME NEW c \in Clients, NEW s \in Ids, Play(c, s) PROVE Goal
  <2>1. PICK r \in OnPlay(c, s) : media' = r.media /\ count' = r.count /\ idleAge' = r.idle
    BY <1>3 DEF Play
  <2>2. /\ media' \in BOOLEAN /\ count' \in Nat /\ idleAge' \in -1 .. Timeout
        /\ media' => count' > 0
    BY <2>1, OnPlayCounts DEF Counts
  <2>3. active' \in (Clients \X Sessions) \cup {None}
    BY <1>3, <1>a DEF Play, ActiveOf, Ids
  <2>4. plays' \in 0 .. MaxPlays
    BY <1>3, <1>a, BoundIsSet DEF Play, Granted
  <2>5. deferred' \in [Clients -> Ids]
    BY <1>3, <1>a DEF Play, Ids
  <2> QED BY <1>3, <1>a, <2>2, <2>3, <2>4, <2>5 DEF Play, otherVars, TypeOK, WatchedIsCounted
<1>4. ASSUME NEW c \in Clients, NEW s \in Ids, PlayUnanswered(c, s) PROVE Goal
  <2>1. PICK r \in OnPlay(c, s) :
            /\ idleAge' = r.idle
            /\ \/ media' = FALSE /\ count' = OneLess(r.count)
               \/ media' = r.media /\ count' = r.count
    BY <1>4, Zenon DEF PlayUnanswered
  <2>2. /\ media' \in BOOLEAN /\ count' \in Nat /\ idleAge' \in -1 .. Timeout
        /\ media' => count' > 0
    BY <2>1, OnPlayCounts, OneLessType DEF Counts
  <2>3. plays' \in 0 .. MaxPlays
    BY <1>4, <1>a, BoundIsSet DEF PlayUnanswered, Granted
  <2> QED BY <1>4, <1>a, <2>2, <2>3 DEF PlayUnanswered, otherVars, TypeOK, WatchedIsCounted
<1>5. ASSUME NEW c \in Clients, NEW s \in Ids, Teardown(c, s) PROVE Goal
  <2>1. /\ active' \in (Clients \X Sessions) \cup {None} /\ media' \in BOOLEAN /\ count' \in Nat
        /\ media' => count' > 0
    BY <1>5, <1>a, OneLessType DEF Teardown, ReleaseAndNotify
  <2>2. streams' \in [Clients -> [Streams -> [session : Ids, on : BOOLEAN]]]
    <3> DEFINE Off(t) == IF streams[c][t].session = s THEN Unset ELSE streams[c][t]
    <3>1. \A t \in Streams : Off(t) \in [session : Ids, on : BOOLEAN]
      BY <1>a DEF Unset, Ids
    <3>2. [t \in Streams |-> Off(t)] \in [Streams -> [session : Ids, on : BOOLEAN]]
      BY <3>1
    <3>3. streams' = [streams EXCEPT ![c] = [t \in Streams |-> Off(t)]]
      BY <1>5, Zenon DEF Teardown
    <3> HIDE DEF Off
    <3> QED BY <1>a, <3>2, <3>3
  <2>3. deferred' \in [Clients -> Ids]
    BY <1>5, <1>a DEF Teardown, Ids
  <2>4. zeroed' \subseteq Clients
    BY <1>5, <1>a DEF Teardown
  <2> QED BY <1>5, <1>a, <2>1, <2>2, <2>3, <2>4 DEF Teardown, otherVars, TypeOK, WatchedIsCounted
<1>6. ASSUME NEW c \in Clients, NEW t \in Streams, NEW s \in Ids, Setup(c, t, s) PROVE Goal
  <2>1. streams' \in [Clients -> [Streams -> [session : Ids, on : BOOLEAN]]]
    BY <1>6, <1>a DEF Setup
  <2> QED BY <1>6, <1>a, <2>1 DEF Setup, otherVars, TypeOK, WatchedIsCounted
<1>7. ASSUME NEW c \in Clients, DeferredPlay(c) PROVE Goal
  <2>1. /\ media' \in BOOLEAN /\ count' \in Nat /\ idleAge' \in -1 .. Timeout
        /\ media' => count' > 0
    <3>1. CASE Playing(c, deferred[c])
      BY <1>7, <3>1, <1>a DEF DeferredPlay
    <3>2. CASE ~Playing(c, deferred[c])
      <4>1. PICK r \in AfterOnSessionPlay :
                media' = r.media /\ count' = r.count /\ idleAge' = r.idle
        BY <1>7, <3>2 DEF DeferredPlay
      <4> QED BY <4>1, AfterPlayCounts DEF Counts
    <3> QED BY <3>1, <3>2
  <2>2. streams' \in [Clients -> [Streams -> [session : Ids, on : BOOLEAN]]]
    <3> DEFINE On(t) == [session |-> streams[c][t].session,
                         on |-> streams[c][t].on \/ streams[c][t].session = deferred[c]]
    <3>1. \A t \in Streams : On(t) \in [session : Ids, on : BOOLEAN]
      BY <1>a
    <3>2. [t \in Streams |-> On(t)] \in [Streams -> [session : Ids, on : BOOLEAN]]
      BY <3>1
    <3>3. streams' = streams \/ streams' = [streams EXCEPT ![c] = [t \in Streams |-> On(t)]]
      BY <1>7, Zenon DEF DeferredPlay
    <3> HIDE DEF On
    <3> QED BY <1>a, <3>2, <3>3
  <2>3. deferred' \in [Clients -> Ids]
    BY <1>7, <1>a DEF DeferredPlay, Ids
  <2> QED BY <1>7, <1>a, <2>1, <2>2, <2>3 DEF DeferredPlay, otherVars, TypeOK, WatchedIsCounted
<1>8. ASSUME NEW c \in Clients, DeferredTooLate(c) PROVE Goal
  <2>1. deferred' \in [Clients -> Ids] /\ active' \in (Clients \X Sessions) \cup {None}
    BY <1>8, <1>a DEF DeferredTooLate, Ids
  <2> QED BY <1>8, <1>a, <2>1 DEF DeferredTooLate, otherVars, TypeOK, WatchedIsCounted
<1>9. CASE HttpRequest
  BY <1>9, <1>a DEF HttpRequest, sessionVars, TypeOK, WatchedIsCounted
<1>10. CASE Elapse
  <2>1. httpAge' \in 0 .. Window /\ idleAge' \in -1 .. Timeout
    BY <1>10, <1>a, TimesAreSet DEF Elapse
  <2> QED BY <1>10, <1>a, <2>1 DEF Elapse, sessionVars, TypeOK, WatchedIsCounted
<1>11. CASE Turn
  <2>1. decided' \in BOOLEAN
    BY <1>11, Zenon DEF Turn
  <2>2. idleAge' \in -1 .. Timeout /\ httpAge' \in 0 .. Window
    <3>1. IdleAfterTick \in -1 .. Timeout
      BY <1>a, TimesAreSet DEF IdleAfterTick
    <3> QED BY <1>11, <1>a, <3>1, TimesAreSet DEF Turn
  <2>3. phase' \in {"serving", "leaving", "paused", "halted", "off"}
    BY <1>11, <1>a, Zenon DEF Turn
  <2> QED BY <1>11, <1>a, <2>1, <2>2, <2>3 DEF Turn, sessionVars, TypeOK, WatchedIsCounted
<1>12. CASE Signal \/ Leave
  <2>1. CASE Signal
    BY <2>1, <1>a DEF Signal, sessionVars, TypeOK, WatchedIsCounted
  <2>2. CASE StopMedia
    BY <2>2, <1>a DEF StopMedia, TypeOK, WatchedIsCounted
  <2>3. CASE StopServer
    BY <2>3, <1>a DEF StopServer, sessionVars, TypeOK, WatchedIsCounted
  <2>4. CASE Deinitialize
    BY <2>4, <1>a DEF Deinitialize, TypeOK, WatchedIsCounted
  <2> QED BY <1>12, <2>1, <2>2, <2>3, <2>4 DEF Leave
<1>13. CASE UNCHANGED vars
  BY <1>13, <1>a DEF vars, sessionVars, otherVars, TypeOK, WatchedIsCounted
<1> QED
  BY <1>1, <1>2, <1>3, <1>4, <1>5, <1>6, <1>7, <1>8, <1>9, <1>10, <1>11, <1>12, <1>13
  DEF Next, Deferred

\* The steps keep the parts of the invariant that are about sessions.
LEMMA NextInv == IInv /\ [Next]_vars => IInv'
<1> SUFFICES ASSUME IInv, [Next]_vars PROVE IInv'
  OBVIOUS
<1> USE DEF IInv
<1>0. TypeOK' /\ WatchedIsCounted'
  BY NextType
<1> DEFINE Others == StreamingIsActive' /\ DeferredIsActive'
<1>1. ASSUME NEW c \in Clients, Connect(c) PROVE Others
  BY <1>1 DEF Connect, StreamingIsActive, DeferredIsActive
<1>2. ASSUME NEW c \in Clients, Close(c) PROVE Others
  <2>1. /\ \A t \in Streams : ~streams'[c][t].on
        /\ deferred'[c] = None
        /\ \A d \in Clients : d # c =>
               streams'[d] = streams[d] /\ deferred'[d] = deferred[d] /\ (d \in zeroed' <=> d \in zeroed)
    BY <1>2 DEF Close, Unset, TypeOK
  <2>2. CASE Releases(c, None)
    <3>1. PICK r \in Sessions : active = ActiveOf(c, r)
      BY <2>2 DEF Releases
    <3>2. \A d \in Clients \ zeroed : d # c => deferred[d] = None
      BY <3>1 DEF DeferredIsActive, ActiveOf
    <3>3. \A d \in Clients \ zeroed, t \in Streams : d # c => ~streams[d][t].on
      BY <3>1 DEF StreamingIsActive, ActiveOf
    <3> QED BY <2>1, <3>2, <3>3 DEF StreamingIsActive, DeferredIsActive
  <2>3. CASE ~Releases(c, None)
    <3>1. active' = active
      BY <1>2, <2>3 DEF Close
    <3> QED BY <2>1, <3>1 DEF StreamingIsActive, DeferredIsActive
  <2> QED BY <2>2, <2>3
<1>3. ASSUME NEW c \in Clients, NEW s \in Ids, Play(c, s) PROVE Others
  <2>1. /\ active \in {None, ActiveOf(c, s)} /\ streams' = streams /\ zeroed' = zeroed
        /\ active' = IF s = None THEN active ELSE ActiveOf(c, s)
        /\ deferred' = [deferred EXCEPT ![c] = deferred'[c]]
        /\ deferred'[c] \in {s, None}
    BY <1>3 DEF Play, Granted, TypeOK
  <2>2. CASE active = None
    <3>1. \A d \in Clients, t \in Streams : ActiveOf(d, streams[d][t].session) # None
      BY NoneIsNothing DEF ActiveOf, TypeOK, Ids
    <3>2. \A d \in Clients \ zeroed, t \in Streams : ~streams[d][t].on
      BY <2>2, <3>1 DEF StreamingIsActive
    <3>3. \A d \in Clients \ zeroed : deferred[d] = None
      BY <2>2, NoneIsNothing DEF DeferredIsActive, ActiveOf, TypeOK, Ids
    <3> QED BY <2>1, <3>2, <3>3 DEF StreamingIsActive, DeferredIsActive, TypeOK
  <2>3. CASE active = ActiveOf(c, s)
    <3>1. active' = active
      BY <2>1, <2>3
    <3> QED BY <2>1, <2>3, <3>1 DEF StreamingIsActive, DeferredIsActive, TypeOK
  <2> QED BY <2>1, <2>2, <2>3
<1>4. ASSUME NEW c \in Clients, NEW s \in Ids, PlayUnanswered(c, s) PROVE Others
  BY <1>4 DEF PlayUnanswered, StreamingIsActive, DeferredIsActive
<1>5. ASSUME NEW c \in Clients, NEW s \in Ids, Teardown(c, s) PROVE Others
  <2>1. \A d \in Clients, t \in Streams : streams'[d][t].on =>
            streams'[d][t] = streams[d][t] /\ ~(d = c /\ streams[d][t].session = s)
    BY <1>5 DEF Teardown, Unset, TypeOK
  <2>2. \A d \in Clients : deferred'[d] # None =>
            deferred'[d] = deferred[d] /\ ~(d = c /\ deferred[d] = s)
    BY <1>5 DEF Teardown, TypeOK
  <2>3. CASE Releases(c, s)
    <3>1. PICK r \in Sessions : active = ActiveOf(c, r) /\ s \in {None, r}
      BY <2>3 DEF Releases
    <3>2. zeroed' = IF s = None THEN zeroed \cup {c} ELSE zeroed
      BY <1>5, <2>3 DEF Teardown
    <3>3. \A d \in Clients \ zeroed', t \in Streams : ~streams'[d][t].on
      BY <2>1, <3>1, <3>2 DEF StreamingIsActive, ActiveOf
    <3>4. \A d \in Clients \ zeroed' : deferred'[d] = None
      BY <2>2, <3>1, <3>2 DEF DeferredIsActive, ActiveOf
    <3> QED BY <3>3, <3>4 DEF StreamingIsActive, DeferredIsActive
  <2>4. CASE ~Releases(c, s)
    <3>1. active' = active /\ zeroed' = zeroed
      BY <1>5, <2>4 DEF Teardown
    <3> QED BY <2>1, <2>2, <3>1 DEF StreamingIsActive, DeferredIsActive
  <2> QED BY <2>3, <2>4
<1>6. ASSUME NEW c \in Clients, NEW t \in Streams, NEW s \in Ids, Setup(c, t, s)
      PROVE  Others
  BY <1>6 DEF Setup, StreamingIsActive, DeferredIsActive, TypeOK
<1>7. ASSUME NEW c \in Clients, DeferredPlay(c) PROVE Others
  <2>1. active' = active /\ zeroed' = zeroed
    BY <1>7 DEF DeferredPlay
  <2>2. deferred[c] # None /\ deferred' = [deferred EXCEPT ![c] = None]
    BY <1>7 DEF DeferredPlay
  <2>3. DeferredIsActive'
    BY <2>1, <2>2 DEF DeferredIsActive, TypeOK
  <2>4. \A d \in Clients, t \in Streams :
            /\ streams'[d][t].session = streams[d][t].session
            /\ streams'[d][t].on =>
                   streams[d][t].on \/ (d = c /\ streams[d][t].session = deferred[c])
    <3>1. CASE Playing(c, deferred[c])
      BY <1>7, <3>1 DEF DeferredPlay
    <3>2. CASE ~Playing(c, deferred[c])
      BY <1>7, <3>2 DEF DeferredPlay, TypeOK
    <3> QED BY <3>1, <3>2
  <2>5. c \notin zeroed => active = ActiveOf(c, deferred[c])
    BY <2>2 DEF DeferredIsActive
  <2>6. StreamingIsActive'
    BY <2>1, <2>4, <2>5 DEF StreamingIsActive, ActiveOf
  <2> QED BY <2>3, <2>6
<1>8. ASSUME NEW c \in Clients, DeferredTooLate(c) PROVE Others
  <2>1. \A d \in Clients \ zeroed, t \in Streams :
            streams[d][t].on => active # ActiveOf(c, deferred[c])
    BY <1>8 DEF DeferredTooLate, StreamingIsActive, Known, ActiveOf
  <2>2. StreamingIsActive'
    BY <1>8, <2>1 DEF DeferredTooLate, StreamingIsActive
  <2>3. DeferredIsActive'
    BY <1>8 DEF DeferredTooLate, DeferredIsActive, ActiveOf, TypeOK
  <2> QED BY <2>2, <2>3
<1>9. ASSUME HttpRequest \/ Elapse \/ Turn \/ Signal \/ StopServer \/ UNCHANGED vars
      PROVE  Others
  BY <1>9 DEF HttpRequest, Elapse, Turn, Signal, StopServer, vars, sessionVars,
              StreamingIsActive, DeferredIsActive
<1>10. ASSUME StopMedia \/ Deinitialize PROVE Others
  BY <1>10 DEF StopMedia, Deinitialize, StreamingIsActive, DeferredIsActive
<1>11. Others
  BY <1>1, <1>2, <1>3, <1>4, <1>5, <1>6, <1>7, <1>8, <1>9, <1>10
  DEF Next, Deferred, Leave
<1> QED BY <1>0, <1>11

\* The invariant, for every reachable state.
LEMMA Invariance == Spec => []IInv
BY InitInv, NextInv, PTL DEF Spec

-----------------------------------------------------------------------------
(* The theorems *)

\* The variables keep their types.
THEOREM TypesHold == Spec => []TypeOK
BY Invariance, PTL DEF IInv

\* Whatever clients connect, name foreign sessions or id 0, set up again and
\* vanish: a stream that plays belongs to the active session, unless its own
\* client has given the preview back by id 0.
THEOREM OneAtATime == Spec => []StreamingIsActive
BY Invariance, PTL DEF IInv

\* Media that run are counted by the idle timer.
THEOREM Counted == Spec => []WatchedIsCounted
BY Invariance, PTL DEF IInv

\* The idle timer does not turn the camera off while somebody watches.
THEOREM NotWhileWatched == Spec => NoShutdownWhileWatched
<1> DEFINE Watched == media /\ \E c \in Clients, s \in Sessions : Playing(c, s)
<1>1. IInv /\ [Next]_vars => [decided' # decided => ~Watched]_vars
  <2> SUFFICES ASSUME IInv, Next, decided' # decided, Watched PROVE FALSE
    OBVIOUS
  <2>1. Turn
    BY DEF Next, Connect, Close, Play, PlayUnanswered, Teardown, Setup, Deferred,
           DeferredPlay, DeferredTooLate, HttpRequest, Elapse, Signal, Leave, StopMedia,
           StopServer, Deinitialize, otherVars
  <2>2. ~IsActive
    BY <2>1 DEF Turn, IInv, TypeOK
  <2> QED BY <2>2 DEF IInv, IsActive, WatchedIsCounted
<1> QED BY <1>1, Invariance, PTL DEF Spec, NoShutdownWhileWatched
=============================================================================
