----------------------------- MODULE RtspPreview -----------------------------
(***************************************************************************)
(* The preview of the user-mode program: the connections and sessions of   *)
(* rtsp.c, the media session RtspServer starts and stops for them, and the *)
(* idle timer of UmIdleCore that counts them and turns the camera off.     *)
(*                                                                         *)
(* Three threads meet here.  The event loop runs every RTSP callback to    *)
(* its end, one at a time; the main thread turns every 200 ms and, once    *)
(* told to leave, takes the server down; HTTP threads announce requests.   *)
(*                                                                         *)
(* PLAY is granted in two events: the handler answers and schedules the    *)
(* start of playback, which a timer event does later.  The media session   *)
(* stands for the video session, and for the audio session where audio is  *)
(* enabled.                                                                *)
(*                                                                         *)
(* None is also the session id 0: that of a stream that is not set up, and *)
(* one a client may name in any request.                                   *)
(***************************************************************************)
EXTENDS Integers

CONSTANTS
    Clients,    \* connections; one value may connect again after closing
    Sessions,   \* session identifiers
    Streams,    \* the streams of a connection (rtsp.c MAX_STREAMS)
    None,       \* session id 0, no active preview
    Timeout,    \* idleTimeoutMs, in units of the clock
    Window,     \* httpActivityWindowMs, in the same units
    MaxPlays    \* bound on the PLAY requests that are granted

ASSUME NoneIsNothing == None \notin Sessions /\ None \notin Clients \X (Sessions \cup {None})
ASSUME TimesAreSet == Timeout \in Nat \ {0} /\ Window \in Nat \ {0}
ASSUME BoundIsSet == MaxPlays \in Nat

VARIABLES
    open,       \* the connections the server has a Client object for
    streams,    \* per connection and stream: its session, and whether it plays
    deferred,   \* per connection: the session of deferred_play_ev, or None
    active,     \* active_client and active_session_id, or None
    media,      \* MediaSession::running_
    count,      \* rtspClientCount_
    httpNew,    \* a request has been announced and not seen by the main loop
    httpAge,    \* time since lastHttpActivityMs_; Window: long ago or never
    idleAge,    \* time since idleStartMs_; -1 when that is 0
    decided,    \* reason_ is IdleTimeout
    phase,      \* how far the main thread has got
    plays,      \* PLAY requests granted so far
    zeroed      \* history: the connections that gave the preview back by id 0

sessionVars == <<open, streams, deferred, active, media, plays, zeroed>>
otherVars == <<httpNew, httpAge, decided, phase>>
vars == <<sessionVars, count, idleAge, otherVars>>

Ids == Sessions \cup {None}
Unset == [session |-> None, on |-> FALSE]
ActiveOf(c, s) == <<c, s>>

Init ==
    /\ open = {}
    /\ streams = [c \in Clients |-> [t \in Streams |-> Unset]]
    /\ deferred = [c \in Clients |-> None]
    /\ active = None
    /\ media = FALSE
    /\ count = 0
    /\ httpNew = FALSE
    /\ httpAge = Window
    /\ idleAge = -1
    /\ decided = FALSE
    /\ phase = "serving"
    /\ plays = 0
    /\ zeroed = {}

\* The loop of the detached thread is asked to break, not waited for.
LoopRuns == phase # "off"
Known(c, s) == \E t \in Streams : streams[c][t].session = s
Playing(c, s) == \E t \in Streams : streams[c][t] = [session |-> s, on |-> TRUE]

\* What onSessionPlay leaves behind: a session that has to be started first
\* may fail to, and then UmIdleCore::onRtspConnect is not reached.
AfterOnSessionPlay ==
    {[media |-> TRUE, count |-> count + 1, idle |-> -1]}
        \cup (IF media THEN {} ELSE {[media |-> FALSE, count |-> count, idle |-> idleAge]})

\* Mutant: a counter that takes every close for one that was counted.
OneLessUnguarded(n) == n - 1

\* UmIdleCore::onRtspDisconnect.
OneLess(n) == IF n > 0 THEN n - 1 ELSE 0

\* Whether server_release_active_session releases anything: id 0 stands for
\* whatever session the client has.
Releases(c, s) == \E r \in Sessions : active = ActiveOf(c, r) /\ s \in {None, r}

\* It does with notify_peer: onSessionClosed stops the media and tells the idle
\* timer.
ReleaseAndNotify ==
    /\ active' = None
    /\ media' = FALSE
    /\ count' = OneLess(count)

-----------------------------------------------------------------------------
(* The event loop *)

Connect(c) ==
    /\ LoopRuns
    /\ c \notin open
    /\ open' = open \cup {c}
    /\ UNCHANGED <<streams, deferred, active, media, plays, zeroed, count, idleAge, otherVars>>

\* The session is the client's own when the request names one, a random one
\* otherwise; the stream is reset whatever it was doing.  A request that fails
\* after the reset leaves it with id 0.
Setup(c, t, s) ==
    /\ LoopRuns
    /\ c \in open
    /\ streams' = [streams EXCEPT ![c][t] = [session |-> s, on |-> FALSE]]
    /\ UNCHANGED <<open, deferred, active, media, plays, zeroed, count, idleAge, otherVars>>

\* Mutant: a PLAY takes the preview over from whoever has it.
GrantedUnreserved(c, s) ==
    /\ LoopRuns
    /\ c \in open
    /\ Known(c, s)
    /\ plays < MaxPlays
    /\ plays' = plays + 1

Granted(c, s) ==
    /\ LoopRuns
    /\ c \in open
    /\ Known(c, s)
    /\ active \in {None, ActiveOf(c, s)}
    /\ plays < MaxPlays
    /\ plays' = plays + 1

OnPlay(c, s) ==
    IF Playing(c, s) THEN {[media |-> media, count |-> count, idle |-> idleAge]}
    ELSE AfterOnSessionPlay

\* Answered: playback is put off to a timer event, which replaces one that is
\* pending for another session.  Id 0 reserves nothing, and its timer event
\* does nothing.
Play(c, s) ==
    /\ Granted(c, s)
    /\ active' = IF s = None THEN active ELSE ActiveOf(c, s)
    /\ \E r \in OnPlay(c, s) : media' = r.media /\ count' = r.count /\ idleAge' = r.idle
    /\ deferred' = [deferred EXCEPT ![c] =
           IF @ = s \/ ~Playing(c, s) THEN s ELSE None]
    /\ UNCHANGED <<open, streams, zeroed, otherVars>>

\* The answer cannot be written: a reservation made by this request is undone.
PlayUnanswered(c, s) ==
    /\ Granted(c, s)
    /\ active' = active
    /\ \E r \in OnPlay(c, s) :
           /\ idleAge' = r.idle
           /\ IF active = None /\ s # None
              THEN media' = FALSE /\ count' = OneLess(r.count)
              ELSE media' = r.media /\ count' = r.count
    /\ UNCHANGED <<open, streams, deferred, zeroed, otherVars>>

\* client_start_playback when the session has been replaced by a new SETUP:
\* the preview is given up without a word to RtspServer.
DeferredTooLate(c) ==
    /\ LoopRuns
    /\ deferred[c] # None
    /\ ~Known(c, deferred[c])
    /\ deferred' = [deferred EXCEPT ![c] = None]
    /\ active' = IF active = ActiveOf(c, deferred[c]) THEN None ELSE active
    /\ UNCHANGED <<open, streams, media, plays, zeroed, count, idleAge, otherVars>>

\* Mutant: playback is given up when onSessionPlay fails the second time.
DeferredPlayIfMedia(c) ==
    /\ LoopRuns
    /\ deferred[c] # None
    /\ Known(c, deferred[c])
    /\ deferred' = [deferred EXCEPT ![c] = None]
    /\ IF Playing(c, deferred[c])
       THEN UNCHANGED <<streams, media, count, idleAge>>
       ELSE /\ \E r \in AfterOnSessionPlay :
                   media' = r.media /\ count' = r.count /\ idleAge' = r.idle
            /\ streams' = [streams EXCEPT ![c] = [t \in Streams |->
                   [session |-> @[t].session,
                    on |-> @[t].on \/ (media' /\ @[t].session = deferred[c])]]]
    /\ UNCHANGED <<open, active, plays, zeroed, otherVars>>

\* client_start_playback: onSessionPlay is called again, whatever it returns.
DeferredPlay(c) ==
    /\ LoopRuns
    /\ deferred[c] # None
    /\ Known(c, deferred[c])
    /\ deferred' = [deferred EXCEPT ![c] = None]
    /\ IF Playing(c, deferred[c])
       THEN UNCHANGED <<streams, media, count, idleAge>>
       ELSE /\ \E r \in AfterOnSessionPlay :
                   media' = r.media /\ count' = r.count /\ idleAge' = r.idle
            /\ streams' = [streams EXCEPT ![c] = [t \in Streams |->
                   [session |-> @[t].session,
                    on |-> @[t].on \/ @[t].session = deferred[c]]]]
    /\ UNCHANGED <<open, active, plays, zeroed, otherVars>>

\* Id 0 is that of the streams not set up and of no start put off, and gives
\* the preview back without stopping the stream that has it.
Teardown(c, s) ==
    /\ LoopRuns
    /\ c \in open
    /\ Known(c, s) \/ deferred[c] = s
    /\ streams' = [streams EXCEPT ![c] = [t \in Streams |->
           IF @[t].session = s THEN Unset ELSE @[t]]]
    /\ deferred' = [deferred EXCEPT ![c] = IF @ = s THEN None ELSE @]
    /\ IF Releases(c, s)
       THEN ReleaseAndNotify
       ELSE UNCHANGED <<active, media, count>>
    /\ zeroed' = IF s = None /\ Releases(c, s) THEN zeroed \cup {c} ELSE zeroed
    /\ UNCHANGED <<open, plays, idleAge, otherVars>>

\* The peer closes or the connection fails: on_event_cb and Client_drop.
Close(c) ==
    /\ LoopRuns
    /\ c \in open
    /\ open' = open \ {c}
    /\ streams' = [streams EXCEPT ![c] = [t \in Streams |-> Unset]]
    /\ deferred' = [deferred EXCEPT ![c] = None]
    /\ IF Releases(c, None)
       THEN ReleaseAndNotify
       ELSE UNCHANGED <<active, media, count>>
    /\ zeroed' = zeroed \ {c}
    /\ UNCHANGED <<plays, idleAge, otherVars>>

-----------------------------------------------------------------------------
(* The HTTP threads, the clock and the main thread *)

\* begin_request_handler.
HttpRequest ==
    /\ phase = "serving"
    /\ httpNew' = TRUE
    /\ UNCHANGED <<sessionVars, count, idleAge, httpAge, decided, phase>>

Elapse ==
    /\ phase = "serving"
    /\ httpAge' = IF httpAge < Window THEN httpAge + 1 ELSE httpAge
    /\ idleAge' = IF idleAge \in 0 .. Timeout - 1 THEN idleAge + 1 ELSE idleAge
    /\ UNCHANGED <<sessionVars, count, httpNew, decided, phase>>

\* Mutant: only HTTP requests count.
IsActiveByHttp == httpAge < Window

IsActive == count > 0 \/ httpAge < Window

\* idleStartMs_ after UmIdleCore::tick.
IdleAfterTick ==
    IF decided THEN idleAge
    ELSE IF IsActive THEN -1
    ELSE IF idleAge = -1 THEN 0 ELSE idleAge

\* One turn of the main loop: tick, then the request counter, then the
\* decision, whose SIGTERM ends the loop.
Turn ==
    /\ phase = "serving"
    /\ decided' = (decided \/ (~IsActive /\ IdleAfterTick >= Timeout))
    /\ idleAge' = IF httpNew THEN -1 ELSE IdleAfterTick
    /\ httpAge' = IF httpNew THEN 0 ELSE httpAge
    /\ httpNew' = FALSE
    /\ phase' = IF decided' THEN "leaving" ELSE phase
    /\ UNCHANGED <<sessionVars, count>>

\* SIGTERM or SIGINT from outside.
Signal ==
    /\ phase = "serving"
    /\ phase' = "leaving"
    /\ UNCHANGED <<sessionVars, count, idleAge, httpNew, httpAge, decided>>

\* RtspServer::stop stops the media while the event loop still runs...
StopMedia ==
    /\ phase = "leaving"
    /\ phase' = "paused"
    /\ media' = FALSE
    /\ UNCHANGED <<open, streams, deferred, active, plays, zeroed, count, idleAge,
                   httpNew, httpAge, decided>>

\* ... then asks the loop to break and frees the server.
StopServer ==
    /\ phase = "paused"
    /\ phase' = "halted"
    /\ UNCHANGED <<sessionVars, count, idleAge, httpNew, httpAge, decided>>

\* RtspServer::deinitialize.
Deinitialize ==
    /\ phase = "halted"
    /\ phase' = "off"
    /\ media' = FALSE
    /\ UNCHANGED <<open, streams, deferred, active, plays, zeroed, count, idleAge,
                   httpNew, httpAge, decided>>

Deferred == \E c \in Clients : DeferredPlay(c) \/ DeferredTooLate(c)
Leave == StopMedia \/ StopServer \/ Deinitialize

Next ==
    \/ \E c \in Clients :
           \/ Connect(c)
           \/ Close(c)
           \/ \E s \in Ids :
                  \/ Play(c, s)
                  \/ PlayUnanswered(c, s)
                  \/ Teardown(c, s)
                  \/ \E t \in Streams : Setup(c, t, s)
    \/ Deferred
    \/ HttpRequest
    \/ Elapse
    \/ Turn
    \/ Signal
    \/ Leave

Spec == Init /\ [][Next]_vars

\* The event loop serves its timers, the main loop turns, time passes and the
\* main thread leaves.  Nobody has to connect, to ask or to hang up.
FairSpec ==
    /\ Spec
    /\ WF_vars(Deferred)
    /\ WF_vars(Turn)
    /\ WF_vars(Elapse)
    /\ WF_vars(Leave)

-----------------------------------------------------------------------------
TypeOK ==
    /\ open \subseteq Clients
    /\ streams \in [Clients -> [Streams -> [session : Ids, on : BOOLEAN]]]
    /\ deferred \in [Clients -> Ids]
    /\ active \in (Clients \X Sessions) \cup {None}
    /\ media \in BOOLEAN
    /\ count \in Nat
    /\ httpNew \in BOOLEAN
    /\ httpAge \in 0 .. Window
    /\ idleAge \in -1 .. Timeout
    /\ decided \in BOOLEAN
    /\ phase \in {"serving", "leaving", "paused", "halted", "off"}
    /\ plays \in 0 .. MaxPlays
    /\ zeroed \subseteq Clients

\* A stream that plays belongs to the active session of the server, although
\* it was granted in one event and started in another, unless its client has
\* given the preview back by a TEARDOWN of session id 0, which leaves the stream
\* playing (rtsp.c server_reserve_active_session, client_start_playback,
\* server_release_active_session).
StreamingIsActive ==
    \A c \in Clients \ zeroed, t \in Streams :
        streams[c][t].on => active = ActiveOf(c, streams[c][t].session)

\* Two clients never play at once.  The documents say so
\* (rtsp-delayed-startup.md, rtsp-adaptive-video-pacing.md); the code does not
\* ensure it after a TEARDOWN of session id 0.  No run claims it.
OneClientPlays ==
    \A c, d \in Clients :
        (\E s, r \in Sessions : Playing(c, s) /\ Playing(d, r)) => c = d

\* The idle timer counts a preview for as long as its media run, whichever of
\* the two calls of onSessionPlay started them (um_app.cpp callbacks).
WatchedIsCounted == media => count > 0

\* The idle timer never turns the camera off under somebody who watches.
NoShutdownWhileWatched ==
    [][decided' # decided => ~(media /\ \E c \in Clients, s \in Sessions : Playing(c, s))]_vars

\* A client that was granted its preview gets it, or has given up the session
\* or the preview.
GrantedStarts ==
    \A c \in Clients, s \in Sessions :
        deferred[c] = s ~> (Playing(c, s) \/ ~Known(c, s) \/ c \in zeroed \/ ~LoopRuns)

\* A camera without clients and without requests turns itself off
\* (um_app.cpp: no RTSP client and no HTTP request for a time).
AbandonedEnds == <>[](open = {} /\ ~httpNew) => <>(phase = "off")
=============================================================================
