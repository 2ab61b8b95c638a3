------------------------------ MODULE TcpEvents ------------------------------
(***************************************************************************)
(* The TCP event service: one client at a time, replaced by the next that  *)
(* connects; every event carries its number in that connection; nothing is *)
(* kept for a client that is not there.                                    *)
(*                                                                         *)
(* The accept thread, the heartbeat thread, the threads that publish and   *)
(* the main thread that starts and stops the service share the client      *)
(* under one lock, except for a connection the accept thread has taken and *)
(* not yet handed over, and for the flag running_, which is atomic.        *)
(*                                                                         *)
(* This module holds the service and its peers; what is published and who  *)
(* stops the service when is up to the module that extends it.             *)
(***************************************************************************)
EXTENDS Naturals, Sequences

CONSTANTS
    Conns,      \* connections; each is made at most once
    MaxBeats,   \* bound on the events after which heartbeats are still sent
    Beat,       \* what a heartbeat says
    None        \* no connection

ASSUME NoClientIsNone == None \notin Conns
ASSUME BeatsAreBounded == MaxBeats \in Nat \ {0}

VARIABLES
    running,    \* running_
    listening,  \* the listening socket is open
    client,     \* clientFd_
    sequence,   \* connectionSequence_
    activity,   \* lastActivityMs_: 0, or less or more than an interval ago
    acceptor,   \* where the accept thread is
    taken,      \* the connection it has accepted and not handed over, or None
    beater,     \* the heartbeat thread
    conns,      \* per connection: how far it has got
    received    \* per connection: the events sent on it

clientVars == <<client, sequence, activity>>
threadVars == <<acceptor, taken, beater>>
peerVars == <<conns, received>>
eventVars == <<running, listening, clientVars, threadVars, peerVars>>

InitEvents ==
    /\ running = FALSE
    /\ listening = FALSE
    /\ client = None
    /\ sequence = 0
    /\ activity = "none"
    /\ acceptor = "off"
    /\ taken = None
    /\ beater = "off"
    /\ conns = [c \in Conns |-> "away"]
    /\ received = [c \in Conns |-> <<>>]

-----------------------------------------------------------------------------
(* Under the lock *)

\* The connections after closeClientLocked.
ClosedClient == IF client = None THEN conns ELSE [conns EXCEPT ![client] = "closed"]

\* Mutant: the client that is replaced stays open.
ReplaceClientOnly(c) ==
    /\ conns' = conns
    /\ client' = c
    /\ sequence' = 0
    /\ activity' = "none"

\* Mutant: the numbers go on with the next client.
ReplaceClientCounting(c) ==
    /\ conns' = ClosedClient
    /\ client' = c
    /\ sequence' = sequence
    /\ activity' = "none"

\* replaceClientLocked.
ReplaceClient(c) ==
    /\ conns' = ClosedClient
    /\ client' = c
    /\ sequence' = 0
    /\ activity' = "none"

CloseClient ==
    /\ conns' = ClosedClient
    /\ client' = None
    /\ activity' = "none"

\* publishLocked.  Sending fails when the peer has gone or does not read for a
\* second; the client is dropped then.
Publish(what) ==
    IF ~running \/ client = None
    THEN UNCHANGED <<clientVars, peerVars>>
    ELSE \/ /\ received' = [received EXCEPT ![client] =
                   Append(@, [seq |-> sequence + 1, what |-> what])]
            /\ sequence' = sequence + 1
            /\ activity' = "recent"
            /\ UNCHANGED <<client, conns>>
         \/ CloseClient /\ UNCHANGED <<sequence, received>>

-----------------------------------------------------------------------------
(* The peers and the two threads *)

Knock(c) ==
    /\ listening
    /\ conns[c] = "away"
    /\ conns' = [conns EXCEPT ![c] = "waiting"]
    /\ UNCHANGED <<running, listening, clientVars, threadVars, received>>

\* The head of acceptLoop: running_, then listenFd_ under the lock.
AcceptTurn ==
    /\ acceptor = "loop"
    /\ acceptor' = IF running THEN "select" ELSE "off"
    /\ UNCHANGED <<running, listening, clientVars, taken, beater, peerVars>>

Accept(c) ==
    /\ acceptor = "select"
    /\ listening
    /\ conns[c] = "waiting"
    /\ conns' = [conns EXCEPT ![c] = "open"]
    /\ taken' = c
    /\ acceptor' = "holding"
    /\ UNCHANGED <<running, listening, clientVars, beater, received>>

\* select times out, or it or accept fails on the socket that was closed.
AcceptNothing ==
    /\ acceptor = "select"
    /\ acceptor' = "loop"
    /\ UNCHANGED <<running, listening, clientVars, taken, beater, peerVars>>

HandOver ==
    /\ acceptor = "holding"
    /\ ReplaceClient(taken)
    /\ taken' = None
    /\ acceptor' = "loop"
    /\ UNCHANGED <<running, listening, beater, received>>

\* Mutant: the first heartbeat waits for something to be late.
BeatDueLate == activity = "old"

BeatDue == activity # "recent"

HeartbeatTurn ==
    /\ beater = "loop"
    /\ IF running
       THEN /\ client # None /\ BeatDue
            /\ Len(received[client]) < MaxBeats
            /\ Publish(Beat)
            /\ UNCHANGED beater
       ELSE beater' = "off" /\ UNCHANGED <<clientVars, peerVars>>
    /\ UNCHANGED <<running, listening, acceptor, taken>>

Elapse ==
    /\ activity = "recent"
    /\ Len(received[client]) < MaxBeats
    /\ activity' = "old"
    /\ UNCHANGED <<running, listening, client, sequence, threadVars, peerVars>>

Acceptor ==
    \/ AcceptTurn
    \/ \E c \in Conns : Accept(c)
    \/ AcceptNothing
    \/ HandOver

-----------------------------------------------------------------------------
(* The main thread: start, and the steps of stop *)

\* The socket may not be had; nothing is changed then.
StartService ==
    /\ ~running
    /\ running' = TRUE
    /\ listening' = TRUE
    /\ sequence' = 0
    /\ activity' = "none"
    /\ acceptor' = "loop"
    /\ beater' = "loop"
    /\ UNCHANGED <<client, taken, peerVars>>

StopMark ==
    /\ running' = FALSE
    /\ UNCHANGED <<listening, clientVars, threadVars, peerVars>>

\* Connections that were never accepted end with the socket.
CloseListener ==
    /\ listening' = FALSE
    /\ conns' = [c \in Conns |-> IF conns[c] = "waiting" THEN "closed" ELSE conns[c]]
    /\ UNCHANGED <<running, clientVars, threadVars, received>>

\* Both threads have been joined; the client they left is closed.
CloseLast ==
    /\ acceptor = "off" /\ beater = "off"
    /\ CloseClient
    /\ sequence' = 0
    /\ UNCHANGED <<running, listening, threadVars, received>>

-----------------------------------------------------------------------------
EventTypeOK ==
    /\ running \in BOOLEAN
    /\ listening \in BOOLEAN
    /\ client \in Conns \cup {None}
    /\ sequence \in Nat
    /\ activity \in {"none", "recent", "old"}
    /\ acceptor \in {"off", "loop", "select", "holding"}
    /\ taken \in Conns \cup {None}
    /\ beater \in {"off", "loop"}
    /\ conns \in [Conns -> {"away", "waiting", "open", "closed"}]

\* Whoever publishes, and however clients replace each other meanwhile, the
\* events of one connection are numbered 1, 2, 3 and so on (connectionSequence_,
\* reset by the accept thread under another holder of the lock).
Numbered ==
    \A c \in Conns : \A i \in 1 .. Len(received[c]) : received[c][i].seq = i

\* The service holds no connection open but its client and the one the accept
\* thread is about to hand over (TcpEventService.cpp acceptLoop, stop).
NoneForgotten == \A c \in Conns : conns[c] = "open" => c \in {client, taken}

\* A client hears from the camera soon after it was accepted, event or not, or
\* finds itself replaced or dropped (heartbeatLoop, lastActivityMs_ == 0).
ClientHears ==
    \A c \in Conns : conns[c] = "open" ~> (received[c] # <<>> \/ conns[c] = "closed")
=============================================================================
