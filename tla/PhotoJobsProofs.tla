--------------------------- MODULE PhotoJobsProofs ---------------------------
(***************************************************************************)
(* What the photo job manager and the TCP event service promise, whatever  *)
(* the number of jobs, connections, heartbeats and jobs that are kept.     *)
(***************************************************************************)
EXTENDS PhotoJobs, SequenceTheorems, WellFoundedInduction, TLAPS

Happening == [seq : Nat, what : {Beat} \cup Outcomes]

(* Where connections are: at a peer, with the accept thread or the client. *)
Connections ==
    /\ NoneForgotten
    /\ client # None => conns[client] = "open" /\ sequence = Len(received[client])
    /\ taken # None <=> acceptor = "holding"
    /\ taken # None => conns[taken] = "open" /\ taken # client /\ received[taken] = <<>>
    /\ \A c \in Conns : conns[c] \in {"away", "waiting"} => received[c] = <<>>
    /\ Numbered

(* The service is started once. *)
NotStarted ==
    main = "starting" =>
        ~running /\ client = None /\ acceptor = "off" /\ beater = "off"

InHand == worker \in {"taking", "telling"}

(* Jobs are picked up in the order of their submission. *)
JobsInOrder ==
    /\ job <= submitted
    /\ \A j \in Jobs : state[j] = "none" <=> j > submitted
    /\ \A i \in 1 .. Len(pending) :
           job < pending[i] /\ pending[i] <= submitted /\ state[pending[i]] = "accepted"
    /\ \A i, k \in 1 .. Len(pending) : i < k => pending[i] < pending[k]
    /\ InHand => job # 0
    /\ worker = "taking" => state[job] = "processing"
    /\ worker = "telling" => Settled(state[job])

(* What was told is about jobs before the one in hand. *)
ToldIsPast ==
    \A c \in Conns : \A i \in 1 .. Len(received[c]) :
        received[c][i].what # Beat =>
            /\ received[c][i].what.job <= job
            /\ InHand => received[c][i].what.job < job
            /\ received[c][i].what.status = state[received[c][i].what.job]

(* The order in which jobs were told of, on one connection and across them. *)
ToldInOrder ==
    /\ \A c \in Conns : \A i, k \in 1 .. Len(received[c]) :
           i < k /\ Beat \notin {received[c][i].what, received[c][k].what} =>
               received[c][i].what.job < received[c][k].what.job
    /\ \A c, d \in Conns : \A i \in 1 .. Len(received[c]), k \in 1 .. Len(received[d]) :
           c # d /\ Beat \notin {received[c][i].what, received[d][k].what} =>
               received[c][i].what.job # received[d][k].what.job

(* What can be asked for: whatever is active, and the last job. *)
Kept ==
    /\ submitted > 0 => order # <<>> /\ order[Len(order)] = submitted
    /\ \A i \in 1 .. Len(order) : order[i] <= submitted
    /\ \A j \in Jobs : Active(state[j]) => Contains(order, j)
    /\ main \in {"starting", "serving"} =>
           (Len(order) > Retained => Active(state[order[1]]))

IInv ==
    /\ TypeOK
    /\ Connections
    /\ NotStarted
    /\ JobsInOrder
    /\ ToldIsPast
    /\ ToldInOrder
    /\ Kept

-----------------------------------------------------------------------------
(* Operators *)

\* A set of naturals that is not empty has a least element.
LEMMA Least ==
    ASSUME NEW T, T \subseteq Nat, T # {}
    PROVE  \E x \in T : \A y \in T : x <= y
<1> DEFINE R == {ss \in Nat \X Nat : ss[1] < ss[2]}
<1>1. IsWellFoundedOn(R, Nat)
  BY NatLessThanWellFounded DEF OpToRel
<1> HIDE DEF R
<1>2. PICK x \in T : \A y \in T : ~ (<<y, x>> \in R)
  BY <1>1, WFMin
<1>3. ASSUME NEW y \in T
      PROVE  x <= y
  <2>1. x \in Nat /\ y \in Nat
    OBVIOUS
  <2>2. y < x => <<y, x>> \in R
    BY <2>1 DEF R
  <2> QED BY <1>2, <2>1, <2>2
<1> QED BY <1>3

\* Max finds the largest element of a bounded set.
LEMMA MaxIs ==
    ASSUME NEW n \in Nat, NEW S, S \subseteq 0 .. n, S # {}
    PROVE  Max(S) \in S /\ \A y \in S : Max(S) >= y
<1> DEFINE T == {i \in 0 .. n : n - i \in S}
<1>0. \A i \in S : i \in 0 .. n
  OBVIOUS
<1>1. T \subseteq Nat
  OBVIOUS
<1>2. T # {}
  <2>1. PICK i \in S : TRUE
    OBVIOUS
  <2>2. n - (n - i) = i /\ n - i \in 0 .. n
    BY <1>0
  <2> QED BY <2>2, <2>1
<1> HIDE DEF T
<1>3. PICK x \in T : \A y \in T : x <= y
  BY <1>1, <1>2, Least
<1>4. n - x \in S /\ x \in 0 .. n
  BY <1>3 DEF T
<1>5. ASSUME NEW y \in S
      PROVE  n - x >= y
  <2>1. y \in 0 .. n /\ n - (n - y) = y
    BY <1>0
  <2>2. n - y \in T
    BY <2>1 DEF T
  <2> QED BY <2>1, <2>2, <1>3, <1>4
<1>6. \E z \in S : \A y \in S : z >= y
  BY <1>4, <1>5
<1> QED BY <1>6, Zenon DEF Max

\* The end of a sequence of jobs, from some place on.
LEMMA SuffixIs ==
    ASSUME NEW s \in Seq(Jobs), NEW m \in 0 .. Len(s)
    PROVE  /\ SubSeq(s, 1 + m, Len(s)) \in Seq(Jobs)
           /\ Len(SubSeq(s, 1 + m, Len(s))) = Len(s) - m
           /\ \A i \in 1 .. Len(SubSeq(s, 1 + m, Len(s))) :
                  SubSeq(s, 1 + m, Len(s))[i] = s[m + i]
<1>1. Len(s) \in Nat /\ 1 + m \in Int /\ Len(s) \in Int
  BY LenProperties
<1>2. \A i \in 1 + m .. Len(s) : s[i] \in Jobs
  BY <1>1, ElementOfSeq
<1>3. /\ SubSeq(s, 1 + m, Len(s)) \in Seq(Jobs)
      /\ Len(SubSeq(s, 1 + m, Len(s)))
             = IF 1 + m <= Len(s) THEN Len(s) - (1 + m) + 1 ELSE 0
      /\ \A i \in 1 .. Len(s) - (1 + m) + 1 :
             SubSeq(s, 1 + m, Len(s))[i] = s[(1 + m) + i - 1]
  BY <1>1, <1>2, SubSeqProperties
<1>4. Len(SubSeq(s, 1 + m, Len(s))) = Len(s) - m
  BY <1>3, <1>1
<1> QED BY <1>3, <1>4, <1>1

\* What Pruned drops is settled, never the last job, and it stops at the
\* permitted number or at a job that is not settled.
LEMMA PrunedKeeps ==
    ASSUME NEW ord \in Seq(Jobs), NEW st
    PROVE  /\ Pruned(ord, st) \in Seq(Jobs)
           /\ ord # <<>> => /\ Pruned(ord, st) # <<>>
                            /\ Pruned(ord, st)[Len(Pruned(ord, st))] = ord[Len(ord)]
           /\ \A i \in 1 .. Len(Pruned(ord, st)) :
                  \E k \in 1 .. Len(ord) : Pruned(ord, st)[i] = ord[k]
           /\ \A k \in 1 .. Len(ord) :
                  Settled(st[ord[k]]) \/ Contains(Pruned(ord, st), ord[k])
           /\ Len(Pruned(ord, st)) > Retained => ~Settled(st[Pruned(ord, st)[1]])
<1> DEFINE Goes(n) == \A i \in 1 .. n : i <= Len(ord) - Retained /\ Settled(st[ord[i]])
           S == {n \in 0 .. Len(ord) : Goes(n)}
           m == Max(S)
           p == SubSeq(ord, 1 + m, Len(ord))
<1>0. Len(ord) \in Nat /\ Retained \in Nat \ {0}
  BY LenProperties, JobsAreBounded
<1>1. 0 \in S
  BY <1>0
<1>2. m \in S /\ \A y \in S : m >= y
  <2> HIDE DEF S
  <2>1. S \subseteq 0 .. Len(ord)
    BY DEF S
  <2> QED BY <1>0, <1>1, <2>1, MaxIs
<1>3. Pruned(ord, st) = p
  BY DEF Pruned
<1>4. m \in 0 .. Len(ord) /\ Goes(m)
  BY <1>2
<1>5. m < Len(ord) => ~Goes(m + 1)
  <2> SUFFICES ASSUME m < Len(ord), Goes(m + 1)
               PROVE  FALSE
    OBVIOUS
  <2> HIDE DEF m, Goes
  <2>1. m + 1 \in S
    BY <1>4, <1>0
  <2> QED BY <2>1, <1>2, <1>4
<1> HIDE DEF m
<1>6. m < Len(ord) => ~(m + 1 <= Len(ord) - Retained /\ Settled(st[ord[m + 1]]))
  <2> SUFFICES ASSUME m < Len(ord), m + 1 <= Len(ord) - Retained, Settled(st[ord[m + 1]])
               PROVE  FALSE
    OBVIOUS
  <2>1. \A i \in 1 .. m + 1 : i \in 1 .. m \/ i = m + 1
    BY <1>4
  <2>2. Goes(m + 1)
    BY <2>1, <1>4
  <2> QED BY <2>2, <1>5
<1> HIDE DEF S
<1>7. \A i \in 1 .. m : i <= Len(ord) - Retained /\ Settled(st[ord[i]])
  BY <1>4
<1> HIDE DEF Goes
<1>8. ord # <<>> => m < Len(ord)
  BY <1>0, <1>4, <1>7, EmptySeq
<1>9. /\ p \in Seq(Jobs)
      /\ Len(p) = Len(ord) - m
      /\ \A i \in 1 .. Len(p) : p[i] = ord[m + i]
  BY <1>4, SuffixIs
<1> HIDE DEF p
<1>10. ord # <<>> => p # <<>> /\ p[Len(p)] = ord[Len(ord)]
  BY <1>8, <1>9, <1>4, <1>0
<1>11. \A i \in 1 .. Len(p) : m + i \in 1 .. Len(ord)
  BY <1>9, <1>4, <1>0
<1>12. ASSUME NEW k \in 1 .. Len(ord), ~Settled(st[ord[k]])
       PROVE  Contains(p, ord[k])
  <2>1. k - m \in 1 .. Len(p) /\ m + (k - m) = k
    BY <1>7, <1>9, <1>12, <1>4, <1>0
  <2> QED BY <2>1, <1>9 DEF Contains
<1>13. Len(p) > Retained => ~Settled(st[p[1]])
  BY <1>6, <1>9, <1>4, <1>0
<1> QED BY <1>3, <1>9, <1>10, <1>11, <1>12, <1>13

-----------------------------------------------------------------------------
(* The connections *)

\* The invariant holds at the start.
LEMMA InitInv == Init => IInv
<1> SUFFICES ASSUME Init PROVE IInv
  OBVIOUS
<1> USE NoClientIsNone, JobsAreBounded DEF Init, InitEvents
<1>1. TypeOK
  <2>1. EventTypeOK
    BY DEF EventTypeOK
  <2>2. received \in [Conns -> Seq([seq : Nat, what : {Beat} \cup Outcomes])]
    BY EmptySeq
  <2>3. pending \in Seq(Jobs) /\ order \in Seq(Jobs)
    BY EmptySeq
  <2>4. 0 \in 0 .. MaxJobs
    OBVIOUS
  <2>5. state \in [Jobs -> {"none", "accepted", "processing", "completed", "failed"}]
    BY DEF Jobs
  <2> QED BY <2>1, <2>2, <2>3, <2>4, <2>5 DEF TypeOK
<1>2. Connections
  BY DEF Connections, NoneForgotten, Numbered
<1>3. NotStarted
  BY DEF NotStarted
<1>4. JobsInOrder
  BY DEF JobsInOrder, InHand, Jobs
<1>5. ToldIsPast /\ ToldInOrder
  BY DEF ToldIsPast, ToldInOrder
<1>6. Kept
  BY DEF Kept, Active
<1> QED BY <1>1, <1>2, <1>3, <1>4, <1>5, <1>6 DEF IInv

\* Where nothing is published, what was told and what can be asked for stay.
LEMMA QuietJobs ==
    ASSUME IInv, UNCHANGED <<jobVars, received>>,
           main' \in {"starting", "serving"} => main \in {"starting", "serving"}
    PROVE  JobsInOrder' /\ ToldIsPast' /\ ToldInOrder' /\ Kept'
<1> USE DEF jobVars
<1>1. JobsInOrder'
  BY DEF IInv, JobsInOrder, InHand
<1>2. ToldIsPast' /\ ToldInOrder'
  BY DEF IInv, ToldIsPast, ToldInOrder, InHand
<1>3. Kept'
  BY DEF IInv, Kept
<1> QED BY <1>1, <1>2, <1>3

\* Where no connection changes, they are where they were.
LEMMA QuietEvents ==
    ASSUME IInv, UNCHANGED eventVars, main' = "starting" => main = "starting"
    PROVE  EventTypeOK' /\ Connections' /\ NotStarted'
<1> USE DEF eventVars, clientVars, threadVars, peerVars
<1>1. EventTypeOK'
  BY DEF IInv, TypeOK, EventTypeOK
<1>2. Connections'
  BY DEF IInv, Connections, NoneForgotten, Numbered
<1>3. NotStarted'
  BY DEF IInv, NotStarted
<1> QED BY <1>1, <1>2, <1>3

\* An event that is sent comes last on the client's connection.
LEMMA Sent ==
    ASSUME TypeOK, client \in Conns, NEW w \in {Beat} \cup Outcomes,
           received' = [received EXCEPT ![client] =
                            Append(@, [seq |-> sequence + 1, what |-> w])]
    PROVE  /\ received' \in [Conns -> Seq(Happening)]
           /\ Len(received'[client]) = Len(received[client]) + 1
           /\ Len(received[client]) \in Nat
           /\ \A c \in Conns : c # client => received'[c] = received[c]
           /\ \A c \in Conns : \A i \in 1 .. Len(received'[c]) :
                  \/ i \in 1 .. Len(received[c]) /\ received'[c][i] = received[c][i]
                  \/ /\ c = client /\ i = Len(received[client]) + 1
                     /\ received'[c][i] = [seq |-> sequence + 1, what |-> w]
<1> DEFINE e == [seq |-> sequence + 1, what |-> w]
           s == received[client]
<1>1. e \in Happening /\ s \in Seq(Happening) /\ received \in [Conns -> Seq(Happening)]
  <2>1. received \in [Conns -> Seq(Happening)]
    BY DEF TypeOK, Happening
  <2>2. sequence + 1 \in Nat /\ w \in {Beat} \cup Outcomes
    BY DEF TypeOK, EventTypeOK
  <2>3. e \in Happening
    BY <2>2 DEF Happening
  <2> QED BY <2>1, <2>3
<1>2. received' = [received EXCEPT ![client] = Append(s, e)]
  OBVIOUS
<1> HIDE DEF e, s
<1>3. /\ Append(s, e) \in Seq(Happening)
      /\ Len(Append(s, e)) = Len(s) + 1
      /\ Len(s) \in Nat
      /\ \A i \in 1 .. Len(s) : Append(s, e)[i] = s[i]
      /\ Append(s, e)[Len(s) + 1] = e
  BY <1>1, AppendProperties, LenProperties
<1>4. \A i \in 1 .. Len(Append(s, e)) : i \in 1 .. Len(s) \/ i = Len(s) + 1
  BY <1>3
<1>5. received'[client] = Append(s, e) /\ \A c \in Conns : c # client => received'[c] = received[c]
  BY <1>1, <1>2
<1>6. received' \in [Conns -> Seq(Happening)]
  BY <1>1, <1>2, <1>3
<1>7. ASSUME NEW c \in Conns, NEW i \in 1 .. Len(received'[c])
      PROVE  \/ i \in 1 .. Len(received[c]) /\ received'[c][i] = received[c][i]
             \/ c = client /\ i = Len(received[client]) + 1 /\ received'[c][i] = e
  BY <1>3, <1>4, <1>5 DEF s
<1> QED BY <1>3, <1>5, <1>6, <1>7 DEF s, e

\* Publishing keeps the types of the service and the places of connections.
LEMMA PublishConnections ==
    ASSUME IInv, NEW w \in {Beat} \cup Outcomes, Publish(w),
           UNCHANGED <<running, listening, threadVars, main>>
    PROVE  /\ EventTypeOK' /\ Connections' /\ NotStarted'
           /\ received' \in [Conns -> Seq(Happening)]
<1> USE DEF threadVars
<1>0. /\ TypeOK /\ Connections /\ NotStarted
      /\ received \in [Conns -> Seq(Happening)]
  BY DEF IInv, TypeOK, Happening
<1>1. CASE UNCHANGED <<clientVars, peerVars>>
  BY <1>0, <1>1, QuietEvents DEF eventVars, clientVars, peerVars
<1>2. CASE /\ client # None
           /\ received' = [received EXCEPT ![client] =
                   Append(@, [seq |-> sequence + 1, what |-> w])]
           /\ sequence' = sequence + 1
           /\ activity' = "recent"
           /\ UNCHANGED <<client, conns>>
  <2>0. client \in Conns
    BY <1>0, <1>2 DEF TypeOK, EventTypeOK
  <2>1. /\ received' \in [Conns -> Seq(Happening)]
        /\ Len(received'[client]) = Len(received[client]) + 1
        /\ Len(received[client]) \in Nat
        /\ \A c \in Conns : c # client => received'[c] = received[c]
        /\ \A c \in Conns : \A i \in 1 .. Len(received'[c]) :
                  \/ i \in 1 .. Len(received[c]) /\ received'[c][i] = received[c][i]
                  \/ /\ c = client /\ i = Len(received[client]) + 1
                     /\ received'[c][i] = [seq |-> sequence + 1, what |-> w]
    BY <1>0, <2>0, <1>2, Sent
  <2>2. EventTypeOK' /\ NotStarted'
    BY <1>0, <1>2 DEF TypeOK, EventTypeOK, NotStarted
  <2>3. Numbered'
    BY <1>0, <1>2, <2>1 DEF Connections, Numbered
  <2>4. /\ NoneForgotten'
        /\ client' # None => conns'[client'] = "open" /\ sequence' = Len(received'[client'])
        /\ taken' # None <=> acceptor' = "holding"
    BY <1>0, <1>2, <2>1 DEF Connections, NoneForgotten
  <2>5. taken' # None => conns'[taken'] = "open" /\ taken' # client' /\ received'[taken'] = <<>>
    BY <1>0, <1>2, <2>1 DEF Connections, TypeOK, EventTypeOK
  <2>6. \A c \in Conns : conns'[c] \in {"away", "waiting"} => received'[c] = <<>>
    BY <1>0, <1>2, <2>1 DEF Connections
  <2> QED BY <2>1, <2>2, <2>3, <2>4, <2>5, <2>6 DEF Connections
<1>3. CASE client # None /\ CloseClient /\ UNCHANGED <<sequence, received>>
  <2> USE <1>0, <1>3 DEF CloseClient, ClosedClient
  <2>1. EventTypeOK' /\ NotStarted'
    BY DEF TypeOK, EventTypeOK, NotStarted
  <2>2. Connections'
    BY NoClientIsNone DEF Connections, NoneForgotten, Numbered, TypeOK, EventTypeOK
  <2> QED BY <2>1, <2>2
<1> QED BY <1>1, <1>2, <1>3 DEF Publish

\* The steps of the accept thread, of peers and of the clock.
LEMMA AcceptorConnections ==
    ASSUME IInv, UNCHANGED main, Acceptor \/ Elapse \/ \E c \in Conns : Knock(c)
    PROVE  EventTypeOK' /\ Connections' /\ NotStarted' /\ UNCHANGED received
<1> USE DEF clientVars, threadVars, peerVars
<1>0. TypeOK /\ Connections /\ NotStarted
  BY DEF IInv
<1>1. ASSUME NEW c \in Conns, Knock(c)
      PROVE  EventTypeOK' /\ Connections' /\ NotStarted' /\ UNCHANGED received
  BY <1>0, <1>1 DEF Knock, TypeOK, EventTypeOK, Connections, NoneForgotten, Numbered,
     NotStarted
<1>2. CASE AcceptTurn
  BY <1>0, <1>2 DEF AcceptTurn, TypeOK, EventTypeOK, Connections, NoneForgotten, Numbered,
     NotStarted
<1>3. ASSUME NEW c \in Conns, Accept(c)
      PROVE  EventTypeOK' /\ Connections' /\ NotStarted' /\ UNCHANGED received
  BY <1>0, <1>3, NoClientIsNone
     DEF Accept, TypeOK, EventTypeOK, Connections, NoneForgotten, Numbered, NotStarted
<1>4. CASE AcceptNothing
  BY <1>0, <1>4 DEF AcceptNothing, TypeOK, EventTypeOK, Connections, NoneForgotten,
     Numbered, NotStarted
<1>5. CASE HandOver
  <2> USE <1>0, <1>5 DEF HandOver, ReplaceClient, ClosedClient
  <2>1. EventTypeOK' /\ NotStarted' /\ UNCHANGED received
    BY DEF TypeOK, EventTypeOK, NotStarted, Connections
  <2>2. taken \in Conns /\ client' = taken /\ conns[taken] = "open" /\ received[taken] = <<>>
    BY DEF TypeOK, EventTypeOK, Connections
  <2>3. Connections'
    BY <2>2, NoClientIsNone DEF Connections, NoneForgotten, Numbered, TypeOK, EventTypeOK
  <2> QED BY <2>1, <2>3
<1>6. CASE Elapse
  BY <1>0, <1>6 DEF Elapse, TypeOK, EventTypeOK, Connections, NoneForgotten, Numbered,
     NotStarted
<1> QED BY <1>1, <1>2, <1>3, <1>4, <1>5, <1>6 DEF Acceptor

\* The steps of the main thread at the service.
LEMMA MainConnections ==
    ASSUME IInv, StartEvents \/ StopEvents
    PROVE  EventTypeOK' /\ Connections' /\ NotStarted' /\ UNCHANGED received
<1> USE DEF clientVars, threadVars, peerVars
<1>0. TypeOK /\ Connections /\ NotStarted
  BY DEF IInv
<1>1. CASE StartEvents /\ StartService
  BY <1>0, <1>1 DEF StartEvents, StartService, TypeOK, EventTypeOK, Connections,
     NoneForgotten, Numbered, NotStarted
<1>2. CASE StartEvents /\ UNCHANGED eventVars
  <2>1. main' = "serving"
    BY <1>2 DEF StartEvents
  <2> QED BY <1>2, <2>1, QuietEvents DEF eventVars
<1>3. CASE main = "quiet" /\ main' = "marked" /\ StopMark
  BY <1>0, <1>3 DEF StopMark, TypeOK, EventTypeOK, Connections, NoneForgotten, Numbered,
     NotStarted
<1>4. CASE main = "marked" /\ main' = "closing" /\ CloseListener
  <2> USE <1>0, <1>4 DEF CloseListener
  <2>1. EventTypeOK' /\ NotStarted' /\ UNCHANGED received
    BY DEF TypeOK, EventTypeOK, NotStarted
  <2>2. \A c \in Conns : /\ conns'[c] = "open" <=> conns[c] = "open"
                         /\ conns'[c] \in {"away", "waiting"} => conns[c] = "away"
    BY DEF TypeOK, EventTypeOK
  <2>3. Connections'
    BY <2>2 DEF Connections, NoneForgotten, Numbered, TypeOK, EventTypeOK
  <2> QED BY <2>1, <2>3
<1>5. CASE main = "closing" /\ main' = "off" /\ CloseLast
  <2> USE <1>0, <1>5 DEF CloseLast, CloseClient, ClosedClient
  <2>1. EventTypeOK' /\ NotStarted' /\ UNCHANGED received
    BY DEF TypeOK, EventTypeOK, NotStarted
  <2>2. Connections'
    BY NoClientIsNone DEF Connections, NoneForgotten, Numbered, TypeOK, EventTypeOK
  <2> QED BY <2>1, <2>2
<1>6. StartEvents => (StartService \/ UNCHANGED eventVars)
  BY DEF StartEvents
<1> QED BY <1>1, <1>2, <1>3, <1>4, <1>5, <1>6 DEF StopEvents

-----------------------------------------------------------------------------
(* The jobs *)

\* Submitting one more.
LEMMA SubmitJobs ==
    ASSUME IInv, Submit
    PROVE  IInv'
<1> DEFINE n == submitted + 1
<1>0. TypeOK /\ JobsInOrder /\ ToldIsPast /\ ToldInOrder /\ Kept
  BY DEF IInv
<1>1. /\ n \in Jobs /\ submitted' = n /\ submitted \in Nat
      /\ state[n] = "none"
      /\ state' = [state EXCEPT ![n] = "accepted"]
      /\ pending' = Append(pending, n)
      /\ order' = Pruned(Append(order, n), state')
      /\ pending \in Seq(Jobs) /\ order \in Seq(Jobs)
      /\ job \in Nat /\ job <= submitted
  BY <1>0, JobsAreBounded DEF Submit, Jobs, TypeOK, JobsInOrder
<1>2. /\ state' \in [Jobs -> {"none", "accepted", "processing", "completed", "failed"}]
      /\ state'[n] = "accepted"
      /\ \A j \in Jobs : j # n => state'[j] = state[j]
  BY <1>0, <1>1 DEF TypeOK
<1> HIDE DEF n
<1>3. /\ Append(order, n) \in Seq(Jobs)
      /\ Append(order, n) # <<>>
      /\ Len(Append(order, n)) = Len(order) + 1
      /\ \A i \in 1 .. Len(order) : Append(order, n)[i] = order[i]
      /\ Append(order, n)[Len(order) + 1] = n
      /\ Len(order) \in Nat
  BY <1>1, AppendProperties, LenProperties
<1>4. /\ Append(pending, n) \in Seq(Jobs)
      /\ Len(Append(pending, n)) = Len(pending) + 1
      /\ \A i \in 1 .. Len(pending) : Append(pending, n)[i] = pending[i] /\ pending[i] \in Jobs
      /\ Append(pending, n)[Len(pending) + 1] = n
      /\ Len(pending) \in Nat
  BY <1>1, AppendProperties, LenProperties, ElementOfSeq
<1>5. /\ order' \in Seq(Jobs)
      /\ order' # <<>> /\ order'[Len(order')] = n
      /\ \A i \in 1 .. Len(order') :
             \E k \in 1 .. Len(Append(order, n)) : order'[i] = Append(order, n)[k]
      /\ \A k \in 1 .. Len(Append(order, n)) :
             Settled(state'[Append(order, n)[k]]) \/ Contains(order', Append(order, n)[k])
      /\ Len(order') > Retained => ~Settled(state'[order'[1]])
  <2> DEFINE o == Append(order, n)
             t == state'
             p == Pruned(o, t)
  <2>1. o \in Seq(Jobs) /\ o # <<>> /\ o[Len(o)] = n /\ order' = p
    BY <1>1, <1>3
  <2> HIDE DEF o, t
  <2>2. /\ p \in Seq(Jobs)
        /\ o # <<>> => p # <<>> /\ p[Len(p)] = o[Len(o)]
        /\ \A i \in 1 .. Len(p) : \E k \in 1 .. Len(o) : p[i] = o[k]
        /\ \A k \in 1 .. Len(o) : Settled(t[o[k]]) \/ Contains(p, o[k])
        /\ Len(p) > Retained => ~Settled(t[p[1]])
    BY <2>1, PrunedKeeps, Zenon
  <2> HIDE DEF p
  <2> QED BY <2>1, <2>2, Zenon DEF o, t
<1>6. EventTypeOK' /\ Connections' /\ NotStarted' /\ UNCHANGED <<received, main, job>>
  BY QuietEvents DEF Submit, eventVars, peerVars
<1>7. TypeOK'
  <2>1. submitted' \in 0 .. MaxJobs /\ job' \in 0 .. MaxJobs
    BY <1>0, <1>1, <1>6 DEF TypeOK, Jobs
  <2>2. /\ stopRequested' \in BOOLEAN
        /\ worker' \in {"none", "waiting", "taking", "telling", "ended"}
    BY <1>0 DEF TypeOK, Submit
  <2> QED BY <1>0, <1>1, <1>2, <1>4, <1>5, <1>6, <2>1, <2>2 DEF TypeOK
<1>8. InHand' <=> InHand
  BY <1>0 DEF Submit, InHand, TypeOK
<1>9. worker' \in {"taking", "telling"} => worker' = worker
  BY DEF Submit
<1>10. JobsInOrder'
  <2>1. \A i \in 1 .. Len(pending') : i \in 1 .. Len(pending) \/ i = Len(pending) + 1
    BY <1>1, <1>4
  <2>2. \A j \in Jobs : state'[j] = "none" <=> j > submitted'
    BY <1>0, <1>1, <1>2 DEF JobsInOrder, Jobs, n
  <2>3. \A i \in 1 .. Len(pending') :
           /\ job' < pending'[i] /\ pending'[i] <= submitted'
           /\ state'[pending'[i]] = "accepted"
    <3> SUFFICES ASSUME NEW i \in 1 .. Len(pending')
                 PROVE  /\ job' < pending'[i] /\ pending'[i] <= submitted'
                        /\ state'[pending'[i]] = "accepted"
      OBVIOUS
    <3>1. CASE i \in 1 .. Len(pending)
      BY <3>1, <1>0, <1>1, <1>2, <1>4, <1>6 DEF JobsInOrder, Jobs, n
    <3>2. CASE i = Len(pending) + 1
      BY <3>2, <1>0, <1>1, <1>2, <1>4, <1>6 DEF JobsInOrder, Jobs, n
    <3> QED BY <3>1, <3>2, <2>1
  <2>4. \A i, k \in 1 .. Len(pending') : i < k => pending'[i] < pending'[k]
    <3>1. \A i \in 1 .. Len(pending) : pending[i] < n
      BY <1>0, <1>1, <1>4 DEF JobsInOrder, Jobs, n
    <3> QED BY <3>1, <2>1, <1>0, <1>1, <1>4 DEF JobsInOrder
  <2>5. (InHand => job # 0 /\ job \in Jobs /\ job # n)
    BY <1>0, <1>1 DEF JobsInOrder, TypeOK, Jobs, n
  <2>6. job' <= submitted'
    BY <1>1, <1>6 DEF n
  <2> QED BY <2>2, <2>3, <2>4, <2>5, <2>6, <1>0, <1>2, <1>6, <1>8, <1>9
          DEF JobsInOrder, InHand
<1>11. ToldIsPast'
  <2> SUFFICES ASSUME NEW c \in Conns, NEW i \in 1 .. Len(received[c]),
                      received[c][i].what # Beat
               PROVE  /\ received[c][i].what.job <= job
                      /\ InHand => received[c][i].what.job < job
                      /\ received[c][i].what.status = state'[received[c][i].what.job]
    BY <1>6, <1>8 DEF ToldIsPast
  <2>1. received[c][i].what.job \in Jobs
    <3>1. received[c] \in Seq([seq : Nat, what : {Beat} \cup Outcomes])
      BY <1>0 DEF TypeOK
    <3>2. received[c][i] \in [seq : Nat, what : {Beat} \cup Outcomes]
      BY <3>1, ElementOfSeq
    <3> QED BY <3>2 DEF Outcomes
  <2> QED BY <2>1, <1>0, <1>1, <1>2 DEF ToldIsPast, Jobs, n
<1>12. ToldInOrder'
  BY <1>0, <1>6 DEF ToldInOrder
<1>13. Kept'
  <2>1. \A k \in 1 .. Len(Append(order, n)) : k \in 1 .. Len(order) \/ k = Len(order) + 1
    BY <1>3
  <2>2. \A k \in 1 .. Len(Append(order, n)) :
            Append(order, n)[k] \in Jobs /\ Append(order, n)[k] <= n
    <3>1. \A k \in 1 .. Len(order) : order[k] \in Jobs /\ order[k] <= n
      <4>1. \A k \in 1 .. Len(order) : order[k] \in Jobs
        BY <1>1, ElementOfSeq
      <4>2. \A k \in 1 .. Len(order) : order[k] <= submitted
        BY <1>0 DEF Kept
      <4> QED BY <4>1, <4>2, <1>1 DEF Jobs, n
    <3>2. n <= n
      BY <1>1 DEF Jobs
    <3> QED BY <2>1, <1>1, <1>3, <3>1, <3>2
  <2>3. \A i \in 1 .. Len(order') : order'[i] \in Jobs /\ order'[i] <= submitted'
    BY <2>2, <1>5, <1>1
  <2>4. ASSUME NEW j \in Jobs, Active(state'[j])
        PROVE  Contains(order', j)
    <3>1. j = n \/ Contains(order, j)
      BY <2>4, <1>0, <1>2 DEF Kept
    <3>2. PICK k \in 1 .. Len(Append(order, n)) : Append(order, n)[k] = j
      BY <3>1, <1>3 DEF Contains
    <3>3. ~Settled(state'[j])
      BY <2>4 DEF Active, Settled
    <3> QED BY <3>2, <3>3, <1>5
  <2>5. Len(order') > Retained => Active(state'[order'[1]])
    <3> SUFFICES ASSUME Len(order') > Retained
                 PROVE  Active(state'[order'[1]])
      OBVIOUS
    <3>1. 1 \in 1 .. Len(order')
      BY <1>5, LenProperties, JobsAreBounded
    <3>2. order'[1] \in Jobs /\ order'[1] <= n
      BY <3>1, <2>3, <1>1
    <3>3. state'[order'[1]] # "none"
      BY <3>2, <1>0, <1>1, <1>2 DEF JobsInOrder, Jobs, n
    <3> QED BY <3>2, <3>3, <1>2, <1>5 DEF Active, Settled
  <2> QED BY <2>3, <2>4, <2>5, <1>1, <1>5 DEF Kept
<1> QED BY <1>6, <1>7, <1>10, <1>11, <1>12, <1>13 DEF IInv

\* What is told is the job and outcome of an event.
LEMMA ToldIsOutcome ==
    ASSUME TypeOK, NEW c \in Conns, NEW i \in 1 .. Len(received[c]),
           received[c][i].what # Beat
    PROVE  received[c][i].what \in Outcomes /\ received[c][i].what.job \in Jobs
<1>1. received[c] \in Seq([seq : Nat, what : {Beat} \cup Outcomes])
  BY DEF TypeOK
<1>2. received[c][i] \in [seq : Nat, what : {Beat} \cup Outcomes]
  BY <1>1, ElementOfSeq
<1> QED BY <1>2 DEF Outcomes

\* Jobs after the last one picked up may change, what was told stays true.
LEMMA ToldStays ==
    ASSUME IInv, UNCHANGED received, job' \in 0 .. MaxJobs, job <= job',
           InHand' => InHand \/ job < job',
           \A j \in Jobs : j <= job /\ (InHand => j < job) => state'[j] = state[j]
    PROVE  ToldIsPast' /\ ToldInOrder'
<1>0. TypeOK /\ ToldIsPast /\ ToldInOrder /\ job \in 0 .. MaxJobs
  BY DEF IInv, TypeOK
<1>1. ASSUME NEW c \in Conns, NEW i \in 1 .. Len(received[c]), received[c][i].what # Beat
      PROVE  /\ received[c][i].what.job <= job'
             /\ InHand' => received[c][i].what.job < job'
             /\ received[c][i].what.status = state'[received[c][i].what.job]
  <2>1. received[c][i].what.job \in Jobs
    BY <1>0, <1>1, ToldIsOutcome
  <2>2. /\ received[c][i].what.job <= job
        /\ InHand => received[c][i].what.job < job
        /\ received[c][i].what.status = state[received[c][i].what.job]
    BY <1>0, <1>1 DEF ToldIsPast
  <2> QED BY <2>1, <2>2, <1>0 DEF Jobs
<1>2. ToldIsPast'
  BY <1>1 DEF ToldIsPast
<1>3. ToldInOrder'
  BY <1>0 DEF ToldInOrder
<1> QED BY <1>2, <1>3

\* workerLoop takes the oldest pending job.
LEMMA PickUpJobs ==
    ASSUME IInv, PickUp
    PROVE  IInv'
<1>0. TypeOK /\ JobsInOrder /\ Kept
  BY DEF IInv
<1>1. /\ pending \in Seq(Jobs) /\ pending # <<>> /\ job' = pending[1] /\ pending' = Tail(pending)
      /\ state' = [state EXCEPT ![job'] = "processing"]
      /\ worker' = "taking" /\ ~InHand
  BY <1>0 DEF PickUp, TypeOK, InHand
<1>2. /\ Tail(pending) \in Seq(Jobs)
      /\ Len(Tail(pending)) = Len(pending) - 1
      /\ \A i \in 1 .. Len(Tail(pending)) : Tail(pending)[i] = pending[i + 1]
      /\ Len(pending) \in Nat \ {0}
      /\ \A i \in 1 .. Len(pending) : pending[i] \in Jobs
  BY <1>1, HeadTailProperties, EmptySeq, ElementOfSeq
<1>3. /\ 1 \in 1 .. Len(pending)
      /\ \A i \in 1 .. Len(pending') : i + 1 \in 1 .. Len(pending) /\ 1 < i + 1
  BY <1>1, <1>2
<1>4. /\ job' \in Jobs /\ job < job' /\ job' <= submitted /\ state[job'] = "accepted"
      /\ state'[job'] = "processing"
      /\ \A j \in Jobs : j # job' => state'[j] = state[j]
      /\ state' \in [Jobs -> {"none", "accepted", "processing", "completed", "failed"}]
  BY <1>0, <1>1, <1>2, <1>3 DEF JobsInOrder, TypeOK
<1>5. EventTypeOK' /\ Connections' /\ NotStarted' /\ UNCHANGED <<received, main, order, submitted>>
  BY QuietEvents DEF PickUp, eventVars, peerVars
<1>6. TypeOK'
  <2>1. job' \in 0 .. MaxJobs
    BY <1>4 DEF Jobs
  <2> QED BY <1>0, <1>1, <1>2, <1>4, <1>5, <2>1 DEF TypeOK, PickUp
<1>7. JobsInOrder'
  <2>1. \A i \in 1 .. Len(pending') : pending'[i] \in Jobs /\ job' < pending'[i]
                                      /\ pending'[i] <= submitted
                                      /\ state[pending'[i]] = "accepted"
    BY <1>0, <1>1, <1>2, <1>3 DEF JobsInOrder
  <2>2. \A i \in 1 .. Len(pending') : state'[pending'[i]] = "accepted"
    BY <2>1, <1>4 DEF Jobs
  <2>3. \A i, k \in 1 .. Len(pending') : i < k => pending'[i] < pending'[k]
    BY <1>0, <1>1, <1>2, <1>3 DEF JobsInOrder
  <2>4. \A j \in Jobs : state'[j] = "none" <=> j > submitted'
    BY <1>0, <1>4, <1>5 DEF JobsInOrder
  <2>5. job' <= submitted' /\ job' # 0
    BY <1>4, <1>5 DEF Jobs
  <2> QED BY <2>1, <2>2, <2>3, <2>4, <2>5, <1>1, <1>4, <1>5 DEF JobsInOrder
<1>8. ToldIsPast' /\ ToldInOrder'
  <2>1. job' \in 0 .. MaxJobs /\ job <= job' /\ job < job' /\ job \in 0 .. MaxJobs
    BY <1>0, <1>4 DEF Jobs, TypeOK
  <2>2. \A j \in Jobs : j <= job => state'[j] = state[j]
    BY <2>1, <1>4 DEF Jobs
  <2> QED BY <2>1, <2>2, <1>5, ToldStays
<1>9. Kept'
  <2>1. \A j \in Jobs : Active(state'[j]) <=> Active(state[j])
    BY <1>4 DEF Active
  <2>2. Len(order) > Retained => order[1] \in Jobs
    BY <1>0, LenProperties, ElementOfSeq, JobsAreBounded DEF TypeOK
  <2> QED BY <2>1, <2>2, <1>0, <1>5 DEF Kept
<1> QED BY <1>5, <1>6, <1>7, <1>8, <1>9 DEF IInv

\* workerLoop settles the job in hand.
LEMMA PhotographJobs ==
    ASSUME IInv, Photograph
    PROVE  IInv'
<1>0. TypeOK /\ JobsInOrder /\ Kept
  BY DEF IInv
<1>1. PICK s \in {"completed", "failed"} : state' = [state EXCEPT ![job] = s]
  BY DEF Photograph
<1>2. /\ job \in Jobs /\ state[job] = "processing" /\ job <= submitted
      /\ worker' = "telling" /\ InHand /\ worker = "taking"
      /\ order \in Seq(Jobs) /\ order' = Pruned(order, state')
  BY <1>0 DEF Photograph, JobsInOrder, InHand, TypeOK, Jobs
<1>3. /\ state' \in [Jobs -> {"none", "accepted", "processing", "completed", "failed"}]
      /\ state'[job] = s
      /\ \A j \in Jobs : j # job => state'[j] = state[j]
      /\ \A j \in Jobs : Active(state'[j]) => Active(state[j])
      /\ \A j \in Jobs : state'[j] = "none" <=> state[j] = "none"
  BY <1>0, <1>1, <1>2 DEF TypeOK, Active
<1>4. /\ EventTypeOK' /\ Connections' /\ NotStarted'
      /\ UNCHANGED <<received, main, pending, submitted, job>>
  BY QuietEvents DEF Photograph, eventVars, peerVars
<1>5. /\ order' \in Seq(Jobs)
      /\ order # <<>> => order' # <<>> /\ order'[Len(order')] = order[Len(order)]
      /\ \A i \in 1 .. Len(order') : \E k \in 1 .. Len(order) : order'[i] = order[k]
      /\ \A k \in 1 .. Len(order) : Settled(state'[order[k]]) \/ Contains(order', order[k])
      /\ Len(order') > Retained => ~Settled(state'[order'[1]])
  <2> DEFINE t == state'
             p == Pruned(order, t)
  <2>1. order' = p
    BY <1>2
  <2> HIDE DEF t
  <2>2. /\ p \in Seq(Jobs)
        /\ order # <<>> => p # <<>> /\ p[Len(p)] = order[Len(order)]
        /\ \A i \in 1 .. Len(p) : \E k \in 1 .. Len(order) : p[i] = order[k]
        /\ \A k \in 1 .. Len(order) : Settled(t[order[k]]) \/ Contains(p, order[k])
        /\ Len(p) > Retained => ~Settled(t[p[1]])
    BY <1>2, PrunedKeeps, Zenon
  <2> HIDE DEF p
  <2> QED BY <2>1, <2>2, Zenon DEF t
<1>6. TypeOK'
  BY <1>0, <1>2, <1>3, <1>4, <1>5 DEF TypeOK, Photograph
<1>7. JobsInOrder'
  <2>1. \A i \in 1 .. Len(pending) : pending[i] \in Jobs /\ pending[i] # job
    BY <1>0, <1>2, ElementOfSeq DEF JobsInOrder, TypeOK, Jobs
  <2>2. Settled(state'[job'])
    BY <1>3, <1>4 DEF Settled
  <2> QED BY <2>1, <2>2, <1>0, <1>2, <1>3, <1>4 DEF JobsInOrder, InHand
<1>8. ToldIsPast' /\ ToldInOrder'
  <2>1. job' \in 0 .. MaxJobs /\ job <= job' /\ job \in Nat
    BY <1>2, <1>4 DEF Jobs
  <2>2. \A j \in Jobs : j < job => state'[j] = state[j]
    BY <1>2, <1>3 DEF Jobs
  <2> QED BY <2>1, <2>2, <1>2, <1>4, ToldStays
<1>9. Kept'
  <2>1. \A k \in 1 .. Len(order) : order[k] \in Jobs /\ order[k] <= submitted
    BY <1>0, <1>2, ElementOfSeq DEF Kept
  <2>2. \A i \in 1 .. Len(order') : order'[i] \in Jobs /\ order'[i] <= submitted
    BY <2>1, <1>5
  <2>3. ASSUME NEW j \in Jobs, Active(state'[j])
        PROVE  Contains(order', j)
    <3>1. PICK k \in 1 .. Len(order) : order[k] = j
      BY <2>3, <1>0, <1>3 DEF Kept, Contains
    <3>2. ~Settled(state'[j])
      BY <2>3 DEF Active, Settled
    <3> QED BY <3>1, <3>2, <1>5
  <2>4. Len(order') > Retained => Active(state'[order'[1]])
    <3> SUFFICES ASSUME Len(order') > Retained
                 PROVE  Active(state'[order'[1]])
      OBVIOUS
    <3>1. 1 \in 1 .. Len(order')
      BY <1>5, LenProperties, JobsAreBounded
    <3>2. order'[1] \in Jobs /\ order'[1] <= submitted
      BY <3>1, <2>2
    <3>3. ~(order'[1] > submitted)
      BY <3>2, <1>0 DEF TypeOK, Jobs
    <3>4. state'[order'[1]] # "none"
      BY <3>2, <3>3, <1>0, <1>3 DEF JobsInOrder
    <3> QED BY <3>2, <3>4, <1>3, <1>5 DEF Active, Settled
  <2> QED BY <2>2, <2>3, <2>4, <1>0, <1>4, <1>5 DEF Kept
<1> QED BY <1>4, <1>6, <1>7, <1>8, <1>9 DEF IInv

\* A heartbeat says nothing of jobs; the outcome of the one in hand is news.
LEMMA PublishTold ==
    ASSUME IInv, NEW w \in {Beat} \cup Outcomes, Publish(w),
           UNCHANGED <<state, job>>, InHand' => InHand,
           w # Beat => InHand /\ ~InHand' /\ w.job = job /\ w.status = state[job]
    PROVE  ToldIsPast' /\ ToldInOrder'
<1>0. TypeOK /\ ToldIsPast /\ ToldInOrder /\ JobsInOrder
  BY DEF IInv
<1>1. CASE UNCHANGED received
  BY <1>0, <1>1 DEF ToldIsPast, ToldInOrder
<1>2. CASE /\ client \in Conns
           /\ received' = [received EXCEPT ![client] =
                   Append(@, [seq |-> sequence + 1, what |-> w])]
  <2>1. /\ Len(received[client]) \in Nat
        /\ \A c \in Conns : \A i \in 1 .. Len(received'[c]) :
                  \/ i \in 1 .. Len(received[c]) /\ received'[c][i] = received[c][i]
                  \/ /\ c = client /\ i = Len(received[client]) + 1
                     /\ received'[c][i] = [seq |-> sequence + 1, what |-> w]
    BY <1>0, <1>2, Sent
  <2> DEFINE New(c, i) == /\ c = client /\ i = Len(received[client]) + 1
                          /\ received'[c][i].what = w
             Old(c, i) == i \in 1 .. Len(received[c]) /\ received'[c][i] = received[c][i]
  <2>2. \A c \in Conns : \A i \in 1 .. Len(received'[c]) : Old(c, i) \/ New(c, i)
    BY <2>1
  <2>3. ASSUME NEW c \in Conns, NEW i \in 1 .. Len(received[c]), received[c][i].what # Beat
        PROVE  /\ received[c][i].what.job \in Nat
               /\ received[c][i].what.job <= job
               /\ InHand => received[c][i].what.job < job
               /\ received[c][i].what.status = state[received[c][i].what.job]
    BY <2>3, <1>0, ToldIsOutcome DEF ToldIsPast, Jobs
  <2>4. job \in Nat
    BY <1>0 DEF TypeOK
  <2>5. ToldIsPast'
    <3> SUFFICES ASSUME NEW c \in Conns, NEW i \in 1 .. Len(received'[c]),
                        received'[c][i].what # Beat
                 PROVE  /\ received'[c][i].what.job <= job
                        /\ InHand' => received'[c][i].what.job < job
                        /\ received'[c][i].what.status = state[received'[c][i].what.job]
      BY DEF ToldIsPast
    <3>1. CASE Old(c, i)
      BY <3>1, <2>3
    <3>2. CASE New(c, i)
      BY <3>2, <2>4
    <3> QED BY <3>1, <3>2, <2>2
  <2>6. ASSUME NEW c \in Conns, NEW i \in 1 .. Len(received'[c]),
               NEW k \in 1 .. Len(received'[c]), i < k,
               received'[c][i].what # Beat, received'[c][k].what # Beat
        PROVE  received'[c][i].what.job < received'[c][k].what.job
    <3>1. CASE Old(c, i) /\ Old(c, k)
      BY <3>1, <2>6, <1>0 DEF ToldInOrder
    <3>2. CASE Old(c, i) /\ New(c, k)
      BY <3>2, <2>6, <2>3
    <3>3. CASE New(c, i)
      <4>1. k > Len(received[client]) + 1 /\ c = client
        BY <3>3, <2>6, <2>1
      <4> QED BY <4>1, <2>1, <2>2
    <3> QED BY <3>1, <3>2, <3>3, <2>2
  <2>7. ASSUME NEW c \in Conns, NEW d \in Conns, NEW i \in 1 .. Len(received'[c]),
               NEW k \in 1 .. Len(received'[d]), c # d,
               received'[c][i].what # Beat, received'[d][k].what # Beat
        PROVE  received'[c][i].what.job # received'[d][k].what.job
    <3>1. CASE Old(c, i) /\ Old(d, k)
      BY <3>1, <2>7, <1>0 DEF ToldInOrder
    <3>2. CASE Old(c, i) /\ New(d, k)
      BY <3>2, <2>7, <2>3, <2>4
    <3>3. CASE New(c, i) /\ Old(d, k)
      BY <3>3, <2>7, <2>3, <2>4
    <3> QED BY <3>1, <3>2, <3>3, <2>2, <2>7
  <2>8. ToldInOrder'
    BY <2>6, <2>7 DEF ToldInOrder
  <2> QED BY <2>5, <2>8
<1>3. client # None => client \in Conns
  BY <1>0 DEF TypeOK, EventTypeOK
<1> QED BY <1>1, <1>2, <1>3 DEF Publish, peerVars, CloseClient

\* publishPhotoCompleted tells of a settled job, outside the lock.
LEMMA TellJobs ==
    ASSUME IInv, Tell
    PROVE  IInv'
<1> DEFINE w == [job |-> job, status |-> state[job]]
<1>0. TypeOK /\ JobsInOrder /\ Kept
  BY DEF IInv
<1>1. job \in Jobs /\ Settled(state[job]) /\ InHand /\ ~InHand'
  BY <1>0 DEF Tell, JobsInOrder, InHand, TypeOK, Jobs
<1>2. w \in Outcomes /\ w # Beat /\ w.job = job /\ w.status = state[job]
  BY <1>1, BeatIsNoOutcome DEF Outcomes, Settled
<1>3. Publish(w) /\ UNCHANGED <<running, listening, threadVars, main, submitted, state,
                                pending, order, stopRequested, job>>
  BY DEF Tell
<1> HIDE DEF w
<1>4. ToldIsPast' /\ ToldInOrder'
  BY <1>1, <1>2, <1>3, PublishTold
<1>5. /\ EventTypeOK' /\ Connections' /\ NotStarted'
      /\ received' \in [Conns -> Seq(Happening)]
  BY <1>2, <1>3, PublishConnections
<1>6. TypeOK'
  BY <1>0, <1>3, <1>5 DEF TypeOK, Tell, Happening
<1>7. JobsInOrder'
  BY <1>0, <1>1, <1>3 DEF JobsInOrder, InHand
<1>8. Kept'
  BY <1>0, <1>3 DEF Kept
<1> QED BY <1>4, <1>5, <1>6, <1>7, <1>8 DEF IInv

\* A heartbeat tells of no job.
LEMMA HeartbeatJobs ==
    ASSUME IInv, HeartbeatTurn, UNCHANGED <<jobVars, main>>
    PROVE  IInv'
<1>0. TypeOK /\ JobsInOrder /\ Kept
  BY DEF IInv
<1>1. CASE Publish(Beat) /\ UNCHANGED <<running, listening, threadVars>>
  <2>1. ToldIsPast' /\ ToldInOrder'
    BY <1>1, PublishTold DEF jobVars, InHand
  <2>2. /\ EventTypeOK' /\ Connections' /\ NotStarted'
        /\ received' \in [Conns -> Seq(Happening)]
    BY <1>1, PublishConnections
  <2>3. TypeOK'
    BY <1>0, <2>2 DEF TypeOK, Happening, jobVars
  <2>4. JobsInOrder' /\ Kept'
    BY <1>0 DEF JobsInOrder, InHand, Kept, jobVars
  <2> QED BY <2>1, <2>2, <2>3, <2>4 DEF IInv
<1>2. CASE ~running /\ beater' = "off" /\ UNCHANGED <<clientVars, peerVars>>
           /\ UNCHANGED <<running, listening, acceptor, taken>>
  <2> USE <1>2 DEF clientVars, peerVars
  <2>1. JobsInOrder' /\ ToldIsPast' /\ ToldInOrder' /\ Kept'
    BY QuietJobs
  <2>2. EventTypeOK' /\ NotStarted'
    BY <1>0 DEF IInv, TypeOK, EventTypeOK, NotStarted
  <2>3. Connections'
    BY DEF IInv, Connections, NoneForgotten, Numbered
  <2>4. TypeOK'
    BY <1>0, <2>2 DEF TypeOK, jobVars
  <2> QED BY <2>1, <2>2, <2>3, <2>4 DEF IInv
<1> QED BY <1>1, <1>2 DEF HeartbeatTurn, threadVars

\* stop() empties the queue and cancels what was in it.
LEMMA StopJobsJobs ==
    ASSUME IInv, StopJobs
    PROVE  IInv'
<1>0. TypeOK /\ JobsInOrder /\ Kept
  BY DEF IInv
<1>1. state' = [j \in Jobs |-> IF Contains(pending, j) THEN "failed" ELSE state[j]]
  BY DEF StopJobs, Cancelled
<1>2. ASSUME NEW j \in Jobs, Contains(pending, j)
      PROVE  job < j /\ state[j] = "accepted" /\ state'[j] = "failed"
  BY <1>0, <1>1, <1>2 DEF Contains, JobsInOrder
<1>3. /\ \A j \in Jobs : ~Contains(pending, j) => state'[j] = state[j]
      /\ state' \in [Jobs -> {"none", "accepted", "processing", "completed", "failed"}]
  BY <1>0, <1>1 DEF TypeOK
<1>4. /\ EventTypeOK' /\ Connections' /\ NotStarted' /\ main' = "joining"
      /\ UNCHANGED <<received, submitted, order, worker, job>> /\ pending' = <<>>
  BY QuietEvents DEF StopJobs, eventVars, peerVars
<1>5. job \in Nat
  BY <1>0 DEF TypeOK
<1>6. \A j \in Jobs : j <= job => state'[j] = state[j]
  BY <1>2, <1>3, <1>5 DEF Jobs
<1>7. TypeOK'
  BY <1>0, <1>3, <1>4, EmptySeq DEF TypeOK, StopJobs
<1>8. JobsInOrder'
  <2>1. \A j \in Jobs : state'[j] = "none" <=> state[j] = "none"
    BY <1>2, <1>3
  <2>2. InHand => job \in Jobs /\ state'[job] = state[job]
    BY <1>0, <1>5, <1>6 DEF JobsInOrder, TypeOK, Jobs
  <2>3. Len(pending') = 0
    BY <1>4
  <2> QED BY <2>1, <2>2, <2>3, <1>0, <1>4 DEF JobsInOrder, InHand
<1>9. ToldIsPast' /\ ToldInOrder'
  <2>1. job' \in 0 .. MaxJobs /\ job <= job' /\ (InHand' => InHand)
    BY <1>0, <1>4, <1>5 DEF TypeOK, InHand
  <2> QED BY <2>1, <1>4, <1>6, ToldStays
<1>10. Kept'
  <2>1. \A j \in Jobs : Active(state'[j]) => Active(state[j])
    BY <1>2, <1>3 DEF Active
  <2> QED BY <2>1, <1>0, <1>4 DEF Kept
<1> QED BY <1>4, <1>7, <1>8, <1>9, <1>10 DEF IInv

\* IInv is inductive.
LEMMA NextInv == IInv /\ [Next]_vars => IInv'
<1> SUFFICES ASSUME IInv, [Next]_vars PROVE IInv'
  OBVIOUS
<1>0. TypeOK /\ JobsInOrder
  BY DEF IInv
<1>1. CASE Submit
  BY <1>1, SubmitJobs
<1>2. CASE PickUp
  BY <1>2, PickUpJobs
<1>3. CASE Photograph
  BY <1>3, PhotographJobs
<1>4. CASE Tell
  BY <1>4, TellJobs
<1>5. CASE StopJobs
  BY <1>5, StopJobsJobs
<1>6. CASE HeartbeatTurn /\ UNCHANGED <<jobVars, main>>
  BY <1>6, HeartbeatJobs
<1>7. CASE WorkerEnds \/ JoinWorker
  <2>1. /\ UNCHANGED <<eventVars, submitted, state, pending, order, stopRequested, job>>
        /\ main' = main \/ main' = "joined"
        /\ worker' \in {"ended", "none"}
    BY <1>7 DEF WorkerEnds, JoinWorker
  <2>2. EventTypeOK' /\ Connections' /\ NotStarted' /\ UNCHANGED received
    BY <2>1, QuietEvents DEF eventVars, peerVars
  <2>3. TypeOK'
    BY <1>0, <2>1, <2>2 DEF TypeOK
  <2>4. JobsInOrder'
    BY <1>0, <2>1 DEF JobsInOrder, InHand
  <2>5. ToldIsPast' /\ ToldInOrder'
    BY <2>1, <2>2 DEF IInv, ToldIsPast, ToldInOrder, InHand
  <2>6. Kept'
    BY <2>1 DEF IInv, Kept
  <2> QED BY <2>2, <2>3, <2>4, <2>5, <2>6 DEF IInv
<1>8. CASE StopHttp \/ UNCHANGED vars
  <2>1. UNCHANGED <<eventVars, jobVars>> /\ (main' = main \/ main' = "quiet")
    BY <1>8 DEF StopHttp, vars
  <2>2. EventTypeOK' /\ Connections' /\ NotStarted' /\ UNCHANGED received
    BY <2>1, QuietEvents DEF eventVars, peerVars
  <2>3. JobsInOrder' /\ ToldIsPast' /\ ToldInOrder' /\ Kept'
    BY <2>1, <2>2, QuietJobs
  <2>4. TypeOK'
    BY <1>0, <2>1, <2>2 DEF TypeOK, jobVars
  <2> QED BY <2>2, <2>3, <2>4 DEF IInv
<1>9. CASE StartEvents \/ StopEvents
  <2>1. /\ UNCHANGED jobVars
        /\ main' \in {"serving", "marked", "closing", "off"}
        /\ main' = "serving" => main = "starting"
    BY <1>9 DEF StartEvents, StopEvents
  <2>2. EventTypeOK' /\ Connections' /\ NotStarted' /\ UNCHANGED received
    BY <1>9, MainConnections
  <2>3. JobsInOrder' /\ ToldIsPast' /\ ToldInOrder' /\ Kept'
    BY <2>1, <2>2, QuietJobs
  <2>4. TypeOK'
    BY <1>0, <2>1, <2>2 DEF TypeOK, jobVars
  <2> QED BY <2>2, <2>3, <2>4 DEF IInv
<1>10. CASE /\ Acceptor \/ Elapse \/ \E c \in Conns : Knock(c)
            /\ UNCHANGED <<jobVars, main>>
  <2>1. EventTypeOK' /\ Connections' /\ NotStarted' /\ UNCHANGED received
    BY <1>10, AcceptorConnections
  <2>2. JobsInOrder' /\ ToldIsPast' /\ ToldInOrder' /\ Kept'
    BY <1>10, <2>1, QuietJobs
  <2>3. TypeOK'
    BY <1>0, <1>10, <2>1 DEF TypeOK, jobVars
  <2> QED BY <2>1, <2>2, <2>3 DEF IInv
<1> QED BY <1>1, <1>2, <1>3, <1>4, <1>5, <1>6, <1>7, <1>8, <1>9, <1>10
        DEF Next, Worker, Main

\* It holds throughout.
LEMMA InvHolds == Spec => []IInv
BY InitInv, NextInv, PTL DEF Spec

-----------------------------------------------------------------------------
(* What follows from it *)

\* The types of the jobs, the event service and what was sent.
THEOREM TypesHold == Spec => []TypeOK
<1>1. IInv => TypeOK
  BY DEF IInv
<1> QED BY <1>1, InvHolds, PTL

\* The service holds no connection open but its client and the one the accept
\* thread is about to hand over, however clients replace each other.
THEOREM NoConnectionForgotten == Spec => []NoneForgotten
<1>1. IInv => NoneForgotten
  BY DEF IInv, Connections
<1> QED BY <1>1, InvHolds, PTL

\* Jobs are told of in order, once, with the outcome a status request gives,
\* and the events of a connection are numbered without a gap.
THEOREM JobsAreToldOnceAndTruly == Spec => []ToldOnceAndTruly
<1>1. IInv => ToldOnceAndTruly
  <2> SUFFICES ASSUME IInv PROVE ToldOnceAndTruly
    OBVIOUS
  <2>1. Numbered
    BY DEF IInv, Connections
  <2>2. \A c \in Conns : \A i, k \in 1 .. Len(received[c]) :
           i < k /\ Beat \notin {received[c][i].what, received[c][k].what} =>
               received[c][i].what.job < received[c][k].what.job
    BY DEF IInv, ToldInOrder
  <2>3. ASSUME NEW c \in Conns, NEW d \in Conns, NEW e \in Told(c)
        PROVE  /\ e.status = state[e.job]
               /\ c # d => \A f \in Told(d) : e.job # f.job
    <3>1. PICK i \in 1 .. Len(received[c]) : e = received[c][i].what /\ e # Beat
      BY DEF Told
    <3>2. e.status = state[e.job]
      BY <3>1 DEF IInv, ToldIsPast
    <3>3. ASSUME c # d, NEW f \in Told(d)
          PROVE  e.job # f.job
      <4>1. PICK k \in 1 .. Len(received[d]) : f = received[d][k].what /\ f # Beat
        BY DEF Told
      <4> QED BY <3>1, <3>3, <4>1 DEF IInv, ToldInOrder
    <3> QED BY <3>2, <3>3
  <2> QED BY <2>1, <2>2, <2>3 DEF ToldOnceAndTruly
<1> QED BY <1>1, InvHolds, PTL

\* A job that is not settled can be asked for, so can the last one, and no
\* more is kept than permitted except behind one that is not settled.
THEOREM JobsAreAnswerable == Spec => []Answerable
<1>1. IInv => Answerable
  <2> SUFFICES ASSUME IInv PROVE Answerable
    OBVIOUS
  <2>0. TypeOK /\ Kept
    BY DEF IInv
  <2>1. ASSUME NEW j \in Jobs, submitted = j
        PROVE  Contains(order, j)
    <3>1. order # <<>> /\ order[Len(order)] = j /\ order \in Seq(Jobs)
      BY <2>0, <2>1 DEF Kept, Jobs, TypeOK
    <3>2. Len(order) \in 1 .. Len(order)
      BY <3>1, EmptySeq
    <3> QED BY <3>1, <3>2 DEF Contains
  <2> QED BY <2>0, <2>1 DEF Answerable, Kept
<1> QED BY <1>1, InvHolds, PTL
=============================================================================
