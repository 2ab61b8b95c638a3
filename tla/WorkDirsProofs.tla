--------------------------- MODULE WorkDirsProofs ---------------------------
(***************************************************************************)
(* What the work directories promise, whatever the number of captures, of  *)
(* photos and of time stamps, over any number of boots.                    *)
(*                                                                         *)
(* The invariant: the -d directory is all there is on tmpfs; the SD holds  *)
(* no more directories than captures have been made, so a rescue finds a   *)
(* name; a copy under way has what it has been given and will be given the *)
(* rest; nothing else is torn; and, where no stamp is used twice, stamps   *)
(* tell the directories apart and a description lists what has not gone up *)
(* of the photos next to it, under the path they have or had on tmpfs.     *)
(***************************************************************************)
EXTENDS WorkDirs, FiniteSetTheorems, TLAPS

Shot == {s \in Shots : taken[s] # None}
Sd == {p \in DOMAIN dirs : p.fs = "sd"}

(* The types, of the move and of the clock too. *)
Typed ==
    /\ TypeOK
    /\ dirs \in [DOMAIN dirs -> Dirs]
    /\ taken \in [Shots -> Stamps \cup {None}]
    /\ move \in [dst : Paths \cup {None}, todo : SUBSET Items, now : SUBSET Items,
                 ok : BOOLEAN]

(* The -d directory is the only one on tmpfs. *)
OneOnTmpfs ==
    /\ own # None => own.fs = "tmpfs"
    /\ pc = "off" => \A p \in DOMAIN dirs : p.fs = "sd"
    /\ pc \in {"build", "upload", "copy"} \/ own # None =>
           \A p \in DOMAIN dirs : p.fs = "tmpfs" => p = own
    /\ \A p \in DOMAIN dirs : p.fs = "tmpfs" => dirs[p].torn = {}
    /\ pc = "copy" => own # None

(* There are no more directories on the SD than captures to rescue. *)
Rescuing == own # None /\ pc \in {"build", "upload", "rescue"}

RoomLeft ==
    /\ IsFiniteSet(Sd)
    /\ Cardinality(Sd) <= Cardinality(Shot)
    /\ Rescuing => Cardinality(Sd) < Cardinality(Shot)

(* How far a move has got: the copy, the items to do and the one at hand. *)
Copied(k) == dirs[move.dst].photo[k] = dirs[own].photo[k]

MoveInStep ==
    pc = "copy" =>
        /\ move.dst.base[1] = own.base[1]
        /\ \A k \in Photos :
               /\ dirs[move.dst].photo[k] = None \/ Copied(k)
               /\ <<"photo", k>> \in move.todo => dirs[move.dst].photo[k] = None
               /\ move.ok /\ dirs[own].photo[k] # None =>
                      \/ <<"photo", k>> \in move.todo \cup move.now
                      \/ Copied(k) /\ k \notin dirs[move.dst].torn
               /\ <<"photo", k>> \in move.now => Copied(k)
               /\ move.ok /\ k \in dirs[move.dst].torn => <<"photo", k>> \in move.now
        /\ \A b \in Bases : dirs[move.dst].desc[b].is = "whole" =>
               dirs[move.dst].desc[b] = dirs[own].desc[b]

(* Without a rescue cut short, a torn photo is one that is being copied. *)
TornInMove ==
    ~cut => /\ ~acceptedTorn
            /\ \A p \in DOMAIN dirs : dirs[p].torn # {} => pc = "copy" /\ p = move.dst

(* Where no stamp is used twice, stamps tell the directories of captures. *)
StampsTell ==
    StampsDiffer =>
        /\ \A p \in DOMAIN dirs : \E s \in Shots : taken[s] = p.base[1]
        /\ Rescuing => \A p \in DOMAIN dirs : p.fs = "sd" => p.base[1] # own.base[1]

(* A description lists what is left of its directory, where the directory   *)
(* is or where it was before it was rescued.                                *)
Lists(p, d) ==
    /\ d.at = p \/ (d.at # None /\ d.at.fs = "tmpfs" /\ p.fs = "sd" /\ d.at.base[1] = p.base[1])
    /\ \A k \in Photos : HasPhoto(p, k) => k \in d.left \/ <<dirs[p].photo[k], k>> \in accepted

DescsList ==
    StampsDiffer => \A p \in DOMAIN dirs, b \in Bases :
        dirs[p].desc[b].is = "whole" => Lists(p, dirs[p].desc[b])

IInv ==
    /\ Typed
    /\ OneOnTmpfs
    /\ RoomLeft
    /\ MoveInStep
    /\ TornInMove
    /\ StampsTell
    /\ DescsList

-----------------------------------------------------------------------------
(* Directories *)

\* The fields of a path.
LEMMA PathIs ==
    \A p \in Paths : /\ p # None /\ p.fs \in {"tmpfs", "sd"} /\ p.base \in Bases
                     /\ p.base[1] \in Stamps /\ p = [fs |-> p.fs, base |-> p.base]
BY NoneIsApart DEF Paths, Bases

\* mkdir leaves what is there alone.
LEMMA MadeIs ==
    ASSUME NEW p, NEW d
    PROVE  /\ DOMAIN Made(p, d) = DOMAIN dirs \cup {p}
           /\ \A q \in DOMAIN dirs : Made(p, d)[q] = dirs[q]
           /\ p \notin DOMAIN dirs => Made(p, d)[p] = d
           /\ dirs \in [DOMAIN dirs -> Dirs] /\ d \in Dirs =>
                  Made(p, d) \in [DOMAIN dirs \cup {p} -> Dirs]
BY DEF Made, Exists

LEMMA EmptyIs ==
    /\ Empty \in Dirs
    /\ \A k \in Photos : Empty.photo[k] = None
    /\ Empty.torn = {}
    /\ \A b \in Bases : Empty.desc[b] = NoDesc
    /\ NoDesc.is = "none" /\ NoDesc \in Descs
<1>1. NoDesc \in Descs /\ NoDesc.is = "none"
  BY DEF NoDesc, Descs
<1> QED BY <1>1 DEF Empty, Dirs

\* The fields of a directory.
LEMMA DirIs ==
    ASSUME Typed, NEW p \in DOMAIN dirs
    PROVE  /\ p \in Paths
           /\ dirs[p] \in Dirs
           /\ dirs[p].photo \in [Photos -> Shots \cup {None}]
           /\ dirs[p].torn \subseteq Photos
           /\ dirs[p].desc \in [Bases -> Descs]
           /\ dirs[p] = [photo |-> dirs[p].photo, torn |-> dirs[p].torn, desc |-> dirs[p].desc]
<1>1. p \in Paths /\ dirs[p] \in Dirs
  BY DEF Typed, TypeOK
<1> QED BY <1>1 DEF Dirs

\* A set of naturals that is not empty has a least element.
LEMMA Least ==
    ASSUME NEW T, T \subseteq Nat, T # {}
    PROVE  \E x \in T : \A y \in T : x <= y
<1> DEFINE R == {ss \in Nat \X Nat : ss[1] < ss[2]}
<1>1. IsWellFoundedOn(R, Nat)
  BY NatLessThanWellFounded DEF OpToRel
<1> HIDE DEF R
<1>2. PICK x \in T : \A y \in T : ~ (<<y, x>> \in R)
  BY <1>1, WFMin
<1>3. ASSUME NEW y \in T
      PROVE  x <= y
  <2>1. x \in Nat /\ y \in Nat
    OBVIOUS
  <2>2. y < x => <<y, x>> \in R
    BY <2>1 DEF R
  <2> QED BY <1>2, <2>1, <2>2
<1> QED BY <1>3

\* While there is a directory to rescue, there is a name for it on the SD.
LEMMA NextFreeIs ==
    ASSUME Typed, RoomLeft, Rescuing, NEW stamp \in Stamps
    PROVE  /\ NextFree(stamp) \in Paths \ DOMAIN dirs
           /\ NextFree(stamp).fs = "sd"
           /\ NextFree(stamp).base[1] = stamp
<1> DEFINE N == Cardinality(Shots) + 1
           Name(n) == [fs |-> "sd", base |-> <<stamp, n>>]
           Free == {n \in 1 .. N : ~Exists(Name(n))}
<1>1. /\ IsFiniteSet(Shots) /\ Cardinality(Shots) \in Nat
      /\ Cardinality(Shot) <= Cardinality(Shots) /\ Cardinality(Shot) \in Nat
  <2>1. IsFiniteSet(Shots)
    BY WorkDirsAssumption
  <2>2. Shot \in SUBSET Shots
    BY DEF Shot
  <2> QED BY <2>1, <2>2, FS_Subset, FS_CardinalityType
<1>2. IsFiniteSet(Sd) /\ Cardinality(Sd) < Cardinality(Shot) /\ Cardinality(Sd) \in Nat
  BY FS_CardinalityType DEF RoomLeft
<1>3. \A n \in 1 .. N : Name(n) \in Paths /\ Name(n).fs = "sd" /\ Name(n).base[1] = stamp
  BY DEF Paths, Bases
<1>4. Free # {}
  <2> SUFFICES ASSUME \A n \in 1 .. N : Exists(Name(n))
               PROVE  FALSE
    OBVIOUS
  <2> DEFINE f == [n \in 1 .. N |-> Name(n)]
  <2>1. f \in [1 .. N -> Sd]
    BY <1>3 DEF Sd, Exists
  <2>2. \A m, n \in 1 .. N : f[m] = f[n] => m = n
    OBVIOUS
  <2>3. IsFiniteSet(1 .. N) /\ Cardinality(1 .. N) = N
    <3>1. 1 \in Int /\ N \in Int /\ ~(1 > N)
      BY <1>1
    <3> HIDE DEF N
    <3>2. IsFiniteSet(1 .. N) /\ Cardinality(1 .. N) = IF 1 > N THEN 0 ELSE N - 1 + 1
      BY <3>1, FS_Interval
    <3> QED BY <3>1, <3>2
  <2> HIDE DEF f
  <2>4. f \in Injection(1 .. N, Sd)
    BY <2>1, <2>2 DEF Injection, IsInjective
  <2>5. Cardinality(1 .. N) <= Cardinality(Sd)
    BY <2>4, <1>2, FS_Injection
  <2> QED BY <2>3, <2>5, <1>1, <1>2
<1>5. PICK n \in Free : \A m \in Free : n <= m
  <2>1. Free \subseteq Nat
    OBVIOUS
  <2> HIDE DEF Free
  <2> QED BY <1>4, <2>1, Least
<1>6. n \in 1 .. N /\ ~Exists(Name(n)) /\ \A m \in 1 .. n - 1 : Exists(Name(m))
  <2>1. n \in 1 .. N /\ ~Exists(Name(n))
    OBVIOUS
  <2>2. ASSUME NEW m \in 1 .. n - 1
        PROVE  Exists(Name(m))
    <3>1. m \in 1 .. N /\ ~(n <= m)
      BY <2>1, <1>1
    <3> QED BY <3>1, <1>5
  <2> QED BY <2>1, <2>2
<1> DEFINE P(x) == ~Exists(Name(x)) /\ \A m \in 1 .. x - 1 : Exists(Name(m))
           c == CHOOSE x \in 1 .. N : P(x)
<1>7. c \in 1 .. N /\ ~Exists(Name(c))
  <2> HIDE DEF Name, N
  <2> QED BY <1>6
<1>8. NextFree(stamp) = Name(c)
  BY DEF NextFree
<1> HIDE DEF c
<1> QED BY <1>3, <1>7, <1>8 DEF Exists

-----------------------------------------------------------------------------
(* What the steps do to directories *)

\* What doSnap leaves of the directories.
LEMMA QuickSnapDoes ==
    ASSUME Typed, OneOnTmpfs, NEW s \in Shots, NEW stamp \in Stamps, QuickSnap(s, stamp)
    PROVE  /\ own' \in Paths /\ own' \notin DOMAIN dirs
           /\ own'.fs = "tmpfs" /\ own'.base[1] = stamp
           /\ DOMAIN dirs' = DOMAIN dirs \cup {own'}
           /\ dirs' \in [DOMAIN dirs' -> Dirs]
           /\ \A p \in DOMAIN dirs : dirs'[p] = dirs[p]
           /\ \A k \in Photos : dirs'[own'].photo[k] = s
           /\ dirs'[own'].torn = {}
           /\ \A b \in Bases : dirs'[own'].desc[b] = NoDesc
           /\ taken[s] = None /\ taken' = [taken EXCEPT ![s] = stamp]
<1> DEFINE dir == [fs |-> "tmpfs", base |-> <<stamp, 1>>]
           new == [Empty EXCEPT !.photo = [k \in Photos |-> s]]
<1>1. own' = dir /\ dirs' = Made(dir, new) /\ taken[s] = None
      /\ taken' = [taken EXCEPT ![s] = stamp] /\ pc = "off"
  BY DEF QuickSnap
<1>2. /\ new \in Dirs /\ new.torn = {}
      /\ \A k \in Photos : new.photo[k] = s
      /\ \A b \in Bases : new.desc[b] = NoDesc
  BY EmptyIs DEF Dirs
<1>3. dir \in Paths /\ dir.fs = "tmpfs" /\ dir.base[1] = stamp
  <2>1. 1 \in 1 .. Cardinality(Shots) + 1
    BY WorkDirsAssumption, FS_CardinalityType
  <2> QED BY <2>1 DEF Paths, Bases
<1>4. dir \notin DOMAIN dirs
  BY <1>1, <1>3 DEF OneOnTmpfs
<1> HIDE DEF dir, new
<1>5. /\ DOMAIN Made(dir, new) = DOMAIN dirs \cup {dir}
      /\ \A q \in DOMAIN dirs : Made(dir, new)[q] = dirs[q]
      /\ Made(dir, new)[dir] = new
      /\ Made(dir, new) \in [DOMAIN dirs \cup {dir} -> Dirs]
  BY <1>2, <1>4, MadeIs DEF Typed
<1>6. /\ own' = dir /\ DOMAIN dirs' = DOMAIN dirs \cup {dir}
      /\ \A q \in DOMAIN dirs : dirs'[q] = dirs[q]
      /\ dirs'[own'] = new
      /\ dirs' \in [DOMAIN dirs' -> Dirs]
  BY <1>1, <1>5
<1> QED BY <1>1, <1>2, <1>3, <1>4, <1>6

\* What ensureWorkDirDesc leaves of them.
LEMMA BuildDoes ==
    ASSUME Typed, NEW failed \in SUBSET ToUpload, BuildWorkDirs(failed)
    PROVE  /\ DOMAIN dirs' = DOMAIN dirs
           /\ dirs' \in [DOMAIN dirs -> Dirs]
           /\ \A p \in DOMAIN dirs :
                  /\ dirs'[p].photo = dirs[p].photo /\ dirs'[p].torn = dirs[p].torn
                  /\ \A b \in Bases :
                         \/ dirs'[p].desc[b] = dirs[p].desc[b]
                         \/ dirs'[p].desc[b] =
                                [is |-> "whole", at |-> p,
                                 left |-> {k \in Photos : HasPhoto(p, k)}, acked |-> FALSE]
<1>1. ASSUME NEW p \in DOMAIN dirs
      PROVE  /\ WithDesc(p) \in Dirs
             /\ WithDesc(p).photo = dirs[p].photo /\ WithDesc(p).torn = dirs[p].torn
             /\ \A b \in Bases :
                    \/ WithDesc(p).desc[b] = dirs[p].desc[b]
                    \/ WithDesc(p).desc[b] =
                           [is |-> "whole", at |-> p,
                            left |-> {k \in Photos : HasPhoto(p, k)}, acked |-> FALSE]
  <2> DEFINE new == [is |-> "whole", at |-> p,
                     left |-> {k \in Photos : HasPhoto(p, k)}, acked |-> FALSE]
  <2>1. new \in Descs
    BY DirIs DEF Descs
  <2> HIDE DEF new
  <2>2. p.base \in Bases
    BY DirIs, PathIs
  <2>3. \/ WithDesc(p) = dirs[p]
        \/ WithDesc(p) = [dirs[p] EXCEPT !.desc[p.base] = new]
    BY DEF WithDesc, new
  <2>4. /\ dirs[p].photo \in [Photos -> Shots \cup {None}] /\ dirs[p].torn \subseteq Photos
        /\ dirs[p].desc \in [Bases -> Descs] /\ dirs[p] \in Dirs
    BY DirIs
  <2>5. CASE WithDesc(p) = [dirs[p] EXCEPT !.desc[p.base] = new]
    <3>1. /\ WithDesc(p).photo = dirs[p].photo /\ WithDesc(p).torn = dirs[p].torn
          /\ WithDesc(p).desc = [dirs[p].desc EXCEPT ![p.base] = new]
          /\ WithDesc(p) \in Dirs
      BY <2>1, <2>2, <2>4, <2>5 DEF Dirs
    <3> QED BY <2>1, <2>2, <2>4, <3>1 DEF new
  <2> QED BY <2>3, <2>4, <2>5
<1>2. dirs' = [p \in DOMAIN dirs |-> IF p \in ToUpload \ failed THEN WithDesc(p) ELSE dirs[p]]
  BY DEF BuildWorkDirs
<1>3. \A p \in DOMAIN dirs : dirs[p] \in Dirs
  BY DirIs
<1>4. \A p \in DOMAIN dirs : dirs'[p] = WithDesc(p) \/ dirs'[p] = dirs[p]
  BY <1>2
<1>5. DOMAIN dirs' = DOMAIN dirs /\ dirs' \in [DOMAIN dirs -> Dirs]
  BY <1>1, <1>2, <1>3
<1> QED BY <1>1, <1>4, <1>5

\* What uploadOneDesc leaves of the directories.
UploadLeaves(p, b, up, ack) ==
    LET d == dirs[p].desc[b] IN
    /\ d.is = "whole" /\ up \subseteq d.left /\ d \in Descs
    /\ \A k \in up : HasPhoto(d.at, k)
    /\ accepted' = accepted \cup {<<dirs[d.at].photo[k], k>> : k \in up}
    /\ acceptedTorn' = (acceptedTorn \/ \E k \in up : k \in dirs[d.at].torn)
    /\ DOMAIN dirs' = IF Complete(d, up, ack) THEN DOMAIN dirs \ {p} ELSE DOMAIN dirs
    /\ dirs' \in [DOMAIN dirs' -> Dirs]
    /\ \A r \in DOMAIN dirs' :
           /\ \A k \in Photos :
                  \/ dirs'[r].photo[k] = dirs[r].photo[k] /\ ~(r = d.at /\ k \in up)
                  \/ dirs'[r].photo[k] = None /\ r = d.at /\ k \in up
           /\ dirs'[r].torn \subseteq dirs[r].torn
           /\ \A c \in Bases :
                  \/ dirs'[r].desc[c] = dirs[r].desc[c]
                  \/ /\ r = p /\ c = b
                     /\ dirs'[r].desc[c] = [d EXCEPT !.left = @ \ up, !.acked = @ \/ ack]

LEMMA UploadDoes ==
    ASSUME Typed, NEW p \in DOMAIN dirs, NEW b \in Bases, NEW up \in SUBSET Photos,
           NEW ack \in BOOLEAN, UploadOneDesc(p, b, up, ack)
    PROVE  UploadLeaves(p, b, up, ack)
<1> DEFINE d == dirs[p].desc[b]
           q == d.at
           new == [d EXCEPT !.left = @ \ up, !.acked = @ \/ ack]
           rest == IF up = {} THEN dirs ELSE WithoutPhotos(q, up)
<1>1. d \in Descs
  BY DirIs
<1>2. /\ d.is = "whole" /\ up \subseteq d.left
      /\ \A k \in up : HasPhoto(q, k)
      /\ accepted' = accepted \cup {<<dirs[q].photo[k], k>> : k \in up}
      /\ acceptedTorn' = (acceptedTorn \/ \E k \in up : k \in dirs[q].torn)
      /\ dirs' = IF Complete(d, up, ack) THEN Restrict(rest, DOMAIN rest \ {p})
                 ELSE [rest EXCEPT ![p].desc[b] = new]
  BY DEF UploadOneDesc, PendingDesc, Openable
<1>3. new \in Descs
  BY <1>1 DEF Descs
<1>4. \A r \in DOMAIN dirs :
          /\ dirs[r] \in Dirs /\ dirs[r].photo \in [Photos -> Shots \cup {None}]
          /\ dirs[r].torn \subseteq Photos /\ dirs[r].desc \in [Bases -> Descs]
  BY DirIs
<1>5. dirs \in [DOMAIN dirs -> Dirs]
  BY DEF Typed
<1> HIDE DEF d, new, UploadLeaves
<1>6. /\ DOMAIN rest = DOMAIN dirs
      /\ rest \in [DOMAIN dirs -> Dirs]
      /\ \A r \in DOMAIN dirs :
             /\ \A k \in Photos :
                    \/ rest[r].photo[k] = dirs[r].photo[k] /\ ~(r = q /\ k \in up)
                    \/ rest[r].photo[k] = None /\ r = q /\ k \in up
             /\ rest[r].torn \subseteq dirs[r].torn
             /\ rest[r].desc = dirs[r].desc
  <2>1. CASE up = {}
    BY <2>1, <1>5
  <2>2. CASE up # {}
    <3> DEFINE np == [k \in Photos |-> IF k \in up THEN None ELSE dirs[q].photo[k]]
               nd == [dirs[q] EXCEPT !.photo = np, !.torn = @ \ up]
    <3>1. q \in DOMAIN dirs
      BY <1>2, <2>2 DEF HasPhoto, Exists
    <3>2. rest = [dirs EXCEPT ![q].photo = np, ![q].torn = @ \ up]
      BY <2>2 DEF WithoutPhotos
    <3>3. np \in [Photos -> Shots \cup {None}]
      BY <1>4, <3>1
    <3> HIDE DEF np, rest
    <3>4. /\ rest[q].photo = np /\ rest[q].torn = dirs[q].torn \ up
          /\ rest[q].desc = dirs[q].desc /\ rest[q] \in Dirs
      BY <3>1, <3>2, <3>3, <1>4 DEF Dirs
    <3>5. /\ DOMAIN rest = DOMAIN dirs
          /\ \A r \in DOMAIN dirs : r # q => rest[r] = dirs[r]
          /\ rest = [r \in DOMAIN dirs |-> rest[r]]
      BY <3>2, <1>5
    <3>6. rest \in [DOMAIN dirs -> Dirs]
      BY <3>4, <3>5, <1>4
    <3> QED BY <3>1, <3>4, <3>5, <3>6, <1>4 DEF np
  <2> QED BY <2>1, <2>2
<1> HIDE DEF rest
<1>7. CASE Complete(d, up, ack)
  <2>1. dirs' = [r \in DOMAIN dirs \ {p} |-> rest[r]]
    BY <1>2, <1>6, <1>7 DEF Restrict
  <2>2. /\ DOMAIN dirs' = DOMAIN dirs \ {p} /\ dirs' \in [DOMAIN dirs' -> Dirs]
        /\ \A r \in DOMAIN dirs' : dirs'[r] = rest[r] /\ r \in DOMAIN dirs
    BY <2>1, <1>6
  <2>3. \A r \in DOMAIN dirs' :
            /\ \A k \in Photos :
                   \/ dirs'[r].photo[k] = dirs[r].photo[k] /\ ~(r = q /\ k \in up)
                   \/ dirs'[r].photo[k] = None /\ r = q /\ k \in up
            /\ dirs'[r].torn \subseteq dirs[r].torn
            /\ dirs'[r].desc = dirs[r].desc
    BY <2>2, <1>6
  <2> QED BY <2>2, <2>3, <1>1, <1>2, <1>7 DEF d, new, UploadLeaves
<1>8. CASE ~Complete(d, up, ack)
  <2>1. dirs' = [rest EXCEPT ![p].desc[b] = new]
    BY <1>2, <1>8
  <2> DEFINE nd == [rest[p] EXCEPT !.desc[b] = new]
  <2>2. /\ nd \in Dirs /\ nd.photo = rest[p].photo /\ nd.torn = rest[p].torn
        /\ nd.desc = [dirs[p].desc EXCEPT ![b] = new]
    <3>1. rest[p] \in Dirs /\ rest[p].desc = dirs[p].desc
      BY <1>6
    <3> QED BY <3>1, <1>3 DEF Dirs
  <2>3. dirs' = [rest EXCEPT ![p] = nd]
    BY <2>1
  <2> HIDE DEF nd
  <2>4. /\ DOMAIN dirs' = DOMAIN dirs /\ dirs' \in [DOMAIN dirs' -> Dirs]
        /\ dirs'[p] = nd /\ \A r \in DOMAIN dirs : r # p => dirs'[r] = rest[r]
    BY <2>2, <2>3, <1>6
  <2>5. \A c \in Bases : nd.desc[c] = dirs[p].desc[c] \/ (c = b /\ nd.desc[c] = new)
    BY <2>2, <1>4
  <2>6. \A r \in DOMAIN dirs' :
            /\ \A k \in Photos :
                   \/ dirs'[r].photo[k] = dirs[r].photo[k] /\ ~(r = q /\ k \in up)
                   \/ dirs'[r].photo[k] = None /\ r = q /\ k \in up
            /\ dirs'[r].torn \subseteq dirs[r].torn
            /\ \A c \in Bases : dirs'[r].desc[c] = dirs[r].desc[c]
                              \/ (r = p /\ c = b /\ dirs'[r].desc[c] = new)
    <3> HIDE DEF q
    <3> SUFFICES ASSUME NEW r \in DOMAIN dirs
                 PROVE  /\ \A k \in Photos :
                               \/ dirs'[r].photo[k] = dirs[r].photo[k] /\ ~(r = q /\ k \in up)
                               \/ dirs'[r].photo[k] = None /\ r = q /\ k \in up
                        /\ dirs'[r].torn \subseteq dirs[r].torn
                        /\ \A c \in Bases : dirs'[r].desc[c] = dirs[r].desc[c]
                                          \/ (r = p /\ c = b /\ dirs'[r].desc[c] = new)
      BY <2>4
    <3>1. dirs'[r].photo = rest[r].photo /\ dirs'[r].torn = rest[r].torn
      BY <2>2, <2>4
    <3>2. \A c \in Bases : dirs'[r].desc[c] = dirs[r].desc[c]
                         \/ (r = p /\ c = b /\ dirs'[r].desc[c] = new)
      BY <2>4, <2>5, <1>6
    <3> QED BY <3>1, <3>2, <1>6
  <2>7. DOMAIN dirs' = DOMAIN dirs /\ dirs' \in [DOMAIN dirs' -> Dirs]
    BY <2>4
  <2> HIDE DEF q
  <2> QED BY <2>6, <2>7, <1>1, <1>2, <1>8 DEF d, new, q, UploadLeaves
<1> QED BY <1>7, <1>8

\* The fields of a move, and its directories while it copies.
LEMMA MoveIs ==
    ASSUME Typed
    PROVE  /\ move.dst \in Paths \cup {None} /\ move.ok \in BOOLEAN
           /\ move.todo \subseteq Items /\ move.now \subseteq Items
           /\ move = [dst |-> move.dst, todo |-> move.todo, now |-> move.now, ok |-> move.ok]
           /\ pc = "copy" => /\ own \in DOMAIN dirs /\ move.dst \in DOMAIN dirs
                             /\ move.dst.fs = "sd"
BY DEF Typed, TypeOK

\* An item to copy is a photo or a description.
LEMMA ItemIs ==
    \A item \in Items :
        \/ \E k \in Photos : item = <<"photo", k>> /\ item[1] = "photo" /\ item[2] = k
        \/ \E b \in Bases : item = <<"desc", b>> /\ item[1] = "desc" /\ item[2] = b
BY DEF Items

\* persistStrandedTmpDir has found a name and made the directory.
LEMMA StartMoveDoes ==
    ASSUME Typed, RoomLeft, OneOnTmpfs, StartMove
    PROVE  /\ own \in DOMAIN dirs /\ own \in Paths /\ own.fs = "tmpfs"
           /\ move'.dst \in Paths \ DOMAIN dirs /\ move'.dst.fs = "sd"
           /\ move'.dst.base[1] = own.base[1]
           /\ DOMAIN dirs' = DOMAIN dirs \cup {move'.dst}
           /\ dirs' \in [DOMAIN dirs' -> Dirs]
           /\ \A p \in DOMAIN dirs : dirs'[p] = dirs[p]
           /\ dirs'[move'.dst] = Empty
           /\ move' = [dst |-> move'.dst, todo |-> ItemsOf(own), now |-> {}, ok |-> TRUE]
           /\ ItemsOf(own) \subseteq Items
<1> DEFINE dst == NextFree(own.base[1])
<1>1. /\ own \in DOMAIN dirs /\ own # None /\ pc = "rescue"
      /\ dirs' = Made(dst, Empty) /\ move' = [NoMove EXCEPT !.dst = dst, !.todo = ItemsOf(own)]
  BY DEF StartMove, Exists
<1>2. own \in Paths /\ own.fs = "tmpfs" /\ own.base[1] \in Stamps
  BY <1>1, DirIs, PathIs DEF OneOnTmpfs
<1>3. dst \in Paths \ DOMAIN dirs /\ dst.fs = "sd" /\ dst.base[1] = own.base[1]
  BY <1>1, <1>2, NextFreeIs DEF Rescuing
<1> HIDE DEF dst
<1>4. move' = [dst |-> dst, todo |-> ItemsOf(own), now |-> {}, ok |-> TRUE]
  BY <1>1 DEF NoMove
<1>5. move'.dst = dst
  BY <1>4
<1>6. /\ DOMAIN dirs' = DOMAIN dirs \cup {dst}
      /\ \A q \in DOMAIN dirs : dirs'[q] = dirs[q]
      /\ dirs'[dst] = Empty
      /\ dirs' \in [DOMAIN dirs \cup {dst} -> Dirs]
  <2>1. /\ DOMAIN Made(dst, Empty) = DOMAIN dirs \cup {dst}
        /\ \A q \in DOMAIN dirs : Made(dst, Empty)[q] = dirs[q]
        /\ Made(dst, Empty)[dst] = Empty
        /\ Made(dst, Empty) \in [DOMAIN dirs \cup {dst} -> Dirs]
    BY <1>3, EmptyIs, MadeIs DEF Typed
  <2> QED BY <1>1, <2>1
<1>7. ItemsOf(own) \subseteq Items
  BY DEF ItemsOf, Items
<1> QED BY <1>1, <1>2, <1>3, <1>4, <1>5, <1>6, <1>7

\* A step of copyFileNative changes the target only.
LEMMA CopyBeginsDoes ==
    ASSUME Typed, OneOnTmpfs, NEW item \in Items, CopyBegins(item)
    PROVE  /\ DOMAIN dirs' = DOMAIN dirs /\ dirs' \in [DOMAIN dirs -> Dirs]
           /\ \A r \in DOMAIN dirs : r # move.dst => dirs'[r] = dirs[r]
           /\ \A k \in Photos :
                  IF item = <<"photo", k>>
                  THEN dirs'[move.dst].photo[k] = dirs[own].photo[k] /\ k \in dirs'[move.dst].torn
                  ELSE /\ dirs'[move.dst].photo[k] = dirs[move.dst].photo[k]
                       /\ k \in dirs'[move.dst].torn <=> k \in dirs[move.dst].torn
           /\ \A b \in Bases : \/ dirs'[move.dst].desc[b] = dirs[move.dst].desc[b]
                               \/ dirs'[move.dst].desc[b].is = "torn"
           /\ item \in move.todo /\ move.now = {}
           /\ move' = [dst |-> move.dst, todo |-> move.todo \ {item}, now |-> {item}, ok |-> move.ok]
<1> DEFINE q == move.dst
           name == item[2]
           torn == [NoDesc EXCEPT !.is = "torn"]
<1>1. /\ pc = "copy" /\ item \in move.todo /\ move.now = {}
      /\ move' = [move EXCEPT !.todo = @ \ {item}, !.now = {item}]
      /\ dirs' = IF item[1] = "photo"
                 THEN [dirs EXCEPT ![q].photo[name] = dirs[own].photo[name],
                                   ![q].torn = @ \cup {name}]
                 ELSE [dirs EXCEPT ![q].desc[name] = torn]
  BY DEF CopyBegins
<1>2. q \in DOMAIN dirs /\ own \in DOMAIN dirs
  BY <1>1, MoveIs
<1>3. move' = [dst |-> q, todo |-> move.todo \ {item}, now |-> {item}, ok |-> move.ok]
  BY <1>1, MoveIs
<1>4. torn \in Descs /\ torn.is = "torn"
  BY DEF NoDesc, Descs
<1>5. \A r \in DOMAIN dirs :
          /\ dirs[r] \in Dirs /\ dirs[r].photo \in [Photos -> Shots \cup {None}]
          /\ dirs[r].torn \subseteq Photos /\ dirs[r].desc \in [Bases -> Descs]
  BY DirIs
<1>6. dirs \in [DOMAIN dirs -> Dirs]
  BY DEF Typed
<1> HIDE DEF torn, q
<1>7. CASE \E k \in Photos : item = <<"photo", k>> /\ item[1] = "photo" /\ item[2] = k
  <2>1. PICK n \in Photos : item = <<"photo", n>> /\ item[1] = "photo" /\ item[2] = n
    BY <1>7
  <2> DEFINE np == [dirs[q].photo EXCEPT ![n] = dirs[own].photo[n]]
  <2>2. dirs' = [dirs EXCEPT ![q].photo[n] = dirs[own].photo[n], ![q].torn = @ \cup {n}]
    BY <1>1, <2>1
  <2>3. np \in [Photos -> Shots \cup {None}]
    BY <1>2, <1>5
  <2>4. /\ dirs'[q].photo = np /\ dirs'[q].torn = dirs[q].torn \cup {n}
        /\ dirs'[q].desc = dirs[q].desc /\ dirs'[q] \in Dirs
    BY <1>2, <1>5, <2>2, <2>3 DEF Dirs
  <2>5. /\ DOMAIN dirs' = DOMAIN dirs
        /\ \A r \in DOMAIN dirs : r # q => dirs'[r] = dirs[r]
        /\ dirs' = [r \in DOMAIN dirs |-> dirs'[r]]
    BY <2>2, <1>6
  <2>6. dirs' \in [DOMAIN dirs -> Dirs]
    BY <2>4, <2>5, <1>5
  <2>7. \A k \in Photos : IF item = <<"photo", k>>
              THEN dirs'[q].photo[k] = dirs[own].photo[k] /\ k \in dirs'[q].torn
              ELSE dirs'[q].photo[k] = dirs[q].photo[k] /\ (k \in dirs'[q].torn <=> k \in dirs[q].torn)
    BY <2>1, <2>4, <1>2, <1>5
  <2> QED BY <1>1, <1>3, <2>4, <2>5, <2>6, <2>7 DEF q
<1>8. CASE \E b \in Bases : item = <<"desc", b>> /\ item[1] = "desc" /\ item[2] = b
  <2>1. PICK n \in Bases : item = <<"desc", n>> /\ item[1] = "desc" /\ item[2] = n
    BY <1>8
  <2>2. dirs' = [dirs EXCEPT ![q].desc[n] = torn]
    BY <1>1, <2>1
  <2>4. /\ dirs'[q].photo = dirs[q].photo /\ dirs'[q].torn = dirs[q].torn
        /\ dirs'[q].desc = [dirs[q].desc EXCEPT ![n] = torn] /\ dirs'[q] \in Dirs
    BY <1>2, <1>4, <1>5, <2>2 DEF Dirs
  <2>5. /\ DOMAIN dirs' = DOMAIN dirs
        /\ \A r \in DOMAIN dirs : r # q => dirs'[r] = dirs[r]
        /\ dirs' = [r \in DOMAIN dirs |-> dirs'[r]]
    BY <2>2, <1>6
  <2>6. dirs' \in [DOMAIN dirs -> Dirs]
    BY <2>4, <2>5, <1>5
  <2>7. \A b \in Bases : dirs'[q].desc[b] = dirs[q].desc[b] \/ dirs'[q].desc[b].is = "torn"
    BY <2>4, <1>2, <1>4, <1>5
  <2>8. \A k \in Photos : item # <<"photo", k>>
    BY <2>1
  <2> QED BY <1>1, <1>3, <2>4, <2>5, <2>6, <2>7, <2>8 DEF q
<1> QED BY <1>7, <1>8, ItemIs

LEMMA CopyEndsDoes ==
    ASSUME Typed, OneOnTmpfs, NEW item \in Items, CopyEnds(item)
    PROVE  /\ DOMAIN dirs' = DOMAIN dirs /\ dirs' \in [DOMAIN dirs -> Dirs]
           /\ \A r \in DOMAIN dirs : r # move.dst => dirs'[r] = dirs[r]
           /\ dirs'[move.dst].photo = dirs[move.dst].photo
           /\ \A k \in Photos : k \in dirs'[move.dst].torn
                                <=> k \in dirs[move.dst].torn /\ item # <<"photo", k>>
           /\ \A b \in Bases : \/ dirs'[move.dst].desc[b] = dirs[move.dst].desc[b]
                               \/ dirs'[move.dst].desc[b] = dirs[own].desc[b]
           /\ move.now = {item}
           /\ move' = [dst |-> move.dst, todo |-> move.todo, now |-> {}, ok |-> move.ok]
<1> DEFINE q == move.dst
           name == item[2]
<1>1. /\ pc = "copy" /\ move.now = {item}
      /\ move' = [move EXCEPT !.now = {}]
      /\ dirs' = IF item[1] = "photo"
                 THEN [dirs EXCEPT ![q].torn = @ \ {name}]
                 ELSE [dirs EXCEPT ![q].desc[name] = dirs[own].desc[name]]
  BY DEF CopyEnds
<1>2. q \in DOMAIN dirs /\ own \in DOMAIN dirs
  BY <1>1, MoveIs
<1>3. move' = [dst |-> q, todo |-> move.todo, now |-> {}, ok |-> move.ok]
  BY <1>1, MoveIs
<1>5. \A r \in DOMAIN dirs :
          /\ dirs[r] \in Dirs /\ dirs[r].photo \in [Photos -> Shots \cup {None}]
          /\ dirs[r].torn \subseteq Photos /\ dirs[r].desc \in [Bases -> Descs]
  BY DirIs
<1>6. dirs \in [DOMAIN dirs -> Dirs]
  BY DEF Typed
<1> HIDE DEF q
<1>7. CASE \E k \in Photos : item = <<"photo", k>> /\ item[1] = "photo" /\ item[2] = k
  <2>1. PICK n \in Photos : item = <<"photo", n>> /\ item[1] = "photo" /\ item[2] = n
    BY <1>7
  <2>2. dirs' = [dirs EXCEPT ![q].torn = @ \ {n}]
    BY <1>1, <2>1
  <2>4. /\ dirs'[q].photo = dirs[q].photo /\ dirs'[q].torn = dirs[q].torn \ {n}
        /\ dirs'[q].desc = dirs[q].desc /\ dirs'[q] \in Dirs
    BY <1>2, <1>5, <2>2 DEF Dirs
  <2>5. /\ DOMAIN dirs' = DOMAIN dirs
        /\ \A r \in DOMAIN dirs : r # q => dirs'[r] = dirs[r]
        /\ dirs' = [r \in DOMAIN dirs |-> dirs'[r]]
    BY <2>2, <1>6
  <2>6. dirs' \in [DOMAIN dirs -> Dirs]
    BY <2>4, <2>5, <1>5
  <2>7. \A k \in Photos : k \in dirs'[q].torn <=> k \in dirs[q].torn /\ item # <<"photo", k>>
    BY <2>1, <2>4
  <2> QED BY <1>1, <1>3, <2>4, <2>5, <2>6, <2>7 DEF q
<1>8. CASE \E b \in Bases : item = <<"desc", b>> /\ item[1] = "desc" /\ item[2] = b
  <2>1. PICK n \in Bases : item = <<"desc", n>> /\ item[1] = "desc" /\ item[2] = n
    BY <1>8
  <2> DEFINE od == dirs[own].desc[n]
  <2>2. dirs' = [dirs EXCEPT ![q].desc[n] = od]
    BY <1>1, <2>1
  <2>3. od \in Descs
    BY <1>2, <1>5
  <2> HIDE DEF od
  <2>4. /\ dirs'[q].photo = dirs[q].photo /\ dirs'[q].torn = dirs[q].torn
        /\ dirs'[q].desc = [dirs[q].desc EXCEPT ![n] = od] /\ dirs'[q] \in Dirs
    BY <1>2, <1>5, <2>2, <2>3 DEF Dirs
  <2>5. /\ DOMAIN dirs' = DOMAIN dirs
        /\ \A r \in DOMAIN dirs : r # q => dirs'[r] = dirs[r]
        /\ dirs' = [r \in DOMAIN dirs |-> dirs'[r]]
    BY <2>2, <1>6
  <2>6. dirs' \in [DOMAIN dirs -> Dirs]
    BY <2>4, <2>5, <1>5
  <2>7. \A b \in Bases : dirs'[q].desc[b] = dirs[q].desc[b] \/ dirs'[q].desc[b] = dirs[own].desc[b]
    BY <2>4, <1>2, <1>5 DEF od
  <2>8. \A k \in Photos : item # <<"photo", k>>
    BY <2>1
  <2> QED BY <1>1, <1>3, <2>4, <2>5, <2>6, <2>7, <2>8 DEF q
<1> QED BY <1>7, <1>8, ItemIs

\* What is left when directories go.
LEMMA RestrictIs ==
    ASSUME Typed, NEW S
    PROVE  /\ DOMAIN Restrict(dirs, DOMAIN dirs \cap S) = DOMAIN dirs \cap S
           /\ Restrict(dirs, DOMAIN dirs \cap S) \in [DOMAIN dirs \cap S -> Dirs]
           /\ \A p \in DOMAIN dirs \cap S : Restrict(dirs, DOMAIN dirs \cap S)[p] = dirs[p]
BY DirIs DEF Restrict

\* Power off takes what is on tmpfs.
LEMMA OffDoes ==
    ASSUME Typed, Off(DOMAIN dirs)
    PROVE  /\ DOMAIN dirs' = Sd /\ dirs' \in [Sd -> Dirs]
           /\ \A p \in Sd : dirs'[p] = dirs[p]
<1>1. dirs' = Restrict(dirs, DOMAIN dirs \cap Sd)
  <2>1. {p \in DOMAIN dirs : p.fs = "sd"} = DOMAIN dirs \cap Sd
    BY DEF Sd
  <2> QED BY <2>1 DEF Off
<1>2. DOMAIN dirs \cap Sd = Sd
  BY DEF Sd
<1> QED BY <1>1, <1>2, RestrictIs

\* The end of moveDirectoryRecursive takes the source or the half copy.
LEMMA MoveEndsDoes ==
    ASSUME Typed, MoveEnds
    PROVE  LET gone == IF move.ok THEN own ELSE move.dst IN
           /\ DOMAIN dirs' = DOMAIN dirs \ {gone}
           /\ dirs' \in [DOMAIN dirs' -> Dirs]
           /\ \A p \in DOMAIN dirs' : dirs'[p] = dirs[p]
<1> DEFINE gone == IF move.ok THEN own ELSE move.dst
           S == DOMAIN dirs \ {gone}
<1>1. dirs' = Restrict(dirs, DOMAIN dirs \cap S) /\ DOMAIN dirs \cap S = S
  <2>1. DOMAIN dirs \cap S = S
    OBVIOUS
  <2> QED BY <2>1 DEF MoveEnds, LeftAfterMove
<1> HIDE DEF S
<1>2. DOMAIN dirs' = S /\ dirs' \in [S -> Dirs] /\ \A p \in S : dirs'[p] = dirs[p]
  BY <1>1, RestrictIs
<1> QED BY <1>2 DEF S

-----------------------------------------------------------------------------
(* Every step keeps the invariant: what most steps need first *)

\* Stamps change with a capture only.
LEMMA StampsSame ==
    ASSUME taken' = taken
    PROVE  (StampsDiffer' <=> StampsDiffer) /\ Shot' = Shot
BY DEF StampsDiffer, Shot

LEMMA ShotsFinite == IsFiniteSet(Shot) /\ Cardinality(Shot) \in Nat
<1>1. IsFiniteSet(Shots) /\ Shot \in SUBSET Shots
  BY WorkDirsAssumption DEF Shot
<1> QED BY <1>1, FS_Subset, FS_CardinalityType

\* Room on the SD only grows when directories go.
LEMMA RoomStays ==
    ASSUME RoomLeft, DOMAIN dirs' \subseteq DOMAIN dirs, taken' = taken, Rescuing' => Rescuing
    PROVE  RoomLeft'
<1>1. Sd' \in SUBSET Sd
  BY DEF Sd
<1>2. IsFiniteSet(Sd) /\ Cardinality(Sd) \in Nat
  BY FS_CardinalityType DEF RoomLeft
<1>3. IsFiniteSet(Sd') /\ Cardinality(Sd') <= Cardinality(Sd) /\ Cardinality(Sd') \in Nat
  BY <1>1, <1>2, FS_Subset, FS_CardinalityType
<1>4. Shot' = Shot /\ Cardinality(Shot) \in Nat
  BY StampsSame, ShotsFinite
<1> QED BY <1>2, <1>3, <1>4 DEF RoomLeft

LEMMA StampsStay ==
    ASSUME StampsTell, DOMAIN dirs' \subseteq DOMAIN dirs, taken' = taken,
           Rescuing' => Rescuing /\ own' = own
    PROVE  StampsTell'
BY StampsSame DEF StampsTell

LEMMA ListedStay ==
    ASSUME DescsList, DOMAIN dirs' \subseteq DOMAIN dirs, taken' = taken, accepted' = accepted,
           \A p \in DOMAIN dirs' : dirs'[p] = dirs[p]
    PROVE  DescsList'
<1>1. SUFFICES ASSUME StampsDiffer, NEW p \in DOMAIN dirs', NEW b \in Bases,
                      dirs'[p].desc[b].is = "whole"
               PROVE  Lists(p, dirs[p].desc[b])'
  BY StampsSame DEF DescsList
<1>2. Lists(p, dirs[p].desc[b]) /\ dirs'[p] = dirs[p] /\ p \in DOMAIN dirs
  BY <1>1 DEF DescsList
<1> QED BY <1>1, <1>2 DEF Lists, HasPhoto, Exists

\* While a move goes on, the copy lists what its original lists.
LEMMA CopyListed ==
    ASSUME Typed, OneOnTmpfs, MoveInStep', DescsList, pc = "copy", pc' = "copy",
           own' = own, move'.dst = move.dst, taken' = taken, accepted' = accepted,
           DOMAIN dirs' = DOMAIN dirs,
           \A r \in DOMAIN dirs : r # move.dst => dirs'[r] = dirs[r]
    PROVE  DescsList'
<1> DEFINE dst == move.dst
<1>1. /\ own \in DOMAIN dirs /\ dst \in DOMAIN dirs /\ dst.fs = "sd"
      /\ own.fs = "tmpfs" /\ own # None /\ own # dst /\ dirs'[own] = dirs[own]
  BY MoveIs DEF OneOnTmpfs
<1>2. SUFFICES ASSUME StampsDiffer, NEW p \in DOMAIN dirs, NEW b \in Bases,
                      dirs'[p].desc[b].is = "whole"
               PROVE  Lists(p, dirs[p].desc[b])'
  BY StampsSame DEF DescsList
<1>3. CASE p # dst
  <2>1. Lists(p, dirs[p].desc[b]) /\ dirs'[p] = dirs[p]
    BY <1>2, <1>3 DEF DescsList
  <2> QED BY <1>2, <2>1 DEF Lists, HasPhoto, Exists
<1>4. CASE p = dst
  <2> DEFINE d == dirs[own].desc[b]
  <2>1. dirs'[dst].desc[b] = d /\ dst.base[1] = own.base[1]
    BY <1>1, <1>2, <1>4 DEF MoveInStep
  <2>2. \A k \in Photos : dirs'[dst].photo[k] = None \/ dirs'[dst].photo[k] = dirs[own].photo[k]
    BY <1>1 DEF MoveInStep, Copied
  <2>3. Lists(own, d)
    BY <1>1, <1>2, <1>4, <2>1 DEF DescsList
  <2> HIDE DEF d
  <2>4. d.at = own
    BY <1>1, <2>3 DEF Lists
  <2>5. \A k \in Photos : HasPhoto(dst, k)' => k \in d.left \/ <<dirs'[dst].photo[k], k>> \in accepted'
    BY <1>1, <2>2, <2>3 DEF Lists, HasPhoto, Exists
  <2> QED BY <1>1, <1>4, <2>1, <2>4, <2>5 DEF Lists
<1> QED BY <1>3, <1>4

-----------------------------------------------------------------------------
(* ... power on *)

LEMMA InitInv == Init => IInv
<1> SUFFICES ASSUME Init PROVE IInv
  OBVIOUS
<1>1. DOMAIN dirs = {} /\ pc = "off" /\ own = None
  BY DEF Init
<1>2. Typed
  <2>1. TypeOK
    BY <1>1 DEF Init, TypeOK
  <2>2. move \in [dst : Paths \cup {None}, todo : SUBSET Items, now : SUBSET Items, ok : BOOLEAN]
    BY DEF Init, NoMove
  <2>3. dirs \in [DOMAIN dirs -> Dirs]
    BY DEF Init
  <2> QED BY <2>1, <2>2, <2>3 DEF Init, Typed
<1>3. RoomLeft
  <2>1. Sd = {} /\ ~Rescuing
    BY <1>1 DEF Sd, Rescuing
  <2>2. IsFiniteSet(Sd) /\ Cardinality(Sd) = 0
    BY <2>1, FS_EmptySet
  <2> QED BY <2>1, <2>2, ShotsFinite DEF RoomLeft
<1>4. OneOnTmpfs /\ MoveInStep /\ StampsTell /\ DescsList
  BY <1>1 DEF OneOnTmpfs, MoveInStep, StampsTell, DescsList, Rescuing
<1>5. TornInMove
  BY <1>1 DEF Init, TornInMove
<1> QED BY <1>2, <1>3, <1>4, <1>5 DEF IInv

LEMMA QuickSnapInv ==
    ASSUME IInv, NEW s \in Shots, NEW stamp \in Stamps, QuickSnap(s, stamp)
    PROVE  IInv'
<1>0. Typed /\ OneOnTmpfs /\ RoomLeft /\ TornInMove /\ StampsTell /\ DescsList
  BY DEF IInv
<1>1. /\ own' \in Paths /\ own' \notin DOMAIN dirs
      /\ own'.fs = "tmpfs" /\ own'.base[1] = stamp
      /\ DOMAIN dirs' = DOMAIN dirs \cup {own'}
      /\ dirs' \in [DOMAIN dirs' -> Dirs]
      /\ \A p \in DOMAIN dirs : dirs'[p] = dirs[p]
      /\ \A k \in Photos : dirs'[own'].photo[k] = s
      /\ dirs'[own'].torn = {}
      /\ \A b \in Bases : dirs'[own'].desc[b] = NoDesc
      /\ taken[s] = None /\ taken' = [taken EXCEPT ![s] = stamp]
  BY <1>0, QuickSnapDoes
<1>2. /\ pc = "off" /\ pc' = "build" /\ mounted' \in BOOLEAN
      /\ UNCHANGED <<workDirs, move, accepted, acceptedTorn, cut>>
  BY DEF QuickSnap
<1>3. \A p \in DOMAIN dirs : p \in Paths /\ p.fs = "sd"
  BY <1>0, <1>2, DirIs DEF OneOnTmpfs
<1>4. Typed'
  <2>1. TypeOK'
    <3>1. DOMAIN dirs' \subseteq Paths /\ \A p \in DOMAIN dirs' : dirs'[p] \in Dirs
      BY <1>1, <1>3
    <3> QED BY <1>0, <1>1, <1>2, <3>1 DEF Typed, TypeOK
  <2>2. taken' \in [Shots -> Stamps \cup {None}]
    BY <1>0, <1>1 DEF Typed
  <2> QED BY <1>0, <1>1, <1>2, <2>1, <2>2 DEF Typed
<1>5. OneOnTmpfs'
  BY <1>1, <1>2, <1>3 DEF OneOnTmpfs
<1>6. RoomLeft'
  <2>1. Sd' = Sd
    BY <1>1 DEF Sd
  <2>2. Shot' = Shot \cup {s} /\ s \notin Shot
    <3>1. taken \in [Shots -> Stamps \cup {None}] /\ stamp # None
      BY <1>0, NoneIsApart DEF Typed
    <3> QED BY <1>1, <3>1 DEF Shot
  <2>3. Cardinality(Shot') = Cardinality(Shot) + 1
    BY <2>2, ShotsFinite, FS_AddElement
  <2>4. Cardinality(Sd) \in Nat /\ Cardinality(Shot) \in Nat
    BY <1>0, ShotsFinite, FS_CardinalityType DEF RoomLeft
  <2> QED BY <1>0, <2>1, <2>3, <2>4 DEF RoomLeft
<1>7. MoveInStep'
  BY <1>2 DEF MoveInStep
<1>8. TornInMove'
  BY <1>0, <1>1, <1>2 DEF TornInMove
<1>9. ASSUME StampsDiffer'
      PROVE  StampsDiffer /\ \A t \in Shots : taken[t] # None => t # s /\ taken'[t] = taken[t] /\ taken[t] # stamp
  <2>1. taken \in [Shots -> Stamps \cup {None}] /\ stamp # None /\ taken'[s] = stamp
    BY <1>0, <1>1, NoneIsApart DEF Typed
  <2>2. \A t \in Shots : t # s => taken'[t] = taken[t]
    BY <1>1, <2>1
  <2>3. \A t \in Shots : taken[t] # None => t # s /\ taken'[t] = taken[t] /\ taken[t] # stamp
    BY <1>1, <1>9, <2>1, <2>2 DEF StampsDiffer
  <2> QED BY <1>1, <1>9, <2>1, <2>2, <2>3 DEF StampsDiffer
<1>10. StampsTell'
  <2> SUFFICES ASSUME StampsDiffer'
               PROVE  /\ \A p \in DOMAIN dirs' : \E t \in Shots : taken'[t] = p.base[1]
                      /\ \A p \in DOMAIN dirs' : p.fs = "sd" => p.base[1] # own'.base[1]
    BY DEF StampsTell
  <2>1. taken'[s] = own'.base[1]
    BY <1>0, <1>1 DEF Typed
  <2>2. ASSUME NEW p \in DOMAIN dirs
        PROVE  \E t \in Shots : taken'[t] = p.base[1] /\ p.base[1] # stamp
    <3>1. PICK t \in Shots : taken[t] = p.base[1]
      BY <1>0, <1>9 DEF StampsTell
    <3>2. taken[t] # None
      BY <1>3, <3>1, PathIs, NoneIsApart
    <3> QED BY <1>9, <3>1, <3>2
  <2> QED BY <1>1, <2>1, <2>2
<1>11. DescsList'
  <2> SUFFICES ASSUME StampsDiffer', NEW p \in DOMAIN dirs', NEW b \in Bases,
                      dirs'[p].desc[b].is = "whole"
               PROVE  Lists(p, dirs[p].desc[b])'
    BY DEF DescsList
  <2>1. p # own' /\ p \in DOMAIN dirs /\ dirs'[p] = dirs[p]
    BY <1>1, EmptyIs
  <2>2. Lists(p, dirs[p].desc[b])
    BY <1>0, <1>9, <2>1 DEF DescsList
  <2> QED BY <1>1, <1>2, <2>1, <2>2 DEF Lists, HasPhoto, Exists
<1> QED BY <1>4, <1>5, <1>6, <1>7, <1>8, <1>10, <1>11 DEF IInv

LEMMA ForceUploadInv ==
    ASSUME IInv, ForceUpload
    PROVE  IInv'
<1>0. Typed /\ OneOnTmpfs /\ RoomLeft /\ TornInMove /\ StampsTell /\ DescsList
  BY DEF IInv
<1>1. /\ pc = "off" /\ pc' = "build" /\ mounted' \in BOOLEAN /\ own' = None
      /\ UNCHANGED <<dirs, workDirs, move, taken, accepted, acceptedTorn, cut>>
  BY DEF ForceUpload, history
<1>2. Typed'
  <2>1. TypeOK'
    BY <1>0, <1>1 DEF Typed, TypeOK
  <2> QED BY <1>0, <1>1, <2>1 DEF Typed
<1>3. OneOnTmpfs'
  BY <1>0, <1>1 DEF OneOnTmpfs
<1>4. RoomLeft' /\ StampsTell' /\ DescsList'
  <2>1. ~Rescuing'
    BY <1>1 DEF Rescuing
  <2> QED BY <1>0, <1>1, <2>1, RoomStays, StampsStay, ListedStay
<1>5. MoveInStep' /\ TornInMove'
  BY <1>0, <1>1 DEF MoveInStep, TornInMove
<1> QED BY <1>2, <1>3, <1>4, <1>5 DEF IInv

LEMMA BuildInv ==
    ASSUME IInv, NEW failed \in SUBSET ToUpload, BuildWorkDirs(failed)
    PROVE  IInv'
<1>0. Typed /\ OneOnTmpfs /\ RoomLeft /\ TornInMove /\ StampsTell /\ DescsList
  BY DEF IInv
<1>1. /\ pc = "build" /\ pc' = "upload" /\ workDirs' = ToUpload
      /\ UNCHANGED <<mounted, own, move, taken, accepted, acceptedTorn, cut>>
  BY DEF BuildWorkDirs, history
<1>2. /\ DOMAIN dirs' = DOMAIN dirs
      /\ dirs' \in [DOMAIN dirs -> Dirs]
      /\ \A p \in DOMAIN dirs :
             /\ dirs'[p].photo = dirs[p].photo /\ dirs'[p].torn = dirs[p].torn
             /\ \A b \in Bases :
                    \/ dirs'[p].desc[b] = dirs[p].desc[b]
                    \/ dirs'[p].desc[b] =
                           [is |-> "whole", at |-> p,
                            left |-> {k \in Photos : HasPhoto(p, k)}, acked |-> FALSE]
  BY <1>0, BuildDoes
<1>3. Typed'
  <2>1. ToUpload \subseteq Paths
    BY <1>0 DEF ToUpload, Stranded, Typed, TypeOK
  <2>2. TypeOK'
    <3>1. DOMAIN dirs' \subseteq Paths /\ \A p \in DOMAIN dirs' : dirs'[p] \in Dirs
      BY <1>0, <1>2 DEF Typed, TypeOK
    <3> QED BY <1>0, <1>1, <2>1, <3>1 DEF Typed, TypeOK
  <2> QED BY <1>0, <1>1, <1>2, <2>2 DEF Typed
<1>4. OneOnTmpfs'
  BY <1>0, <1>1, <1>2 DEF OneOnTmpfs
<1>5. RoomLeft' /\ StampsTell'
  <2>1. Rescuing' => Rescuing /\ own' = own
    BY <1>1 DEF Rescuing
  <2> QED BY <1>0, <1>1, <1>2, <2>1, RoomStays, StampsStay
<1>6. MoveInStep' /\ TornInMove'
  BY <1>0, <1>1, <1>2 DEF MoveInStep, TornInMove
<1>7. DescsList'
  <2>1. SUFFICES ASSUME StampsDiffer, NEW p \in DOMAIN dirs, NEW b \in Bases,
                      dirs'[p].desc[b].is = "whole"
               PROVE  Lists(p, dirs[p].desc[b])'
    BY <1>1, <1>2, StampsSame DEF DescsList
  <2>2. \A k \in Photos : HasPhoto(p, k)' => HasPhoto(p, k) /\ dirs'[p].photo[k] = dirs[p].photo[k]
    BY <1>2 DEF HasPhoto, Exists
  <2>3. CASE dirs'[p].desc[b] = dirs[p].desc[b]
    <3>1. Lists(p, dirs[p].desc[b])
      BY <1>0, <2>1, <2>3 DEF DescsList
    <3> QED BY <1>1, <2>2, <2>3, <3>1 DEF Lists
  <2>4. CASE dirs'[p].desc[b] = [is |-> "whole", at |-> p,
                                 left |-> {k \in Photos : HasPhoto(p, k)}, acked |-> FALSE]
    BY <2>2, <2>4 DEF Lists
  <2> QED BY <1>2, <2>3, <2>4
<1> QED BY <1>3, <1>4, <1>5, <1>6, <1>7 DEF IInv

-----------------------------------------------------------------------------
(* ... the upload *)

\* A photo found where a description says is in the directory of the description:
\* else it would be in the -d directory, and two captures would share a stamp.
LEMMA FoundAtHome ==
    ASSUME Typed, OneOnTmpfs, StampsTell, StampsDiffer, pc = "upload",
           NEW p \in DOMAIN dirs, NEW d, Lists(p, d), NEW k, HasPhoto(d.at, k)
    PROVE  d.at = p
<1> SUFFICES ASSUME d.at # p PROVE FALSE
  OBVIOUS
<1>1. d.at \in DOMAIN dirs /\ d.at.fs = "tmpfs" /\ p.fs = "sd" /\ d.at.base[1] = p.base[1]
  BY DEF Lists, HasPhoto, Exists
<1>2. d.at = own /\ own # None
  BY <1>1, DirIs, PathIs DEF OneOnTmpfs
<1> QED BY <1>1, <1>2 DEF StampsTell, Rescuing

\* An upload.
LEMMA UploadInv ==
    ASSUME IInv, Upload
    PROVE  IInv'
<1>0. Typed /\ OneOnTmpfs /\ RoomLeft /\ TornInMove /\ StampsTell /\ DescsList
  BY DEF IInv
<1>1. PICK p \in workDirs \cap DOMAIN dirs, b \in Bases, up \in SUBSET Photos, ack \in BOOLEAN :
          UploadOneDesc(p, b, up, ack)
  BY DEF Upload
<1>2. /\ pc = "upload" /\ pc' = "upload"
      /\ UNCHANGED <<mounted, own, workDirs, move, taken, cut>>
  <2>1. pc = "upload"
    BY DEF Upload
  <2>2. UNCHANGED <<pc, mounted, own, workDirs, move, taken, cut>>
    BY <1>1, Zenon DEF UploadOneDesc
  <2> QED BY <2>1, <2>2
<1> DEFINE d == dirs[p].desc[b]
           new == [d EXCEPT !.left = @ \ up, !.acked = @ \/ ack]
<1>3. /\ d.is = "whole" /\ up \subseteq d.left /\ d \in Descs
      /\ \A k \in up : HasPhoto(d.at, k)
      /\ accepted' = accepted \cup {<<dirs[d.at].photo[k], k>> : k \in up}
      /\ acceptedTorn' = (acceptedTorn \/ \E k \in up : k \in dirs[d.at].torn)
      /\ DOMAIN dirs' = IF Complete(d, up, ack) THEN DOMAIN dirs \ {p} ELSE DOMAIN dirs
      /\ dirs' \in [DOMAIN dirs' -> Dirs]
      /\ \A r \in DOMAIN dirs' :
             /\ \A k \in Photos :
                    \/ dirs'[r].photo[k] = dirs[r].photo[k] /\ ~(r = d.at /\ k \in up)
                    \/ dirs'[r].photo[k] = None /\ r = d.at /\ k \in up
             /\ dirs'[r].torn \subseteq dirs[r].torn
             /\ \A c \in Bases :
                    \/ dirs'[r].desc[c] = dirs[r].desc[c]
                    \/ /\ r = p /\ c = b
                       /\ dirs'[r].desc[c] = new
  <2>1. p \in DOMAIN dirs
    OBVIOUS
  <2>2. UploadLeaves(p, b, up, ack)
    BY <1>0, <1>1, <2>1, UploadDoes
  <2> QED BY <2>2 DEF UploadLeaves
<1>4. DOMAIN dirs' \subseteq DOMAIN dirs
  BY <1>3
<1>5. /\ new.is = "whole" /\ new.at = d.at /\ new.left = d.left \ up
  BY <1>3 DEF Descs
<1> HIDE DEF d, new
<1>6. Typed'
  <2>1. accepted' \subseteq Files
    <3>1. \A k \in up : <<dirs[d.at].photo[k], k>> \in Files
      <4> SUFFICES ASSUME NEW k \in up
                   PROVE  <<dirs[d.at].photo[k], k>> \in Files
        OBVIOUS
      <4>1. d.at \in DOMAIN dirs /\ dirs[d.at].photo[k] # None
        BY <1>3 DEF HasPhoto, Exists
      <4>2. dirs[d.at].photo[k] \in Shots
        BY <4>1, <1>0, DirIs
      <4> QED BY <4>2 DEF Files
    <3>2. accepted \subseteq Files
      BY <1>0 DEF Typed, TypeOK
    <3> QED BY <1>3, <3>1, <3>2
  <2>2. acceptedTorn' \in BOOLEAN
    BY <1>3, <1>0 DEF Typed, TypeOK
  <2>3. DOMAIN dirs' \subseteq Paths /\ \A r \in DOMAIN dirs' : dirs'[r] \in Dirs
    BY <1>0, <1>3, <1>4 DEF Typed, TypeOK
  <2>4. TypeOK'
    BY <1>0, <1>2, <2>1, <2>2, <2>3 DEF Typed, TypeOK
  <2> QED BY <1>0, <1>2, <1>3, <1>4, <2>4 DEF Typed
<1>7. OneOnTmpfs'
  BY <1>0, <1>2, <1>3, <1>4 DEF OneOnTmpfs
<1>8. RoomLeft' /\ StampsTell'
  <2>1. Rescuing' => Rescuing /\ own' = own
    BY <1>2 DEF Rescuing
  <2> QED BY <1>0, <1>2, <1>3, <1>4, <2>1, RoomStays, StampsStay
<1>9. MoveInStep'
  BY <1>2 DEF MoveInStep
<1>10. TornInMove'
  <2> SUFFICES ASSUME ~cut
               PROVE  ~acceptedTorn' /\ \A r \in DOMAIN dirs' : dirs'[r].torn = {}
    BY <1>2 DEF TornInMove
  <2>1. ~acceptedTorn /\ \A r \in DOMAIN dirs : dirs[r].torn = {}
    BY <1>0, <1>2 DEF TornInMove
  <2>2. \A k \in up : d.at \in DOMAIN dirs
    BY <1>3 DEF HasPhoto, Exists
  <2>3. ~acceptedTorn'
    BY <1>3, <2>1, <2>2
  <2>4. \A r \in DOMAIN dirs' : dirs'[r].torn = {}
    BY <1>3, <1>4, <2>1
  <2> QED BY <2>3, <2>4
<1>11. DescsList'
  <2>1. SUFFICES ASSUME StampsDiffer, NEW r \in DOMAIN dirs', NEW c \in Bases,
                        dirs'[r].desc[c].is = "whole"
                 PROVE  Lists(r, dirs[r].desc[c])'
    BY <1>2, StampsSame DEF DescsList
  <2>2. r \in DOMAIN dirs
    BY <1>3, <1>4
  <2>3. \A k \in Photos : HasPhoto(r, k)' =>
            /\ HasPhoto(r, k) /\ dirs'[r].photo[k] = dirs[r].photo[k] /\ ~(r = d.at /\ k \in up)
    BY <1>3, <1>4, <2>2 DEF HasPhoto, Exists
  <2>4. accepted \subseteq accepted'
    BY <1>3
  <2>5. CASE dirs'[r].desc[c] = dirs[r].desc[c]
    <3>1. Lists(r, dirs[r].desc[c])
      BY <1>0, <2>1, <2>2, <2>5 DEF DescsList
    <3> QED BY <2>3, <2>4, <2>5, <3>1 DEF Lists
  <2>6. CASE r = p /\ c = b /\ dirs'[r].desc[c] = new
    <3>1. Lists(p, d)
      BY <1>0, <1>3, <2>1 DEF DescsList, d
    <3>2. \A k \in up : d.at = r
      BY <1>0, <1>2, <1>3, <2>1, <2>2, <2>6, <3>1, FoundAtHome
    <3>3. \A k \in Photos : HasPhoto(r, k)' =>
              k \in new.left \/ <<dirs'[r].photo[k], k>> \in accepted'
      BY <1>5, <2>3, <2>4, <2>6, <3>1, <3>2 DEF Lists
    <3> QED BY <1>5, <2>6, <3>1, <3>3 DEF Lists
  <2> QED BY <1>3, <1>4, <2>5, <2>6
<1> QED BY <1>6, <1>7, <1>8, <1>9, <1>10, <1>11 DEF IInv

LEMMA UploadTimeoutInv ==
    ASSUME IInv, UploadTimeout
    PROVE  IInv'
<1>0. Typed /\ OneOnTmpfs /\ RoomLeft /\ TornInMove /\ StampsTell /\ DescsList
  BY DEF IInv
<1>1. /\ pc = "upload" /\ pc' = "rescue" /\ mounted' = TRUE
      /\ UNCHANGED <<dirs, own, workDirs, move, taken, accepted, acceptedTorn, cut>>
  BY DEF UploadTimeout, history
<1>2. Typed'
  <2>1. TypeOK'
    BY <1>0, <1>1 DEF Typed, TypeOK
  <2> QED BY <1>0, <1>1, <2>1 DEF Typed
<1>3. OneOnTmpfs'
  BY <1>0, <1>1 DEF OneOnTmpfs
<1>4. RoomLeft' /\ StampsTell' /\ DescsList'
  <2>1. Rescuing' => Rescuing /\ own' = own
    BY <1>1 DEF Rescuing
  <2> QED BY <1>0, <1>1, <2>1, RoomStays, StampsStay, ListedStay
<1>5. MoveInStep' /\ TornInMove'
  BY <1>0, <1>1 DEF MoveInStep, TornInMove
<1> QED BY <1>2, <1>3, <1>4, <1>5 DEF IInv

-----------------------------------------------------------------------------
(* ... the rescue *)

LEMMA StartMoveInv ==
    ASSUME IInv, StartMove
    PROVE  IInv'
<1>0. Typed /\ OneOnTmpfs /\ RoomLeft /\ TornInMove /\ StampsTell /\ DescsList
  BY DEF IInv
<1> DEFINE dst == move'.dst
<1>1. /\ own \in DOMAIN dirs /\ own \in Paths /\ own.fs = "tmpfs"
      /\ dst \in Paths \ DOMAIN dirs /\ dst.fs = "sd"
      /\ dst.base[1] = own.base[1]
      /\ DOMAIN dirs' = DOMAIN dirs \cup {dst}
      /\ dirs' \in [DOMAIN dirs' -> Dirs]
      /\ \A p \in DOMAIN dirs : dirs'[p] = dirs[p]
      /\ dirs'[dst] = Empty
      /\ move' = [dst |-> dst, todo |-> ItemsOf(own), now |-> {}, ok |-> TRUE]
      /\ ItemsOf(own) \subseteq Items
  BY <1>0, StartMoveDoes
<1>2. move'.todo = ItemsOf(own) /\ move'.now = {} /\ move'.ok = TRUE
  BY <1>1
<1>3. /\ pc = "rescue" /\ pc' = "copy" /\ own # None
      /\ UNCHANGED <<mounted, own, workDirs, taken, accepted, acceptedTorn, cut>>
  BY DEF StartMove, history
<1> HIDE DEF dst
<1>4. move' \in [dst : Paths \cup {None}, todo : SUBSET Items, now : SUBSET Items, ok : BOOLEAN]
  BY <1>1
<1>5. Typed'
  <2>1. DOMAIN dirs' \subseteq Paths /\ \A p \in DOMAIN dirs' : dirs'[p] \in Dirs
    BY <1>0, <1>1 DEF Typed, TypeOK
  <2>2. TypeOK'
    BY <1>0, <1>1, <1>3, <2>1 DEF Typed, TypeOK, dst
  <2> QED BY <1>0, <1>1, <1>3, <1>4, <2>2 DEF Typed
<1>6. OneOnTmpfs'
  BY <1>0, <1>1, <1>3 DEF OneOnTmpfs
<1>7. RoomLeft'
  <2>1. Sd' = Sd \cup {dst} /\ dst \notin Sd /\ IsFiniteSet(Sd)
    BY <1>0, <1>1 DEF Sd, RoomLeft
  <2>2. IsFiniteSet(Sd') /\ Cardinality(Sd') = Cardinality(Sd) + 1
    BY <2>1, FS_AddElement
  <2>3. Cardinality(Sd) < Cardinality(Shot)
    BY <1>0, <1>3 DEF RoomLeft, Rescuing
  <2>4. Shot' = Shot /\ ~Rescuing'
    BY <1>3, StampsSame DEF Rescuing
  <2>5. Cardinality(Sd) \in Nat /\ Cardinality(Shot) \in Nat
    BY <2>1, ShotsFinite, FS_CardinalityType
  <2> QED BY <2>2, <2>3, <2>4, <2>5 DEF RoomLeft
<1>8. MoveInStep'
  <2>1. \A k \in Photos : dirs'[dst].photo[k] = None /\ k \notin dirs'[dst].torn
    BY <1>1, EmptyIs
  <2>2. \A b \in Bases : dirs'[dst].desc[b].is # "whole"
    BY <1>1, EmptyIs
  <2>3. \A k \in Photos : dirs'[own].photo[k] # None => <<"photo", k>> \in move'.todo
    BY <1>1, <1>2 DEF ItemsOf, HasPhoto, Exists
  <2> QED BY <1>1, <1>2, <1>3, <2>1, <2>2, <2>3 DEF MoveInStep, Copied, dst
<1>9. TornInMove'
  BY <1>0, <1>1, <1>3, EmptyIs DEF TornInMove
<1>10. StampsTell'
  <2>1. ~Rescuing'
    BY <1>3 DEF Rescuing
  <2> QED BY <1>0, <1>1, <1>3, <2>1, StampsSame DEF StampsTell
<1>11. DescsList'
  <2>1. SUFFICES ASSUME StampsDiffer, NEW p \in DOMAIN dirs', NEW b \in Bases,
                        dirs'[p].desc[b].is = "whole"
                 PROVE  Lists(p, dirs[p].desc[b])'
    BY <1>3, StampsSame DEF DescsList
  <2>2. p # dst /\ p \in DOMAIN dirs /\ dirs'[p] = dirs[p]
    BY <1>1, <2>1, EmptyIs
  <2>3. Lists(p, dirs[p].desc[b])
    BY <1>0, <2>1, <2>2 DEF DescsList
  <2> QED BY <1>1, <1>3, <2>2, <2>3 DEF Lists, HasPhoto, Exists
<1> QED BY <1>5, <1>6, <1>7, <1>8, <1>9, <1>10, <1>11 DEF IInv

\* A step of the copy changes the copy only.
LEMMA CopyStepInv ==
    ASSUME IInv, pc = "copy", pc' = "copy", MoveInStep',
           DOMAIN dirs' = DOMAIN dirs, dirs' \in [DOMAIN dirs -> Dirs],
           \A r \in DOMAIN dirs : r # move.dst => dirs'[r] = dirs[r],
           move' \in [dst : Paths \cup {None}, todo : SUBSET Items, now : SUBSET Items, ok : BOOLEAN],
           move'.dst = move.dst,
           UNCHANGED <<mounted, own, workDirs, taken, accepted, acceptedTorn, cut>>
    PROVE  IInv'
<1>0. Typed /\ OneOnTmpfs /\ RoomLeft /\ TornInMove /\ StampsTell /\ DescsList
  BY DEF IInv
<1>1. own \in DOMAIN dirs /\ move.dst \in DOMAIN dirs /\ move.dst.fs = "sd"
  BY <1>0, MoveIs
<1>2. Typed'
  <2>1. DOMAIN dirs' \subseteq Paths /\ \A p \in DOMAIN dirs' : dirs'[p] \in Dirs
    BY <1>0 DEF Typed, TypeOK
  <2>2. TypeOK'
    BY <1>0, <1>1, <2>1 DEF Typed, TypeOK
  <2> QED BY <1>0, <2>2 DEF Typed
<1>3. OneOnTmpfs'
  BY <1>0, <1>1 DEF OneOnTmpfs
<1>4. RoomLeft' /\ StampsTell'
  <2>1. ~Rescuing'
    BY DEF Rescuing
  <2> QED BY <1>0, <2>1, RoomStays, StampsStay
<1>5. TornInMove'
  BY <1>0 DEF TornInMove
<1>6. DescsList'
  BY <1>0, CopyListed
<1> QED BY <1>2, <1>3, <1>4, <1>5, <1>6 DEF IInv

LEMMA CopyBeginsInv ==
    ASSUME IInv, NEW item \in Items, CopyBegins(item)
    PROVE  IInv'
<1>0. Typed /\ OneOnTmpfs /\ MoveInStep
  BY DEF IInv
<1> DEFINE dst == move.dst
<1>1. /\ DOMAIN dirs' = DOMAIN dirs /\ dirs' \in [DOMAIN dirs -> Dirs]
      /\ \A r \in DOMAIN dirs : r # dst => dirs'[r] = dirs[r]
      /\ \A k \in Photos :
             IF item = <<"photo", k>>
             THEN dirs'[dst].photo[k] = dirs[own].photo[k] /\ k \in dirs'[dst].torn
             ELSE /\ dirs'[dst].photo[k] = dirs[dst].photo[k]
                  /\ k \in dirs'[dst].torn <=> k \in dirs[dst].torn
      /\ \A b \in Bases : \/ dirs'[dst].desc[b] = dirs[dst].desc[b]
                          \/ dirs'[dst].desc[b].is = "torn"
      /\ item \in move.todo /\ move.now = {}
      /\ move' = [dst |-> dst, todo |-> move.todo \ {item}, now |-> {item}, ok |-> move.ok]
  BY <1>0, CopyBeginsDoes
<1>2. /\ pc = "copy" /\ pc' = "copy"
      /\ UNCHANGED <<mounted, own, workDirs, taken, accepted, acceptedTorn, cut>>
  BY DEF CopyBegins, history
<1>3. /\ move'.dst = dst /\ move'.todo = move.todo \ {item} /\ move'.now = {item}
      /\ move'.ok = move.ok
  BY <1>1
<1>4. move' \in [dst : Paths \cup {None}, todo : SUBSET Items, now : SUBSET Items, ok : BOOLEAN]
  BY <1>0, <1>1, MoveIs
<1>5. dirs'[own] = dirs[own]
  BY <1>0, <1>1, <1>2, MoveIs DEF OneOnTmpfs
<1>6. MoveInStep'
  <2>1. dst.base[1] = own.base[1]
    BY <1>0, <1>2 DEF MoveInStep
  <2>2. ASSUME NEW k \in Photos
        PROVE  /\ dirs'[dst].photo[k] = None \/ dirs'[dst].photo[k] = dirs[own].photo[k]
               /\ <<"photo", k>> \in move.todo \ {item} => dirs'[dst].photo[k] = None
               /\ move.ok /\ dirs[own].photo[k] # None =>
                      \/ <<"photo", k>> \in (move.todo \ {item}) \cup {item}
                      \/ dirs'[dst].photo[k] = dirs[own].photo[k] /\ k \notin dirs'[dst].torn
               /\ <<"photo", k>> \in {item} => dirs'[dst].photo[k] = dirs[own].photo[k]
               /\ move.ok /\ k \in dirs'[dst].torn => <<"photo", k>> \in {item}
    BY <1>0, <1>1, <1>2 DEF MoveInStep, Copied
  <2>3. ASSUME NEW b \in Bases, dirs'[dst].desc[b].is = "whole"
        PROVE  dirs'[dst].desc[b] = dirs[own].desc[b]
    BY <1>0, <1>1, <1>2, <2>3 DEF MoveInStep
  <2> HIDE DEF dst
  <2> QED BY <1>2, <1>3, <1>5, <2>1, <2>2, <2>3 DEF MoveInStep, Copied
<1> QED BY <1>1, <1>2, <1>3, <1>4, <1>6, CopyStepInv

LEMMA CopyEndsInv ==
    ASSUME IInv, NEW item \in Items, CopyEnds(item)
    PROVE  IInv'
<1>0. Typed /\ OneOnTmpfs /\ MoveInStep
  BY DEF IInv
<1> DEFINE dst == move.dst
<1>1. /\ DOMAIN dirs' = DOMAIN dirs /\ dirs' \in [DOMAIN dirs -> Dirs]
      /\ \A r \in DOMAIN dirs : r # dst => dirs'[r] = dirs[r]
      /\ dirs'[dst].photo = dirs[dst].photo
      /\ \A k \in Photos : k \in dirs'[dst].torn
                           <=> k \in dirs[dst].torn /\ item # <<"photo", k>>
      /\ \A b \in Bases : \/ dirs'[dst].desc[b] = dirs[dst].desc[b]
                          \/ dirs'[dst].desc[b] = dirs[own].desc[b]
      /\ move.now = {item}
      /\ move' = [dst |-> dst, todo |-> move.todo, now |-> {}, ok |-> move.ok]
  BY <1>0, CopyEndsDoes
<1>2. /\ pc = "copy" /\ pc' = "copy"
      /\ UNCHANGED <<mounted, own, workDirs, taken, accepted, acceptedTorn, cut>>
  BY DEF CopyEnds, history
<1>3. move'.dst = dst /\ move'.todo = move.todo /\ move'.now = {} /\ move'.ok = move.ok
  BY <1>1
<1>4. move' \in [dst : Paths \cup {None}, todo : SUBSET Items, now : SUBSET Items, ok : BOOLEAN]
  BY <1>0, <1>1, MoveIs
<1>5. dirs'[own] = dirs[own]
  BY <1>0, <1>1, <1>2, MoveIs DEF OneOnTmpfs
<1>6. MoveInStep'
  <2>1. dst.base[1] = own.base[1]
    BY <1>0, <1>2 DEF MoveInStep
  <2>2. ASSUME NEW k \in Photos
        PROVE  /\ dirs'[dst].photo[k] = None \/ dirs'[dst].photo[k] = dirs[own].photo[k]
               /\ <<"photo", k>> \in move.todo => dirs'[dst].photo[k] = None
               /\ move.ok /\ dirs[own].photo[k] # None =>
                      \/ <<"photo", k>> \in move.todo
                      \/ dirs'[dst].photo[k] = dirs[own].photo[k] /\ k \notin dirs'[dst].torn
               /\ move.ok => k \notin dirs'[dst].torn
    BY <1>0, <1>1, <1>2 DEF MoveInStep, Copied
  <2>3. ASSUME NEW b \in Bases, dirs'[dst].desc[b].is = "whole"
        PROVE  dirs'[dst].desc[b] = dirs[own].desc[b]
    BY <1>0, <1>1, <1>2, <2>3 DEF MoveInStep
  <2> HIDE DEF dst
  <2> QED BY <1>2, <1>3, <1>5, <2>1, <2>2, <2>3 DEF MoveInStep, Copied
<1> QED BY <1>1, <1>2, <1>3, <1>4, <1>6, CopyStepInv

LEMMA CopyFailsInv ==
    ASSUME IInv, CopyFails
    PROVE  IInv'
<1>0. Typed /\ OneOnTmpfs /\ MoveInStep
  BY DEF IInv
<1>1. /\ pc = "copy" /\ pc' = "copy" /\ move' = [move EXCEPT !.now = {}, !.ok = FALSE]
      /\ UNCHANGED <<dirs, mounted, own, workDirs, taken, accepted, acceptedTorn, cut>>
  BY DEF CopyFails, diskVars, history
<1>2. /\ move'.dst = move.dst /\ move'.todo = move.todo /\ move'.now = {} /\ move'.ok = FALSE
      /\ move' \in [dst : Paths \cup {None}, todo : SUBSET Items, now : SUBSET Items, ok : BOOLEAN]
  BY <1>0, <1>1, MoveIs
<1>3. MoveInStep'
  BY <1>0, <1>1, <1>2 DEF MoveInStep, Copied
<1>4. dirs' \in [DOMAIN dirs -> Dirs] /\ DOMAIN dirs' = DOMAIN dirs
  BY <1>0, <1>1 DEF Typed
<1> QED BY <1>1, <1>2, <1>3, <1>4, CopyStepInv

LEMMA MoveEndsInv ==
    ASSUME IInv, MoveEnds
    PROVE  IInv'
<1>0. Typed /\ OneOnTmpfs /\ RoomLeft /\ MoveInStep /\ TornInMove /\ StampsTell /\ DescsList
  BY DEF IInv
<1> DEFINE gone == IF move.ok THEN own ELSE move.dst
<1>1. /\ DOMAIN dirs' = DOMAIN dirs \ {gone}
      /\ dirs' \in [DOMAIN dirs' -> Dirs]
      /\ \A p \in DOMAIN dirs' : dirs'[p] = dirs[p]
  BY <1>0, MoveEndsDoes
<1>2. /\ pc = "copy" /\ pc' = "rescue" /\ own' = None /\ move' = NoMove /\ move.now = {}
      /\ UNCHANGED <<mounted, workDirs, taken, accepted, acceptedTorn, cut>>
  BY DEF MoveEnds, history
<1>3. Typed'
  <2>1. DOMAIN dirs' \subseteq Paths /\ \A p \in DOMAIN dirs' : dirs'[p] \in Dirs
    BY <1>0, <1>1 DEF Typed, TypeOK
  <2>2. TypeOK'
    BY <1>0, <1>2, <2>1 DEF Typed, TypeOK
  <2>3. move' \in [dst : Paths \cup {None}, todo : SUBSET Items, now : SUBSET Items, ok : BOOLEAN]
    BY <1>2 DEF NoMove
  <2> QED BY <1>0, <1>1, <1>2, <2>2, <2>3 DEF Typed
<1>4. OneOnTmpfs'
  BY <1>0, <1>1, <1>2 DEF OneOnTmpfs
<1>5. RoomLeft' /\ StampsTell' /\ DescsList'
  <2>1. ~Rescuing'
    BY <1>2 DEF Rescuing
  <2> QED BY <1>0, <1>1, <1>2, <2>1, RoomStays, StampsStay, ListedStay
<1>6. MoveInStep'
  BY <1>2 DEF MoveInStep
<1>7. TornInMove'
  <2> SUFFICES ASSUME ~cut
               PROVE  ~acceptedTorn /\ \A p \in DOMAIN dirs' : dirs'[p].torn = {}
    BY <1>2 DEF TornInMove
  <2>1. /\ ~acceptedTorn
        /\ \A p \in DOMAIN dirs : dirs[p].torn # {} => p = move.dst
    BY <1>0 DEF TornInMove
  <2>2. move.ok => dirs[move.dst].torn = {}
    <3>1. dirs[move.dst].torn \subseteq Photos
      BY <1>0, <1>2, MoveIs, DirIs
    <3> QED BY <3>1, <1>0, <1>2 DEF MoveInStep
  <2> QED BY <1>1, <2>1, <2>2
<1> QED BY <1>3, <1>4, <1>5, <1>6, <1>7 DEF IInv

-----------------------------------------------------------------------------
(* ... and power off *)

LEMMA OffInv ==
    ASSUME IInv, Off(DOMAIN dirs), pc = "copy" => cut', cut' \in BOOLEAN, cut => cut',
           UNCHANGED <<taken, accepted, acceptedTorn>>
    PROVE  IInv'
<1>0. Typed /\ OneOnTmpfs /\ RoomLeft /\ TornInMove /\ StampsTell /\ DescsList
  BY DEF IInv
<1>1. DOMAIN dirs' = Sd /\ dirs' \in [Sd -> Dirs] /\ \A p \in Sd : dirs'[p] = dirs[p]
  BY <1>0, OffDoes
<1>2. pc' = "off" /\ mounted' = FALSE /\ own' = None /\ workDirs' = {} /\ move' = NoMove
  BY DEF Off
<1>3. Sd \subseteq DOMAIN dirs /\ \A p \in Sd : p.fs = "sd"
  BY DEF Sd
<1>4. Typed'
  <2>1. DOMAIN dirs' \subseteq Paths /\ \A p \in DOMAIN dirs' : dirs'[p] \in Dirs
    BY <1>0, <1>1, <1>3 DEF Typed, TypeOK
  <2>2. TypeOK'
    BY <1>0, <1>2, <2>1 DEF Typed, TypeOK
  <2>3. move' \in [dst : Paths \cup {None}, todo : SUBSET Items, now : SUBSET Items, ok : BOOLEAN]
    BY <1>2 DEF NoMove
  <2> QED BY <1>0, <1>1, <2>2, <2>3 DEF Typed
<1>5. OneOnTmpfs'
  BY <1>1, <1>2, <1>3 DEF OneOnTmpfs
<1>6. RoomLeft' /\ StampsTell' /\ DescsList'
  <2>1. ~Rescuing'
    BY <1>2 DEF Rescuing
  <2>2. DOMAIN dirs' \subseteq DOMAIN dirs /\ \A p \in DOMAIN dirs' : dirs'[p] = dirs[p]
    BY <1>1, <1>3
  <2> QED BY <1>0, <2>1, <2>2, RoomStays, StampsStay, ListedStay
<1>7. MoveInStep'
  BY <1>2 DEF MoveInStep
<1>8. TornInMove'
  BY <1>0, <1>1, <1>3 DEF TornInMove
<1> QED BY <1>4, <1>5, <1>6, <1>7, <1>8 DEF IInv

LEMMA NextInv == IInv /\ [Next]_vars => IInv'
<1> SUFFICES ASSUME IInv, [Next]_vars PROVE IInv'
  OBVIOUS
<1>1. ASSUME NEW s \in Shots, NEW stamp \in Stamps, QuickSnap(s, stamp)
      PROVE  IInv'
  BY <1>1, QuickSnapInv
<1>2. CASE ForceUpload
  BY <1>2, ForceUploadInv
<1>3. ASSUME NEW failed \in SUBSET ToUpload, BuildWorkDirs(failed)
      PROVE  IInv'
  BY <1>3, BuildInv
<1>4. CASE Upload
  BY <1>4, UploadInv
<1>5. CASE UploadTimeout \/ StartMove \/ CopyFails \/ MoveEnds
  BY <1>5, UploadTimeoutInv, StartMoveInv, CopyFailsInv, MoveEndsInv
<1>6. ASSUME NEW item \in Items, CopyBegins(item) \/ CopyEnds(item)
      PROVE  IInv'
  BY <1>6, CopyBeginsInv, CopyEndsInv
<1>7. CASE PowerOff
  <2>1. cut \in BOOLEAN
    BY DEF IInv, Typed, TypeOK
  <2>2. pc # "copy" /\ Off(DOMAIN dirs) /\ UNCHANGED <<taken, accepted, acceptedTorn, cut>>
    BY <1>7 DEF PowerOff, history
  <2> QED BY <2>1, <2>2, OffInv
<1>8. CASE PowerLost
  <2>1. cut \in BOOLEAN
    BY DEF IInv, Typed, TypeOK
  <2>2. /\ Off(DOMAIN dirs) /\ cut' = (cut \/ pc = "copy")
        /\ UNCHANGED <<taken, accepted, acceptedTorn>>
    BY <1>8 DEF PowerLost
  <2> QED BY <2>1, <2>2, OffInv
<1>9. CASE UNCHANGED vars
  BY <1>9 DEF vars, history, IInv, Typed, TypeOK, OneOnTmpfs, RoomLeft, Sd, Shot, Rescuing,
     MoveInStep, Copied, TornInMove, StampsTell, StampsDiffer, DescsList, Lists, HasPhoto, Exists
<1> QED BY <1>1, <1>2, <1>3, <1>4, <1>5, <1>6, <1>7, <1>8, <1>9 DEF Next

\* The invariant holds throughout.
LEMMA InvHolds == Spec => []IInv
BY InitInv, NextInv, PTL DEF Spec

-----------------------------------------------------------------------------
(* Theorems *)

\* The directories, the move and what the server has keep their types, over any
\* number of boots (wm_app, persistStrandedTmpDir); a rescue copies to the SD.
THEOREM TypesHold == Spec => []TypeOK
<1>1. IInv => TypeOK
  BY DEF IInv, Typed
<1> QED BY <1>1, InvHolds, PTL

\* Unless a loss of power cuts a rescue short, the server is never given a part
\* of a photo: a half copy is removed when the move fails (wm_scheduler.cpp,
\* persistStrandedTmpDir).
THEOREM WholePhotosOnly == Spec => []AcceptedWhole
<1>1. IInv => AcceptedWhole
  BY DEF IInv, TornInMove, AcceptedWhole
<1> QED BY <1>1, InvHolds, PTL

\* A directory that stays as it is keeps its photos.
LEMMA StaysOn ==
    ASSUME NEW fs, NEW f \in Files, NEW p \in DOMAIN dirs, p.fs = fs,
           dirs[p].photo[f[2]] = f[1], f[2] \notin dirs[p].torn,
           p \in DOMAIN dirs', dirs'[p] = dirs[p]
    PROVE  On(fs, f)'
BY DEF On

\* A step keeps a whole copy of each photo; of a photo on tmpfs, if power stays.
LEMMA RescueStep ==
    ASSUME IInv, [Next]_vars, pc # "upload", NEW f \in Files
    PROVE  /\ On("sd", f) => On("sd", f)' \/ On("tmpfs", f)'
           /\ On("tmpfs", f) /\ pc' # "off" => On("sd", f)' \/ On("tmpfs", f)'
<1>0. Typed /\ OneOnTmpfs /\ RoomLeft /\ MoveInStep
  BY DEF IInv
<1> DEFINE Kept == On("sd", f)' \/ On("tmpfs", f)'
           k == f[2]
<1>1. k \in Photos /\ f[1] # None
  BY WorkDirsAssumption DEF Files
<1>2. SUFFICES ASSUME NEW p \in DOMAIN dirs, dirs[p].photo[k] = f[1], k \notin dirs[p].torn,
                      p.fs = "sd" \/ pc' # "off"
               PROVE  Kept
  BY DEF On
<1> HIDE DEF k
<1>3. p.fs \in {"tmpfs", "sd"}
  BY <1>0, DirIs, PathIs
<1>4. p \in DOMAIN dirs' /\ dirs'[p] = dirs[p] => Kept
  BY <1>2, <1>3, StaysOn DEF k
<1> HIDE DEF Kept
<1>5. ASSUME pc = "copy", p = move.dst
      PROVE  /\ own \in DOMAIN dirs /\ own.fs = "tmpfs" /\ own # move.dst
             /\ own \in DOMAIN dirs' /\ dirs'[own] = dirs[own] => Kept
  <2>1. own \in DOMAIN dirs /\ own.fs = "tmpfs" /\ own # move.dst /\ dirs[own].torn = {}
    BY <1>0, <1>5, MoveIs DEF OneOnTmpfs
  <2>2. dirs[own].photo[k] = f[1]
    BY <1>0, <1>1, <1>2, <1>5 DEF MoveInStep, Copied
  <2> QED BY <2>1, <2>2, StaysOn DEF k, Kept
<1>6. CASE \E s \in Shots, stamp \in Stamps : QuickSnap(s, stamp)
  BY <1>0, <1>4, <1>6, QuickSnapDoes
<1>7. CASE ForceUpload \/ CopyFails \/ UNCHANGED vars
  BY <1>4, <1>7 DEF ForceUpload, CopyFails, diskVars, vars
<1>8. CASE \E failed \in SUBSET ToUpload : BuildWorkDirs(failed)
  <2>1. p \in DOMAIN dirs' /\ dirs'[p].photo = dirs[p].photo /\ dirs'[p].torn = dirs[p].torn
    BY <1>0, <1>8, BuildDoes
  <2> QED BY <1>2, <1>3, <2>1 DEF On, Kept, k
<1>9. CASE StartMove
  BY <1>0, <1>4, <1>9, StartMoveDoes
<1>10. ASSUME NEW item \in Items, CopyBegins(item) \/ CopyEnds(item)
       PROVE  Kept
  <2>1. /\ pc = "copy" /\ DOMAIN dirs' = DOMAIN dirs
        /\ \A r \in DOMAIN dirs : r # move.dst => dirs'[r] = dirs[r]
    BY <1>0, <1>10, CopyBeginsDoes, CopyEndsDoes DEF CopyBegins, CopyEnds
  <2> QED BY <1>4, <1>5, <2>1
<1>11. CASE MoveEnds
  <2> DEFINE gone == IF move.ok THEN own ELSE move.dst
  <2>1. /\ DOMAIN dirs' = DOMAIN dirs \ {gone}
        /\ \A q \in DOMAIN dirs' : dirs'[q] = dirs[q]
    BY <1>0, <1>11, MoveEndsDoes
  <2>2. pc = "copy" /\ move.todo = {} /\ move.now = {}
    BY <1>11 DEF MoveEnds
  <2>3. CASE p # gone
    BY <1>4, <2>1, <2>3
  <2>4. CASE p = gone /\ ~move.ok
    BY <1>5, <2>1, <2>2, <2>4
  <2>5. CASE p = gone /\ move.ok
    <3>1. move.dst \in DOMAIN dirs /\ move.dst.fs = "sd" /\ own # move.dst
      BY <1>0, <2>2, MoveIs DEF OneOnTmpfs
    <3>2. dirs[move.dst].photo[k] = f[1] /\ k \notin dirs[move.dst].torn
      BY <1>0, <1>1, <1>2, <2>2, <2>5 DEF MoveInStep, Copied
    <3> QED BY <2>1, <2>5, <3>1, <3>2, StaysOn DEF k, Kept
  <2> QED BY <2>3, <2>4, <2>5
<1>12. CASE PowerOff \/ PowerLost
  <2>1. Off(DOMAIN dirs) /\ pc' = "off"
    BY <1>12 DEF PowerOff, PowerLost, Off
  <2>2. p \in Sd
    BY <1>2, <2>1 DEF Sd
  <2> QED BY <1>0, <1>4, <2>1, <2>2, OffDoes
<1>13. ~Upload /\ ~UploadTimeout
  BY DEF Upload, UploadTimeout
<1> QED BY <1>6, <1>7, <1>8, <1>9, <1>10, <1>11, <1>12, <1>13 DEF Next, Kept

\* Between two uploads no photo is lost: a rescue keeps every whole copy of one,
\* whichever copies fail and whatever else is on the SD (persistStrandedTmpDir,
\* moveDirectoryRecursive).
THEOREM RescueLosesNothing == Spec => RescueKeeps
<1>1. IInv /\ [Next]_vars =>
          [pc # "upload" => \A f \in Files :
             /\ On("sd", f) => On("sd", f)' \/ On("tmpfs", f)'
             /\ On("tmpfs", f) /\ pc' # "off" => On("sd", f)' \/ On("tmpfs", f)']_vars
  BY RescueStep
<1> QED BY <1>1, InvHolds, PTL DEF Spec, RescueKeeps

\* What a step of the upload removes is up.
LEMMA RemovalStep ==
    ASSUME IInv, [Next]_vars, pc = "upload", pc' = "upload", StampsDiffer,
           NEW p \in DOMAIN dirs \ DOMAIN dirs', NEW k \in Photos, HasPhoto(p, k)
    PROVE  <<dirs[p].photo[k], k>> \in accepted'
<1>0. Typed /\ OneOnTmpfs /\ StampsTell /\ DescsList
  BY DEF IInv
<1>1. dirs' # dirs
  OBVIOUS
<1>2. Upload
  BY <1>1 DEF Next, vars, QuickSnap, ForceUpload, BuildWorkDirs, UploadTimeout, StartMove,
     CopyBegins, CopyEnds, CopyFails, MoveEnds, PowerOff, PowerLost, Off
<1>3. PICK r \in workDirs \cap DOMAIN dirs, b \in Bases, up \in SUBSET Photos, ack \in BOOLEAN :
          UploadOneDesc(r, b, up, ack)
  BY <1>2 DEF Upload
<1> DEFINE d == dirs[r].desc[b]
<1>4. /\ d.is = "whole" /\ \A l \in up : HasPhoto(d.at, l)
      /\ accepted' = accepted \cup {<<dirs[d.at].photo[l], l>> : l \in up}
      /\ DOMAIN dirs' = IF Complete(d, up, ack) THEN DOMAIN dirs \ {r} ELSE DOMAIN dirs
  <2>1. r \in DOMAIN dirs
    OBVIOUS
  <2>2. UploadLeaves(r, b, up, ack)
    BY <1>0, <1>3, <2>1, UploadDoes
  <2> QED BY <2>2 DEF UploadLeaves
<1>5. p = r /\ up = d.left
  BY <1>4 DEF Complete
<1>6. Lists(p, d)
  BY <1>0, <1>4, <1>5 DEF DescsList
<1> HIDE DEF d
<1>7. CASE k \in up
  <2>1. d.at = p
    BY <1>0, <1>4, <1>6, <1>7, FoundAtHome
  <2> QED BY <1>4, <1>7, <2>1
<1>8. CASE k \notin up
  BY <1>4, <1>5, <1>6, <1>8 DEF Lists
<1> QED BY <1>7, <1>8

\* While no two captures share a stamp, an upload removes a directory only when
\* the server has every photo in it, over any number of boots and rescues
\* (uploadOneDesc, ensureWorkDirDesc).
THEOREM RemovedIsUp == Spec => RemovedUp
<1>1. IInv /\ [Next]_vars =>
          [pc = "upload" /\ pc' = "upload" /\ StampsDiffer =>
             \A p \in DOMAIN dirs \ DOMAIN dirs' : \A k \in Photos :
               HasPhoto(p, k) => <<dirs[p].photo[k], k>> \in accepted']_vars
  BY RemovalStep
<1> QED BY <1>1, InvHolds, PTL DEF Spec, RemovedUp
=============================================================================
