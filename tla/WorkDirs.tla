------------------------------ MODULE WorkDirs ------------------------------
(***************************************************************************)
(* The work directories of upload-only mode (m2) over many boots.          *)
(* quickSnap puts the photos of a boot into /tmp/media/<time stamp>/ and   *)
(* starts wm with that directory; wm lists the directories to upload, sees *)
(* to it that each has a description, uploads, and after an upload timeout *)
(* moves what is left on tmpfs to the SD, where later boots find it.       *)
(*                                                                         *)
(* A directory is known by its file system and its base name, a time stamp *)
(* and the number that tells directories with one stamp apart (1 is the    *)
(* name without a suffix).  Photos are numbered within a directory: their  *)
(* names are made of the stamp and the number only, so directories with    *)
(* the same stamp hold files of the same names.  A description is a file   *)
(* named after the directory it was made for; it lists the photos still to *)
(* upload ("left") under the absolute path they had when it was made       *)
(* ("at").  How one description goes up is the module UploadDesc; here it  *)
(* is a step with any outcome.                                             *)
(***************************************************************************)
EXTENDS Integers, FiniteSets, Functions, TLC

CONSTANTS
    Shots,    \* captures, one per boot with -d
    Stamps,   \* time stamps the clock may show (after a reset, the same again)
    Photos,   \* numbers of the photos of a capture (burstNumber)
    None

ASSUME WorkDirsAssumption ==
    IsFiniteSet(Shots) /\ IsFiniteSet(Photos) /\ None \notin Shots

Bases == Stamps \X (1 .. Cardinality(Shots) + 1)
Paths == [fs : {"tmpfs", "sd"}, base : Bases]
Files == Shots \X Photos
Items == ({"photo"} \X Photos) \cup ({"desc"} \X Bases)   \* files of a directory

ASSUME NoneIsApart == None \notin Stamps /\ None \notin Paths

VARIABLES
    pc,          \* "off", "build", "upload", "rescue", "copy"
    dirs,        \* directories that exist, with their contents
    mounted,     \* the SD is mounted
    own,         \* the -d directory, or None
    workDirs,    \* workDirs_
    move,        \* the move in progress
    taken,       \* history: the stamp of each capture made so far
    accepted,    \* history: photos the server has accepted
    acceptedTorn,\* history: it has been given a photo that was not whole
    cut          \* history: a rescue has been cut short by a loss of power

diskVars == <<dirs, mounted>>
history  == <<taken, accepted, acceptedTorn, cut>>
vars     == <<pc, dirs, mounted, own, workDirs, move, history>>

Descs == [is : {"none", "torn", "whole"}, at : Paths \cup {None},
          left : SUBSET Photos, acked : BOOLEAN]
Dirs  == [photo : [Photos -> Shots \cup {None}],  \* whose photo has this name
          torn  : SUBSET Photos,                  \* not whole
          desc  : [Bases -> Descs]]
NoMove == [dst |-> None, todo |-> {}, now |-> {}, ok |-> TRUE]

TypeOK ==
    /\ pc \in {"off", "build", "upload", "rescue", "copy"}
    /\ DOMAIN dirs \subseteq Paths /\ \A p \in DOMAIN dirs : dirs[p] \in Dirs
    /\ mounted \in BOOLEAN
    /\ own \in Paths \cup {None}
    /\ workDirs \subseteq Paths
    /\ pc = "copy" => {own, move.dst} \subseteq DOMAIN dirs /\ move.dst.fs = "sd"
    /\ accepted \subseteq Files
    /\ acceptedTorn \in BOOLEAN /\ cut \in BOOLEAN

Init ==
    /\ pc = "off"
    /\ dirs = << >>
    /\ mounted = FALSE
    /\ own = None
    /\ workDirs = {}
    /\ move = NoMove
    /\ taken = [s \in Shots |-> None]
    /\ accepted = {}
    /\ acceptedTorn = FALSE
    /\ cut = FALSE

Exists(p) == p \in DOMAIN dirs

\* mkdir; a directory that is there already stays.
Made(p, dir) == [q \in DOMAIN dirs \cup {p} |-> IF Exists(q) THEN dirs[q] ELSE dir]

HasPhoto(p, k) == Exists(p) /\ dirs[p].photo[k] # None
NoDesc == [is |-> "none", at |-> None, left |-> {}, acked |-> FALSE]
Empty  == [photo |-> [k \in Photos |-> None], torn |-> {},
           desc |-> [b \in Bases |-> NoDesc]]
ItemsOf(p) == ({"photo"} \X {k \in Photos : HasPhoto(p, k)}) \cup
              ({"desc"} \X {b \in Bases : dirs[p].desc[b].is # "none"})

\* A photo is on a file system when a whole copy of it is.
On(fs, f) == \E p \in DOMAIN dirs :
    p.fs = fs /\ dirs[p].photo[f[2]] = f[1] /\ f[2] \notin dirs[p].torn
-----------------------------------------------------------------------------
(* Power on.                                                               *)

\* quickSnap's doSnap; tmpfs is empty.
QuickSnap(s, stamp) ==
    LET dir == [fs |-> "tmpfs", base |-> <<stamp, 1>>] IN
    /\ pc = "off"
    /\ taken[s] = None
    /\ taken' = [taken EXCEPT ![s] = stamp]
    /\ dirs' = Made(dir, [Empty EXCEPT !.photo = [k \in Photos |-> s]])
    /\ own' = dir
    /\ mounted' \in BOOLEAN
    /\ pc' = "build"
    /\ UNCHANGED <<workDirs, move, accepted, acceptedTorn, cut>>

\* A boot without a new capture (force_upload) starts wm without -d.
ForceUpload ==
    /\ pc = "off"
    /\ own' = None
    /\ mounted' \in BOOLEAN
    /\ pc' = "build"
    /\ UNCHANGED <<dirs, workDirs, move, history>>

\* collectStrandedWorkDirs, on both file systems: a directory whose base name
\* is that of the -d directory is passed over.
Stranded ==
    {p \in DOMAIN dirs : /\ p.fs = "sd" => mounted
                         /\ own # None => p.base # own.base}

ToUpload == Stranded \cup ({own} \ {None})

\* ensureWorkDirDesc: a description of this name is kept, whole or not; one is
\* made only for a directory with media.
WithDesc(p) ==
    IF dirs[p].desc[p.base].is # "none" \/ (\A k \in Photos : ~HasPhoto(p, k))
    THEN dirs[p]
    ELSE [dirs[p] EXCEPT !.desc[p.base] =
            [is |-> "whole", at |-> p, left |-> {k \in Photos : HasPhoto(p, k)}, acked |-> FALSE]]

\* wm_app builds the list and the descriptions; making one may fail.
BuildWorkDirs(failed) ==
    /\ pc = "build"
    /\ failed \subseteq ToUpload
    /\ workDirs' = ToUpload
    /\ dirs' = [p \in DOMAIN dirs |->
                  IF p \in ToUpload \ failed THEN WithDesc(p) ELSE dirs[p]]
    /\ pc' = "upload"
    /\ UNCHANGED <<mounted, own, move, history>>
-----------------------------------------------------------------------------
(* The upload.                                                             *)

\* hasPendingWork
PendingDesc(d) == d.is = "whole" /\ (~d.acked \/ d.left # {})

Openable(d) == {k \in d.left : HasPhoto(d.at, k)}

\* Mutant: what could not be opened does not count as left.
CompleteIfSent(d, up, ack) == (d.acked \/ ack) /\ up = Openable(d)

Complete(d, up, ack) == (d.acked \/ ack) /\ up = d.left

WithoutPhotos(p, ks) ==
    [dirs EXCEPT ![p].photo = [k \in Photos |-> IF k \in ks THEN None ELSE dirs[p].photo[k]],
                 ![p].torn = @ \ ks]

\* uploadOneDesc on the description b of p: the photos up and, with ack, the
\* description are accepted.  They are deleted where the description says they
\* are; when all is up, the whole directory that holds the description goes.
\* Directories are visited in the order of workDirs_, passes follow each other.
UploadOneDesc(p, b, up, ack) ==
    LET d    == dirs[p].desc[b]
        rest == IF up = {} THEN dirs ELSE WithoutPhotos(d.at, up)
    IN
    /\ PendingDesc(d)
    /\ up \subseteq Openable(d)
    /\ accepted' = accepted \cup {<<dirs[d.at].photo[k], k>> : k \in up}
    /\ acceptedTorn' = (acceptedTorn \/ \E k \in up : k \in dirs[d.at].torn)
    /\ dirs' = IF Complete(d, up, ack)
               THEN Restrict(rest, DOMAIN rest \ {p})
               ELSE [rest EXCEPT ![p].desc[b] =
                       [d EXCEPT !.left = @ \ up, !.acked = @ \/ ack]]
    /\ UNCHANGED <<pc, mounted, own, workDirs, move, taken, cut>>

Upload ==
    /\ pc = "upload"
    /\ \E p \in workDirs \cap DOMAIN dirs, b \in Bases :
         \E up \in SUBSET Photos, ack \in BOOLEAN : UploadOneDesc(p, b, up, ack)
-----------------------------------------------------------------------------
(* The end of a run: persistStrandedTmpDir after an upload timeout, and    *)
(* the power off.                                                          *)

\* The upload has timed out and the SD could be mounted.
UploadTimeout ==
    /\ pc = "upload"
    /\ mounted' = TRUE
    /\ pc' = "rescue"
    /\ UNCHANGED <<dirs, own, workDirs, move, history>>

\* Mutant: the suffix is left out.
NextFreeTaken(stamp) == [fs |-> "sd", base |-> <<stamp, 1>>]

\* Mutant: the target lies beside the source.
NextFreeOnTmpfs(stamp) == [fs |-> "tmpfs", base |-> <<stamp, 2>>]

NextFree(stamp) ==
    LET Name(n) == [fs |-> "sd", base |-> <<stamp, n>>] IN
    Name(CHOOSE n \in 1 .. Cardinality(Shots) + 1 :
           ~Exists(Name(n)) /\ \A m \in 1 .. n - 1 : Exists(Name(m)))

\* moveDirectoryRecursive makes the target directory and copies file by file.
\* The only tmpfs directory is the -d directory.
StartMove ==
    /\ pc = "rescue"
    /\ own # None /\ Exists(own)
    /\ LET dst == NextFree(own.base[1]) IN
         /\ dirs' = Made(dst, Empty)
         /\ move' = [NoMove EXCEPT !.dst = dst, !.todo = ItemsOf(own)]
    /\ pc' = "copy"
    /\ UNCHANGED <<mounted, own, workDirs, history>>

\* open(O_CREAT | O_TRUNC) of the copy; item is a photo or a description.
CopyBegins(item) ==
    /\ pc = "copy" /\ move.now = {}
    /\ item \in move.todo
    /\ move' = [move EXCEPT !.todo = @ \ {item}, !.now = {item}]
    /\ LET name == item[2] IN
         dirs' = IF item[1] = "photo"
                 THEN [dirs EXCEPT ![move.dst].photo[name] = dirs[own].photo[name],
                                   ![move.dst].torn = @ \cup {name}]
                 ELSE [dirs EXCEPT ![move.dst].desc[name] = [NoDesc EXCEPT !.is = "torn"]]
    /\ UNCHANGED <<pc, mounted, own, workDirs, history>>

CopyEnds(item) ==
    /\ pc = "copy" /\ move.now = {item}
    /\ move' = [move EXCEPT !.now = {}]
    /\ LET name == item[2] IN
         dirs' = IF item[1] = "photo"
                 THEN [dirs EXCEPT ![move.dst].torn = @ \ {name}]
                 ELSE [dirs EXCEPT ![move.dst].desc[name] = dirs[own].desc[name]]
    /\ UNCHANGED <<pc, mounted, own, workDirs, history>>

\* A write fails (the SD is full); the loop goes on to the next file.
CopyFails ==
    /\ pc = "copy" /\ move.now # {}
    /\ move' = [move EXCEPT !.now = {}, !.ok = FALSE]
    /\ UNCHANGED <<pc, diskVars, own, workDirs, history>>

\* Mutant: a half copy stays on the SD.
LeftAfterMoveUncleaned == IF move.ok THEN DOMAIN dirs \ {own} ELSE DOMAIN dirs

\* The source is removed, or the half copy.
LeftAfterMove == DOMAIN dirs \ {IF move.ok THEN own ELSE move.dst}

Off(left) ==
    /\ pc' = "off"
    /\ dirs' = Restrict(dirs, {p \in left : p.fs = "sd"})
    /\ mounted' = FALSE
    /\ own' = None
    /\ workDirs' = {}
    /\ move' = NoMove

\* All files have been tried; own = None says that the loop is through.
MoveEnds ==
    /\ pc = "copy" /\ move.todo = {} /\ move.now = {}
    /\ dirs' = Restrict(dirs, LeftAfterMove)
    /\ move' = NoMove
    /\ pc' = "rescue"
    /\ own' = None
    /\ UNCHANGED <<mounted, workDirs, history>>

\* The run ends otherwise (idle, a signal, no SD), or the rescue is over.
PowerOff ==
    /\ pc = "upload" \/ (pc = "rescue" /\ (own # None => ~Exists(own)))
    /\ Off(DOMAIN dirs)
    /\ UNCHANGED history

PowerLost ==
    /\ pc # "off"
    /\ Off(DOMAIN dirs)
    /\ cut' = (cut \/ pc = "copy")
    /\ UNCHANGED <<taken, accepted, acceptedTorn>>
-----------------------------------------------------------------------------
Next ==
    \/ \E s \in Shots, stamp \in Stamps : QuickSnap(s, stamp)
    \/ ForceUpload
    \/ \E failed \in SUBSET ToUpload : BuildWorkDirs(failed)
    \/ Upload
    \/ UploadTimeout \/ StartMove
    \/ \E item \in Items : CopyBegins(item) \/ CopyEnds(item)
    \/ CopyFails \/ MoveEnds
    \/ PowerOff \/ PowerLost

Spec == Init /\ [][Next]_vars
\* Captures and stamps are interchangeable.
Symmetry == Permutations(Shots) \cup Permutations(Stamps)
-----------------------------------------------------------------------------
(* Properties.                                                             *)

\* Between two uploads no photo is lost: a rescue keeps every whole copy, also
\* one of another directory with the same stamp, and only tmpfs goes with the
\* power.
RescueKeeps ==
    [][pc # "upload" => \A f \in Files :
         /\ On("sd", f) => On("sd", f)' \/ On("tmpfs", f)'
         /\ On("tmpfs", f) /\ pc' # "off" => On("sd", f)' \/ On("tmpfs", f)']_vars

\* The server is never given a part of a photo, as long as no loss of power has
\* cut a rescue short: a failed copy leaves nothing a later boot would find.
AcceptedWhole == ~cut => ~acceptedTorn

StampsDiffer == \A s, t \in Shots : s # t /\ taken[s] # None => taken[s] # taken[t]

\* While no two captures share a stamp, a directory is removed after its upload
\* only when the server has every photo in it, over any number of boots.
RemovedUp ==
    [][pc = "upload" /\ pc' = "upload" /\ StampsDiffer =>
         \A p \in DOMAIN dirs \ DOMAIN dirs' : \A k \in Photos :
           HasPhoto(p, k) => <<dirs[p].photo[k], k>> \in accepted']_vars

\* A description taken along to the SD still finds the photos that are there
\* with it.  It does not hold of the code: no run claims it.
ResumeFindsMedia ==
    pc = "upload" /\ ~cut => \A p \in workDirs \cap DOMAIN dirs, b \in Bases :
        dirs[p].desc[b].is = "whole" =>
            \A k \in dirs[p].desc[b].left : HasPhoto(p, k) => dirs[p].desc[b].at = p
=============================================================================
