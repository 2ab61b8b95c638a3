------------------------------ MODULE Custody ------------------------------
(***************************************************************************)
(* What uploading promises for the media of one work unit: the device      *)
(* stays in charge of a file (it is on disk and its description still asks *)
(* for it) until the server has accepted it.                               *)
(***************************************************************************)
CONSTANT Media

VARIABLES
    owed,      \* media the device still has and will still try to upload
    accepted   \* media the server has accepted

vars == <<owed, accepted>>

Init == owed = Media /\ accepted = {}

Accept(m) ==
    /\ accepted' = accepted \cup {m}
    /\ UNCHANGED owed

\* The device lets go of any number of files at once, all of them accepted.
Forget(gone) ==
    /\ gone \subseteq accepted
    /\ owed' = owed \ gone
    /\ UNCHANGED accepted

Next ==
    \/ \E m \in Media : Accept(m)
    \/ \E gone \in SUBSET owed : Forget(gone)

Spec == Init /\ [][Next]_vars

\* No file is lost: each is on the server or still in the device's charge.
NothingLost == \A m \in Media : m \in owed \/ m \in accepted
=============================================================================
