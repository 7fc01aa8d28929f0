------------------------------ MODULE ImageFile ------------------------------
(***************************************************************************)
(* What a connection to a disk image file promises to the code that uses   *)
(* it: the file is attached to the host for a while, detaching takes       *)
(* effect some time after it is requested, and a user who is told that the *)
(* connection has closed cleanly has the file to itself.                   *)
(***************************************************************************)
VARIABLES
    state,    \* "detached", "attached" or "releasing"
    outcome   \* what the user was told: "none", "ok", "error" or "unclean"

fileVars == <<state, outcome>>

FileInit == state = "detached" /\ outcome = "none"

Attach ==
    /\ state = "detached" /\ outcome = "none"
    /\ state' = "attached"
    /\ UNCHANGED outcome

\* The detach is requested; the kernel completes it when nothing uses the file.
Release ==
    /\ state = "attached"
    /\ state' = "releasing"
    /\ UNCHANGED outcome

Released ==
    /\ state = "releasing"
    /\ state' = "detached"
    /\ UNCHANGED outcome

\* A clean close is reported only once the file is detached.
ReportClean ==
    /\ outcome = "none" /\ state = "detached"
    /\ outcome' = "ok"
    /\ UNCHANGED state

\* An error, or a close that nobody waited for, may be reported at any time.
ReportOther ==
    /\ outcome = "none"
    /\ outcome' \in {"error", "unclean"}
    /\ UNCHANGED state

FileNext == Attach \/ Release \/ Released \/ ReportClean \/ ReportOther

FileSpec == FileInit /\ [][FileNext]_fileVars
=============================================================================
