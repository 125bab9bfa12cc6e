------------------------------- MODULE Mirror -------------------------------
(***************************************************************************)
(* What both syncs promise: a copy of a remote history that somebody else  *)
(* keeps changing.  The copy only ever grows, and only by items a sync has *)
(* read.  A sync that is complete has copied everything that was in the    *)
(* history when it began, unless something was taken out of the history    *)
(* meanwhile (torn), or an earlier sync left a hole that this one does not *)
(* know of (lost).                                                         *)
(*                                                                         *)
(* How a sync finds what is missing - paging by offset back to a buffer,   *)
(* or by page number back to an item it knows - is left to FsqFetch and    *)
(* Tripit, which implement this.                                           *)
(***************************************************************************)

CONSTANTS
    Item,        \* what may be in the history
    LateLoses    \* whether an item that is entered late may make a hole

VARIABLES
    history,     \* the items at the remote service
    copy,        \* the items in the database
    page,        \* the items a sync has read and not copied yet
    phase,       \* where a sync is: "idle", "copying" or "complete"
    owed,        \* the history as it was when the last sync began
    torn,        \* since then something was taken out of it
    lost         \* there may be a hole

vars == <<history, copy, page, phase, owed, torn, lost>>

Init ==
    /\ history = {}
    /\ copy = {}
    /\ page = {}
    /\ phase = "idle"
    /\ owed = {}
    /\ torn = FALSE
    /\ lost = FALSE

Grow(i) ==
    /\ i \notin history
    /\ history' = history \union {i}
    /\ lost' \in {lost, lost \/ LateLoses}
    /\ UNCHANGED <<copy, page, phase, owed, torn>>

Shrink(i) ==
    /\ i \in history
    /\ history' = history \ {i}
    /\ torn' \in {torn, torn \/ phase # "idle"}
    /\ UNCHANGED <<copy, page, phase, owed, lost>>

Begin ==
    /\ phase = "idle"
    /\ phase' = "copying"
    /\ owed' = history
    /\ torn' = FALSE
    /\ UNCHANGED <<history, copy, page, lost>>

Read ==
    /\ phase = "copying"
    /\ page = {}
    /\ page' \in SUBSET history
    /\ UNCHANGED <<history, copy, phase, owed, torn, lost>>

Store(i) ==
    /\ i \in page
    /\ copy' = copy \union {i}
    /\ page' = page \ {i}
    /\ UNCHANGED <<history, phase, owed, torn, lost>>

Complete ==
    /\ phase = "copying"
    /\ page = {}
    /\ ~torn /\ ~lost => owed \subseteq copy
    /\ phase' = "complete"
    /\ UNCHANGED <<history, copy, page, owed, torn, lost>>

End ==
    /\ phase = "complete"
    /\ phase' = "idle"
    /\ lost' \in {lost, lost \/ torn}
    /\ UNCHANGED <<history, copy, page, owed, torn>>

Fail ==
    /\ phase # "idle"
    /\ phase' = "idle"
    /\ page' = {}
    /\ lost' \in {lost, TRUE}
    /\ UNCHANGED <<history, copy, owed, torn>>

Next ==
    \/ \E i \in Item : Grow(i) \/ Shrink(i) \/ Store(i)
    \/ Begin
    \/ Read
    \/ Complete
    \/ End
    \/ Fail

Spec == Init /\ [][Next]_vars
=============================================================================
