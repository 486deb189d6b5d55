---------------------------- MODULE PictureStore ----------------------------
(***************************************************************************)
(* What uploading a picture promises, with no word on how it is done.      *)
(*                                                                         *)
(* The badge shows a picture or none.  Whoever is at the app asks for one  *)
(* change at a time: another picture, or none.  Until the change is        *)
(* reported done, the badge may show nothing, or any complete picture, for *)
(* links break and badges reboot at bad times; it never shows a patchwork. *)
(* A change is reported done only when the badge shows what was asked for. *)
(***************************************************************************)
CONSTANTS
    Complete,   \* the pictures that are complete and come from one upload
    Nothing     \* no picture

VARIABLES
    picture,    \* what the badge has stored
    request,    \* what was asked for, while a change is pending
    outcome     \* of the change that is pending, or of the last one

vars == <<picture, request, outcome>>

Init ==
    /\ picture = Nothing
    /\ request = Nothing
    /\ outcome = "none"

Ask(p) ==
    /\ outcome # "pending"
    /\ request' = p
    /\ outcome' = "pending"
    /\ UNCHANGED picture

Store(p) ==
    /\ picture' = p
    /\ UNCHANGED <<request, outcome>>

ReportDone ==
    /\ outcome = "pending"
    /\ picture = request
    /\ outcome' = "done"
    /\ request' = Nothing
    /\ UNCHANGED picture

ReportFailed ==
    /\ outcome = "pending"
    /\ outcome' = "failed"
    /\ request' = Nothing
    /\ UNCHANGED picture

Next ==
    \/ \E p \in Complete \cup {Nothing} : Ask(p) \/ Store(p)
    \/ ReportDone
    \/ ReportFailed

Spec == Init /\ [][Next]_vars
=============================================================================
