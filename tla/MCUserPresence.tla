-------------------------- MODULE MCUserPresence ---------------------------
(* Instances of UserPresence for TLC. *)
EXTENDS UserPresence, TLC
=============================================================================
