-------------------------- MODULE MCImageTransfer --------------------------
(* Small instances of ImageTransfer for TLC.                               *)
EXTENDS ImageTransfer
=============================================================================
