--------------------------- MODULE MCPowerManager ---------------------------
(* Small instances of PowerManager for TLC.                                *)
EXTENDS PowerManager
=============================================================================
