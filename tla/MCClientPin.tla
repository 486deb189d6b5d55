---------------------------- MODULE MCClientPin ----------------------------
(* Instances of ClientPin for TLC. *)
EXTENDS ClientPin, TLC

MCPinLength == [p \in Pins |-> IF p = 1 THEN 4 ELSE 6]
MCRequests == {{"mc", "lbw"}, {"ga", "acfg"}}
MCSymmetry == Permutations(RPs)
=============================================================================
