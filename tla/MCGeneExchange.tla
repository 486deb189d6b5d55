--------------------------- MODULE MCGeneExchange ---------------------------
(* Small instances of GeneExchange for TLC.                                *)
EXTENDS GeneExchange, TLC

CONSTANTS b1, b2

Couple == {b1, b2}

\* The badges are alike.
BadgeSymmetry == Permutations(Badges)
=============================================================================
