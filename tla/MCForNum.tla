------------------------------ MODULE MCForNum ------------------------------
(* Instances of ForNumLowered for TLC over a signed type of four bits.       *)
EXTENDS ForNumLowered

MCMin == -8
MCMax == 7
MCStarts == -3 .. 1
MCBounds == -2 .. 4
MCAssigned == {-8, 0, 7}
MCAllBounds == -8 .. 7
=============================================================================
