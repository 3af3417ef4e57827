------------------------------ MODULE MCCctop ------------------------------
(***************************************************************************)
(* Cctop for TLC: one size on each side of every threshold of loop(), a    *)
(* tick of a quarter of a second, and each kind of key.                    *)
(***************************************************************************)
EXTENDS Cctop

MCSizes ==
    {[w |-> 80, h |-> 50], [w |-> 120, h |-> 32], [w |-> 120, h |-> 50]}

MCKeys     == {"q", "c", "m", "n", "h"}
MCHelpKeys == {"q", "h", "H", "^D"}
=============================================================================
