----------------------------- MODULE MCTerminal -----------------------------
(***************************************************************************)
(* Terminal for TLC.  It has no constants: TLC checks all of it.           *)
(***************************************************************************)
EXTENDS Terminal
=============================================================================
