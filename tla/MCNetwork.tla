----------------------------- MODULE MCNetwork -----------------------------
(***************************************************************************)
(* Network for TLC: an interface that is shown and one that is not, each   *)
(* of which may be attached and detached any number of times.              *)
(***************************************************************************)
EXTENDS Network
=============================================================================
