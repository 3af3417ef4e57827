------------------------------- MODULE MCDisk -------------------------------
(***************************************************************************)
(* Disk for TLC: a table of two slots, three block devices that compete    *)
(* for them, and a medium that is none.                                    *)
(***************************************************************************)
EXTENDS Disk
=============================================================================
