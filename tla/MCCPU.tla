------------------------------- MODULE MCCPU -------------------------------
(***************************************************************************)
(* CPU for TLC: two cores, counters of three ticks that begin anew within  *)
(* two refreshes, and histories of three columns.  There is one dot: which *)
(* of them a column shows matters to no property.                          *)
(***************************************************************************)
EXTENDS CPU
=============================================================================
