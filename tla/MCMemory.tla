------------------------------ MODULE MCMemory ------------------------------
(***************************************************************************)
(* Memory for TLC: a machine of three pages of two bytes.  A failed call   *)
(* leaves zeros, or more pages than there are.                             *)
(***************************************************************************)
EXTENDS Memory

Filled(n) == [queues |-> [free |-> n, inactive |-> n, busy |-> n], pageins |-> n]

MCStack == {Filled(0), Filled(2)}
=============================================================================
