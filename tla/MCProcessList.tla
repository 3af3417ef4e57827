---------------------------- MODULE MCProcessList ---------------------------
(***************************************************************************)
(* ProcessList for TLC: two pids, each carried by up to two processes one  *)
(* after another, the user's own or somebody else's, and three refreshes:  *)
(* one to create an entry, one to measure against it, and one to measure   *)
(* against a total that such a refresh left.                               *)
(***************************************************************************)
EXTENDS ProcessList
=============================================================================
