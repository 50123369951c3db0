---------------------------- MODULE MCStdinFilter ----------------------------
(***************************************************************************)
(* Small instances of StdinFilter.                                         *)
(***************************************************************************)
EXTENDS StdinFilter
=============================================================================
