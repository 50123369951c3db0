----------------------------- MODULE MCInitiator -----------------------------
(***************************************************************************)
(* Small instances of Initiator.                                           *)
(***************************************************************************)
EXTENDS Initiator
=============================================================================
