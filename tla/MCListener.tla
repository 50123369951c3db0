------------------------------ MODULE MCListener ------------------------------
(***************************************************************************)
(* Small instances of Listener.                                            *)
(***************************************************************************)
EXTENDS Listener

CONSTANTS a, b, c      \* model values: three links

MCLinks == {a, b, c}
=============================================================================
