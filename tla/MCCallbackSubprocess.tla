----------------------- MODULE MCCallbackSubprocess -----------------------
(***************************************************************************)
(* Small instances of CallbackSubprocess.                                  *)
(***************************************************************************)
EXTENDS CallbackSubprocess

MCExitCodes == {0, 3}
MCPtyEnds   == {5}          \* one pseudo terminal
MCPipeEnds  == {5, 6, 7}    \* three pipes
=============================================================================
