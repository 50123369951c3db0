------------------------- MODULE MCListenerSession -------------------------
(***************************************************************************)
(* Small instances of ListenerSession.                                     *)
(***************************************************************************)
EXTENDS ListenerSession

CONSTANTS alice, mallory      \* model values: a listed and an unlisted identity

MCIdentities == {alice, mallory}
MCAllowed    == {alice}

\* Messages of a handshake, in and out of place, and the end of stdin.
MCLifeMessages == {"Version", "BadVersion", "Execute", "ExecuteCmd", "StdinEof"}

\* Messages of a running session.
MCRunningMessages == {"Version", "Execute", "Stdin", "Noop"}

\* The same without keepalives, which share the channel's window with the pump.
MCQuietMessages == {"Version", "Execute", "StdinEof"}

\* How much the command writes.
MCSilent == [s \in Streams |-> 0]
MCOneEach == [s \in Streams |-> 1]
MCMoreStdout == [MCOneEach EXCEPT !["stdout"] = 2]
=============================================================================
