---------------------------- MODULE RemoteSession ----------------------------
(***************************************************************************)
(* What the session of a listener promises the initiator about the         *)
(* messages on its channel: the abstract specification that ListenerSession *)
(* (src/rnsh/session.py) implements and that Initiator                     *)
(* (src/rnsh/initiator.py) relies on.                                      *)
(*                                                                         *)
(* A chunk of output is a number, the position of the chunk in what the    *)
(* command wrote to the stream; Echo is input that the listener echoes.    *)
(***************************************************************************)
EXTENDS Naturals, Sequences

VARIABLES
  sent,        \* the messages so far, in order
  command      \* the command of the session: "none", "running" or "ended"

remoteVars == <<sent, command>>

Echo    == 0
Streams == {"stderr", "stdout"}
Packet(kind, data) == [kind |-> kind, data |-> data]

Said(kind) == \E i \in 1..Len(sent) : sent[i].kind = kind

\* The chunks of t follow those of s, and those of s are in order.
Before(s, t) == \A i \in 1..Len(s), j \in 1..Len(t) :
                  s[i] # Echo /\ t[j] # Echo => s[i] < t[j]
Increasing(s) == \A i, j \in 1..Len(s) :
                   i < j /\ s[i] # Echo /\ s[j] # Echo => s[i] < s[j]

\* Output is a part of a stream that follows all parts of it sent before.
Follows(s, data) ==
  /\ Increasing(data)
  /\ \A i \in 1..Len(sent) : sent[i].kind = s => Before(sent[i].data, data)

\* An error is said at any time, the version once and before all other messages,
\* output only of a command, its exit once and only when it has ended.
MaySay(p) ==
  \/ p.kind = "Error"
  \/ p.kind = "Version" /\ command = "none" /\ ~Said("Version")
  \/ p.kind = "Noop"    /\ Said("Version")
  \/ p.kind \in Streams /\ Said("Version") /\ command # "none"
                        /\ Follows(p.kind, p.data)
  \/ p.kind = "Exited"  /\ Said("Version") /\ command = "ended" /\ ~Said("Exited")

Says(p) == MaySay(p) /\ sent' = Append(sent, p) /\ UNCHANGED command

\* A message of any content: read off the new state, which needs no bound on it.
Speak == Len(sent') = Len(sent) + 1 /\ Says(sent'[Len(sent')])

\* One command in the life of a session, and only after the versions.
Start == /\ command = "none" /\ Said("Version")
         /\ command' = "running" /\ UNCHANGED sent
End   == /\ command = "running"
         /\ command' = "ended" /\ UNCHANGED sent

Init == sent = <<>> /\ command = "none"
Next == Speak \/ Start \/ End

Spec == Init /\ [][Next]_remoteVars
=============================================================================
