------------------------------ MODULE Initiator ------------------------------
(***************************************************************************)
(* The initiator of rnsh: initiate() of src/rnsh/initiator.py, from the    *)
(* request for a link to the value it returns, together with the channel   *)
(* and a listener session that keeps the promises of RemoteSession.        *)
(*                                                                         *)
(* initiate() is a coroutine on the asyncio loop; its position is pc.  The *)
(* reader callback of stdin runs only where the coroutine suspends.  The   *)
(* threads of Reticulum put messages into the queue _pq and report a       *)
(* closed link at any moment.  What the reader makes of the keys that are  *)
(* typed is the subject of StdinFilter.                                    *)
(***************************************************************************)
EXTENDS Naturals, Sequences, SequencesExt

CONSTANTS
  Window,      \* messages the channel keeps unproved
  MaxData,     \* bound: bytes read from stdin and messages with output, together
  MaxWinch     \* bound: changes of the window's size

ASSUME WindowAssumption == Window \in Nat \ {0}
ASSUME BoundAssumption == MaxData \in Nat /\ MaxWinch \in Nat

VARIABLES
  pc, finished, cancelled, result,
  link,
  is_stdin_pipe, stdin_read, stdin_eof, data_buffer,
  chunk, eof, sent_eof,
  said, fed, heard,
  sent, command, spoken, taken, printed,
  winch, winches

controlVars == <<pc, finished, cancelled, result>>
inputVars   == <<is_stdin_pipe, stdin_read, stdin_eof, data_buffer>>
cutVars     == <<chunk, eof, sent_eof>>
saidVars    == <<said, fed, heard>>
remoteVars  == <<sent, command, spoken>>
queueVars   == <<taken, printed>>
winchVars   == <<winch, winches>>

vars == <<controlVars, link, inputVars, cutVars, saidVars, remoteVars,
          queueVars, winchVars>>

Remote == INSTANCE RemoteSession
Streams == Remote!Streams

Handshake == {"connect", "version", "reply", "ready", "event"}
MainLoop  == {"top", "get", "stdin", "send", "winch", "raised"}
Results   == {"none", "unhandled", "interrupted", "no_link", "no_version",
              "finished", "remote_error", "client_error", "return_code"}
SaidKinds == {"Version", "Execute", "Stdin", "StdinEof", "Winsize"}
Packets   == [kind : {"Version", "Error"}, data : {<<>>}]
             \cup [kind : {"Exited"}, data : {<<>>}]
             \cup [kind : Streams, data : {<<c>> : c \in 1..MaxData}]

TypeOK ==
  /\ pc \in Handshake \cup MainLoop \cup {"exited"}
  /\ finished \in {"none", "clear", "set"}
  /\ cancelled \in BOOLEAN
  /\ result \in Results
  /\ link \in {"pending", "active", "closing", "closed"}
  /\ is_stdin_pipe \in BOOLEAN
  /\ stdin_read \in Seq(Nat)
  /\ stdin_eof \in BOOLEAN
  /\ data_buffer \in Seq(Nat)
  /\ chunk \in Seq(Nat)
  /\ eof \in BOOLEAN
  /\ sent_eof \in BOOLEAN
  /\ said \in Seq(SaidKinds)
  /\ fed \in Seq(Nat)
  /\ heard \in 0..Len(said)
  /\ Len(said) - heard \in 0..Window
  /\ sent \in Seq(Packets)
  /\ command \in {"none", "running", "ended"}
  /\ spoken \in Seq(Packets)
  /\ taken \in 0..Len(sent)
  /\ printed \in Seq(Packets)
  /\ winch \in BOOLEAN
  /\ winches \in Nat

Bytes(from, to) == [i \in 1..(to - from) |-> from + i]

\* A pipe is read to its end before the link is requested; a terminal is not.
Init ==
  /\ pc = "connect" /\ finished = "none" /\ cancelled = FALSE
  /\ result = "none"
  /\ link = "pending"
  /\ is_stdin_pipe \in BOOLEAN
  /\ stdin_read \in {Bytes(0, n) : n \in 0..IF is_stdin_pipe THEN MaxData ELSE 0}
  /\ data_buffer = stdin_read
  /\ stdin_eof = FALSE
  /\ chunk = <<>> /\ eof = FALSE /\ sent_eof = FALSE
  /\ said = <<>> /\ fed = <<>> /\ heard = 0
  /\ Remote!Init /\ spoken = <<>>
  /\ taken = 0
  /\ printed = <<>>
  /\ winch = FALSE /\ winches = 0

-----------------------------------------------------------------------------
(***************************************************************************)
(* The channel and the ways out.                                           *)
(***************************************************************************)
ChannelUp    == link = "active"
ChannelReady == link = "active" /\ Len(said) - heard < Window

\* channel.send(): raises when the channel is not ready.
Send(kind) == /\ ChannelReady
              /\ said' = Append(said, kind)
              /\ UNCHANGED heard

Queued  == taken < Len(sent)
Message == sent[taken + 1]
Taken   == taken' = taken + 1

Goto(l) == pc' = l /\ UNCHANGED <<finished, cancelled, result>>
Exit(r) == pc' = "exited" /\ result' = r /\ UNCHANGED <<finished, cancelled>>

\* _link.teardown() of a link that is up calls _client_link_closed at once.
Teardown == link' = IF link = "active" THEN "closed" ELSE link

-----------------------------------------------------------------------------
(***************************************************************************)
(* The handshake.                                                          *)
(***************************************************************************)

\* No path, no link in time.
ConnectFails ==
  /\ pc = "connect"
  /\ Exit("unhandled")
  /\ UNCHANGED <<link, inputVars, cutVars, saidVars, remoteVars, queueVars, winchVars>>

\* The link was up; it may be lost again while the initiator identifies.
Connected ==
  /\ pc = "connect" /\ link # "pending"
  /\ IF link = "active" THEN Goto("version") ELSE Exit("no_link")
  /\ UNCHANGED <<link, inputVars, cutVars, saidVars, remoteVars, queueVars, winchVars>>

SendVersion ==
  /\ pc = "version"
  /\ \/ Send("Version") /\ Goto("reply")
     \/ ~ChannelReady /\ Exit("unhandled") /\ UNCHANGED <<said, heard>>
  /\ UNCHANGED <<link, inputVars, cutVars, fed, remoteVars, queueVars, winchVars>>

\* _pq.get blocks the loop; an error tears the link down and is not caught.
GetVersion ==
  /\ pc = "reply" /\ Queued
  /\ Taken
  /\ CASE Message.kind = "Version" -> Goto("ready") /\ UNCHANGED link
       [] Message.kind = "Error"   -> Exit("unhandled") /\ Teardown
       [] OTHER                    -> Exit("unhandled") /\ UNCHANGED link
  /\ UNCHANGED <<inputVars, cutVars, saidVars, remoteVars, printed, winchVars>>

\* What follows when no reply arrives in time; the first is a slip.
ProceedUnanswered == Goto("ready")
GiveUp == Exit("no_version")

NoVersion ==
  /\ pc = "reply" /\ ~Queued
  /\ GiveUp
  /\ UNCHANGED <<link, inputVars, cutVars, saidVars, remoteVars, queueVars, winchVars>>

\* After at most a second the command line is sent, ready or not.
SendExecute ==
  /\ pc = "ready"
  /\ \/ Send("Execute") /\ Goto("event")
     \/ ~ChannelReady /\ Exit("unhandled") /\ UNCHANGED <<said, heard>>
  /\ UNCHANGED <<link, inputVars, cutVars, fed, remoteVars, queueVars, winchVars>>

\* The event _finished and the signal handlers exist from here on.
CreateFinished ==
  /\ pc = "event"
  /\ pc' = "top" /\ finished' = "clear"
  /\ UNCHANGED <<cancelled, result, link, inputVars, cutVars, saidVars, remoteVars,
                 queueVars, winchVars>>

-----------------------------------------------------------------------------
(***************************************************************************)
(* The main loop.                                                          *)
(***************************************************************************)

\* while not await _check_finished()
LoopTop ==
  /\ pc = "top" /\ ~cancelled
  /\ IF finished = "set" THEN Exit("finished") ELSE Goto("get")
  /\ UNCHANGED <<link, inputVars, cutVars, saidVars, remoteVars, queueVars, winchVars>>

NoMessage ==
  /\ pc = "get" /\ ~Queued
  /\ Goto("stdin")
  /\ UNCHANGED <<link, inputVars, cutVars, saidVars, remoteVars, queueVars, winchVars>>

\* os.write is given the data of stdout or stderr, and may raise.
PrintFirst == <<Message>> \o printed
PrintLast  == Append(printed, Message)

TakeOutput ==
  /\ pc = "get" /\ Queued /\ Message.kind \in Streams
  /\ Taken
  /\ printed' = PrintLast
  /\ Goto("stdin") \/ Goto("raised")
  /\ UNCHANGED <<link, inputVars, cutVars, saidVars, remoteVars, winchVars>>

TakeError ==
  /\ pc = "get" /\ Queued /\ Message.kind = "Error"
  /\ Taken
  /\ Teardown /\ Exit("remote_error")
  /\ UNCHANGED <<inputVars, cutVars, saidVars, remoteVars, printed, winchVars>>

TakeExited ==
  /\ pc = "get" /\ Queued /\ Message.kind = "Exited"
  /\ Taken
  /\ Exit("return_code")
  /\ UNCHANGED <<link, inputVars, cutVars, saidVars, remoteVars, printed, winchVars>>

\* compress_adaptive takes a prefix of the buffer, empty only if the buffer is;
\* the buffer is cut before the send.
EofEarly(data)  == ~sent_eof /\ stdin_eof
EofOnData(data) == ~sent_eof /\ stdin_eof /\ data # <<>>
EofAfter(data)  == ~sent_eof /\ stdin_eof /\ data = <<>>

CutStdin ==
  /\ pc = "stdin" /\ ChannelReady
  /\ \E n \in 0..Len(data_buffer) :
       /\ n = 0 => data_buffer = <<>>
       /\ chunk' = SubSeq(data_buffer, 1, n)
       /\ data_buffer' = SubSeq(data_buffer, n + 1, Len(data_buffer))
  /\ eof' = EofAfter(chunk')
  /\ Goto(IF chunk' # <<>> \/ eof' THEN "send" ELSE "winch")
  /\ UNCHANGED <<link, is_stdin_pipe, stdin_read, stdin_eof, sent_eof, saidVars,
                 remoteVars, queueVars, winchVars>>

SkipStdin ==
  /\ pc = "stdin" /\ ~ChannelReady
  /\ Goto("winch")
  /\ UNCHANGED <<link, inputVars, cutVars, saidVars, remoteVars, queueVars, winchVars>>

\* A lost link makes the send raise; the chunk is lost with it.
SendStdin ==
  /\ pc = "send"
  /\ \/ /\ Send(IF eof THEN "StdinEof" ELSE "Stdin")
        /\ fed' = fed \o chunk
        /\ sent_eof' = eof
        /\ Goto("winch")
     \/ ~ChannelReady /\ Goto("raised") /\ UNCHANGED <<saidVars, sent_eof>>
  /\ chunk' = <<>> /\ eof' = FALSE
  /\ UNCHANGED <<link, inputVars, remoteVars, queueVars, winchVars>>

\* A new size is sent unless the last one was sent too recently; the flag is cleared
\* first, and the exceptions of a terminal that cannot tell its size and of a channel
\* that is not ready are suppressed.
SendWinch ==
  /\ pc = "winch"
  /\ \/ /\ winch
        /\ winch' = FALSE
        /\ (Send("Winsize") \/ UNCHANGED <<said, heard>>)
     \/ UNCHANGED <<winch, said, heard>>
  /\ Goto("top")
  /\ UNCHANGED <<link, inputVars, cutVars, fed, remoteVars, queueVars, winches>>

\* The handler of all other exceptions leaves the loop only on a link that is up.
Raised ==
  /\ pc = "raised"
  /\ IF link = "active" THEN Teardown /\ Exit("client_error")
                        ELSE Goto("top") /\ UNCHANGED link
  /\ UNCHANGED <<inputVars, cutVars, saidVars, remoteVars, queueVars, winchVars>>

-----------------------------------------------------------------------------
(***************************************************************************)
(* Callbacks, signals, Reticulum and the listener.                         *)
(***************************************************************************)
Suspended == pc \in {"ready", "top"}

\* The reader callback gets more input or its end.  The end of a terminal is passed on
\* as CTRL_D.  Input that counts as a pipe was read to its end before the link was
\* made; if it is a terminal under --no-tty, more may be typed after that.
ReadStdin ==
  /\ Suspended /\ ~stdin_eof
  /\ stdin_eof' \in BOOLEAN
  /\ \E n \in 0..(MaxData - Len(spoken)) :
       /\ stdin_read' = stdin_read \o Bytes(Len(stdin_read), n)
       /\ \/ ~stdin_eof' /\ n > Len(stdin_read)
          \/ stdin_eof' /\ is_stdin_pipe /\ n = 0
          \/ stdin_eof' /\ ~is_stdin_pipe /\ n = Len(stdin_read) + 1
       /\ data_buffer' = data_buffer \o Bytes(Len(stdin_read), n)
  /\ UNCHANGED <<controlVars, link, is_stdin_pipe, cutVars, saidVars, remoteVars,
                 queueVars, winchVars>>

FinishedKept == finished
FinishedSet == IF finished = "none" THEN "none" ELSE "set"

\* The escape sequence "~." tears the link down.
EscapeQuit ==
  /\ Suspended /\ ~stdin_eof /\ ~is_stdin_pipe
  /\ link = "active"
  /\ Teardown
  /\ finished' = FinishedSet
  /\ UNCHANGED <<pc, cancelled, result, inputVars, cutVars, saidVars, remoteVars,
                 queueVars, winchVars>>

\* SIGINT: before the handlers are set asyncio.run cancels the coroutine.
Interrupt ==
  /\ pc # "exited" /\ ~cancelled
  /\ IF finished = "none" THEN cancelled' = TRUE /\ UNCHANGED finished
                          ELSE finished' = "set" /\ UNCHANGED cancelled
  /\ UNCHANGED <<pc, result, link, inputVars, cutVars, saidVars, remoteVars,
                 queueVars, winchVars>>

\* The cancellation arrives where the coroutine suspends.
Cancelled ==
  /\ cancelled /\ pc \in {"connect", "ready", "top"}
  /\ Exit("interrupted")
  /\ UNCHANGED <<link, inputVars, cutVars, saidVars, remoteVars, queueVars, winchVars>>

Winch ==
  /\ pc \in MainLoop /\ ~winch /\ winches < MaxWinch
  /\ winch' = TRUE /\ winches' = winches + 1
  /\ UNCHANGED <<controlVars, link, inputVars, cutVars, saidVars, remoteVars, queueVars>>

LinkUp ==
  /\ pc = "connect" /\ link = "pending"
  /\ link' = "active"
  /\ UNCHANGED <<controlVars, inputVars, cutVars, saidVars, remoteVars, queueVars, winchVars>>

LinkDown ==
  /\ link = "active"
  /\ link' = "closing"
  /\ UNCHANGED <<controlVars, inputVars, cutVars, saidVars, remoteVars, queueVars, winchVars>>

\* _client_link_closed sets the event, if there is one.
LinkClosed ==
  /\ link = "closing"
  /\ link' = "closed"
  /\ finished' = FinishedSet
  /\ UNCHANGED <<pc, cancelled, result, inputVars, cutVars, saidVars, remoteVars,
                 queueVars, winchVars>>

\* A message reaches the listener, whose proof frees its place in the window.
Hear ==
  /\ link = "active" /\ heard < Len(said)
  /\ heard' = heard + 1
  /\ UNCHANGED <<controlVars, link, inputVars, cutVars, said, fed, remoteVars,
                 queueVars, winchVars>>

Heard(kind) == \E i \in 1..heard : said[i] = kind

\* The listener answers what it has heard, within the promises of RemoteSession,
\* and _client_message_handler puts the message into the queue.  What is lost with
\* the link is never said here: the promises hold of every prefix.  spoken keeps the
\* output that was said before the exit.
ListenerSays ==
  /\ link = "active"
  /\ \E p \in Packets :
       /\ p.kind = "Version" => Heard("Version")
       /\ p.kind = "Error" => ~Remote!Said("Error")
       /\ p.kind \in Streams => /\ p.data = <<Len(spoken) + 1>>
                                /\ Len(spoken) + Len(stdin_read) < MaxData
       /\ Remote!Says(p)
       /\ spoken' = IF p.kind \in Streams /\ ~Remote!Said("Exited")
                      THEN Append(spoken, p) ELSE spoken
  /\ UNCHANGED <<controlVars, link, inputVars, cutVars, saidVars, queueVars, winchVars>>

CommandRuns ==
  /\ (Remote!Start /\ Heard("Execute")) \/ Remote!End
  /\ UNCHANGED <<controlVars, link, inputVars, cutVars, saidVars, spoken, queueVars,
                 winchVars>>

-----------------------------------------------------------------------------
InitiatorStep ==
  \/ ConnectFails \/ Connected \/ SendVersion \/ GetVersion \/ NoVersion
  \/ SendExecute \/ CreateFinished \/ LoopTop \/ NoMessage \/ TakeOutput
  \/ TakeError \/ TakeExited \/ CutStdin \/ SkipStdin \/ SendStdin \/ SendWinch
  \/ Raised \/ Cancelled

Environment ==
  \/ ReadStdin \/ EscapeQuit \/ Interrupt \/ Winch
  \/ LinkUp \/ LinkDown \/ LinkClosed \/ Hear
  \/ ListenerSays \/ CommandRuns

Next == InitiatorStep \/ Environment

Spec == Init /\ [][Next]_vars

\* A message on the link arrives in the end, or the link is given up.
Settle == heard < Len(said) /\ (Hear \/ LinkDown)

\* The coroutine runs, its time limits pass, Reticulum delivers or gives up and
\* reports a closed link.
Fairness ==
  /\ WF_vars(InitiatorStep)
  /\ WF_vars(LinkClosed)
  /\ WF_vars(Settle)

FairSpec == Spec /\ Fairness

-----------------------------------------------------------------------------
(***************************************************************************)
(* Safety.                                                                 *)
(***************************************************************************)

\* The command line goes out only in answer to the listener's version, however
\* late or lost that is (README.md:260-266; initiator.py:268-277): a session in
\* any other state would take it for a protocol error.
ExecuteAfterVersion ==
  \A i \in 1..Len(said) :
    said[i] \in {"Execute", "Stdin", "StdinEof", "Winsize"} =>
      said[1] = "Version" /\ Remote!Said("Version")

\* Standard input is a pipe to the session: what was read is sent in order and
\* without gaps, and its end after all of it, although the buffer is cut before a
\* send that may raise (initiator.py:489-495).
StdinPipe ==
  INSTANCE Pipe WITH input <- stdin_read, closed <- stdin_eof, output <- fed,
                     ended <- sent_eof
StdinKept == StdinPipe!Spec

\* So is the command's output, whose end is the return of the command's code: all
\* that the session sent of it before the exit has then been given to os.write, in
\* the order it was sent, although messages, signals and a lost link compete for
\* the loop (initiator.py:419-451).
OutputPipe ==
  INSTANCE Pipe WITH input <- spoken, closed <- Remote!Said("Exited"),
                     output <- printed, ended <- (result = "return_code")
OutputKept == OutputPipe!Spec

-----------------------------------------------------------------------------
(***************************************************************************)
(* Liveness, under Fairness.                                               *)
(***************************************************************************)

\* A link lost during the main loop ends the initiator (README.md:290), and so does
\* the report of the command's exit in the queue, whatever the loop is doing.  A
\* link lost before _finished exists has no such effect (initiator.py:144-147): the
\* callback finds nothing to set, and the main loop spins.
LoopEnds ==
  Remote!Said("Exited") \/ (link = "closing" /\ finished # "none") ~> pc = "exited"

\* The end of stdin reaches the session, unless the initiator ends first or the
\* channel is gone: a full window only delays it (initiator.py:456, 492-495).
EofDelivered == stdin_eof ~> sent_eof \/ pc = "exited" \/ link # "active"
=============================================================================
