--------------------------- MODULE ListenerSession ---------------------------
(***************************************************************************)
(* One session of an rnsh listener: class ListenerSession of               *)
(* src/rnsh/session.py, from the end of its constructor to its             *)
(* destruction.                                                            *)
(*                                                                         *)
(* Three threads act on the session.                                       *)
(*   - The delivery thread of Reticulum calls _initiator_identified and    *)
(*     _handle_message.  Its position inside a handler is pc, the message  *)
(*     or identity it handles is arg.  One handler runs at a time.         *)
(*   - The asyncio loop thread runs the pump, the child's callbacks and    *)
(*     the timers.  Its position inside pump() is ppc.                     *)
(*   - The link watchdog of Reticulum calls _link_closed.                  *)
(* No lock protects the session, so the steps of the threads interleave    *)
(* wherever a handler reads a field and acts on it later.  Timers have no  *)
(* clock: one that is armed may fire at any later moment.                  *)
(***************************************************************************)
EXTENDS Naturals, Sequences

CONSTANTS
  Identities,          \* identities an initiator may present
  Allowed,             \* those the listener accepts (both allow lists)
  NoIdentity,          \* value of remote_identity before identification
  AllowAll,            \* the listener runs with --no-auth
  AllowRemoteCommand,  \* the listener runs without -C
  Messages,            \* kinds of message the initiator sends
  Window,              \* messages the channel keeps unproved
  MaxInputs,           \* bound: messages and identifications it sends
  MaxOut               \* bound: chunks the command writes to each stream

MessageKinds ==
  {"Version", "BadVersion", "Execute", "ExecuteCmd", "Stdin", "StdinEof",
   "BadStream", "Noop", "Winsize", "Other"}

ASSUME IdentityAssumption ==
  /\ Allowed \subseteq Identities
  /\ NoIdentity \notin Identities
ASSUME OptionAssumption ==
  /\ AllowAll \in BOOLEAN
  /\ AllowRemoteCommand \in BOOLEAN
  /\ Messages \subseteq MessageKinds
ASSUME WindowAssumption == Window \in Nat \ {0}
Streams    == {"stderr", "stdout"}
ASSUME BoundAssumption ==
  /\ MaxInputs \in Nat
  /\ MaxOut \in [Streams -> Nat]

VARIABLES
  state, authenticated, terminated, remote_identity, registered,
  pc, arg,
  process, killing, eof_timer, return_code,
  produced, delivered, buf, return_code_sent,
  ppc, chunk, rest,
  prunes, checks,
  sent, outstanding,
  link, link_closed_cb, inputs, shutdown

identityVars == <<authenticated, remote_identity, registered>>
sessionVars == <<state, terminated, identityVars>>
handlerVars == <<pc, arg>>
childVars   == <<process, killing, eof_timer, return_code>>
pumpVars    == <<ppc, chunk, rest>>
bufVars     == <<produced, delivered, buf, return_code_sent>>
outputVars  == <<bufVars, pumpVars>>
timerVars   == <<prunes, checks>>
channelVars == <<sent, outstanding>>
envVars     == <<link, link_closed_cb, inputs, shutdown>>

vars == <<sessionVars, handlerVars, childVars, outputVars, timerVars,
          channelVars, envVars>>

States     == {"WAIT_IDENT", "WAIT_VERS", "WAIT_CMD", "RUNNING", "ERROR",
               "TEARDOWN"}
LeftStates == States \cup {"NONE"}     \* states a protocol timer can name
Loop       == {"idle", "stderr", "stdout", "exit"}
Handler    == {"idle", "dispatch", "version", "execute", "start", "spawn",
               "stdin", "noop", "terminate", "accept", "reject"}
Echo       == 0        \* chunk that CallbackSubprocess.write echoes itself
SentKinds  == {"Version", "Error", "Noop", "Exited"} \cup Streams
Packets    == [kind : SentKinds, data : Seq(Nat)]

TypeOK ==
  /\ state \in States
  /\ authenticated \in BOOLEAN
  /\ terminated \in BOOLEAN
  /\ remote_identity \in Identities \cup {NoIdentity}
  /\ registered \in BOOLEAN
  /\ pc \in Handler
  /\ arg \in MessageKinds \cup Identities \cup {NoIdentity}
  /\ pc = "accept" => arg \in Identities
  /\ process \in {"none", "running", "zombie", "gone"}
  /\ killing \in BOOLEAN
  /\ eof_timer \in BOOLEAN
  /\ return_code \in BOOLEAN
  /\ produced \in [Streams -> Nat]
  /\ delivered \in [Streams -> Nat]
  /\ buf \in [Streams -> Seq(Nat)]
  /\ return_code_sent \in BOOLEAN
  /\ ppc \in Loop
  /\ chunk \in Seq(Nat)
  /\ rest \in Seq(Nat)
  /\ prunes \in Nat
  /\ checks \in [LeftStates -> Nat]
  /\ sent \in Seq(Packets)
  /\ outstanding \in 0..Window
  /\ link \in {"active", "closed"}
  /\ link_closed_cb \in BOOLEAN
  /\ inputs \in Nat
  /\ shutdown \in BOOLEAN

-----------------------------------------------------------------------------
(***************************************************************************)
(* The channel, the child process and the helpers of the session.          *)
(***************************************************************************)

\* channel.is_ready_to_send(): an unproved message fills one place of the window.
ChannelReadyNoWindow == link = "active"
ChannelReady == link = "active" /\ outstanding < Window

Packet(kind, data) == [kind |-> kind, data |-> data]

\* channel.send(): raises when the channel is not ready.
Send(kind, data) ==
  /\ ChannelReady
  /\ sent' = Append(sent, Packet(kind, data))
  /\ outstanding' = outstanding + 1

\* A send whose exception the caller suppresses.
TrySend(kind, data) ==
  \/ Send(kind, data)
  \/ ~ChannelReady /\ UNCHANGED channelVars

\* process.running is true of a zombie too: kill(pid, 0) succeeds.
ProcessRunning == process \in {"running", "zombie"}

\* _set_state arms a timer whose condition names the state being LEFT.
SetState(new) ==
  /\ state' = new
  /\ checks' = [checks EXCEPT ![state] = @ + 1]

\* The prune timers after terminate() has armed its own.
NotScheduled == prunes
Scheduled == prunes + 1

\* terminate(error): report, mark dead, stop the command, arm the prune timer.
Terminate(error) ==
  /\ IF error /\ state # "TEARDOWN"
       THEN TrySend("Error", <<>>)
       ELSE UNCHANGED channelVars
  /\ terminated' = TRUE
  /\ state' = "ERROR"
  /\ killing' = (killing \/ ProcessRunning)
  /\ prunes' = Scheduled

\* A handler goes on to step h with its input a, or returns to Reticulum.
Continue(h, a) == pc' = h /\ arg' = IF h = "idle" THEN NoIdentity ELSE a
Return == Continue("idle", NoIdentity)

\* What Terminate leaves alone.
OutsideTerminate ==
  <<remote_identity, registered, process, eof_timer, return_code, outputVars,
    checks>>

-----------------------------------------------------------------------------
(***************************************************************************)
(* The state the constructor leaves behind.                                *)
(***************************************************************************)
Init ==
  /\ state = IF AllowAll THEN "WAIT_VERS" ELSE "WAIT_IDENT"
  /\ authenticated = AllowAll
  /\ terminated = FALSE
  /\ remote_identity = NoIdentity
  /\ registered = TRUE
  /\ pc = "idle" /\ arg = NoIdentity
  /\ process = "none" /\ killing = FALSE /\ eof_timer = FALSE
  /\ return_code = FALSE /\ return_code_sent = FALSE
  /\ produced = [s \in Streams |-> 0]
  /\ delivered = [s \in Streams |-> 0]
  /\ buf = [s \in Streams |-> <<>>]
  /\ ppc = "idle" /\ chunk = <<>> /\ rest = <<>>
  /\ prunes = 0
  /\ checks = [s \in LeftStates |-> IF s = "NONE" THEN 1 ELSE 0]
  /\ sent = <<>> /\ outstanding = 0
  /\ link = "active" /\ link_closed_cb = TRUE
  /\ inputs = 0 /\ shutdown = FALSE

-----------------------------------------------------------------------------
(***************************************************************************)
(* Delivery thread: identification.                                        *)
(***************************************************************************)
AnyIdentity(i) == TRUE
IdentityAllowed(i) == AllowAll \/ i \in Allowed

\* _initiator_identified: the guards; the outcome is the thread's next step.
InitiatorIdentified(i) ==
  /\ pc = "idle" /\ link = "active" /\ inputs < MaxInputs
  /\ inputs' = inputs + 1
  /\ arg' = i
  /\ pc' = IF terminated \/ state \notin {"WAIT_IDENT", "WAIT_VERS"}
             THEN "terminate"
             ELSE IF IdentityAllowed(i) THEN "accept" ELSE "reject"
  /\ UNCHANGED <<sessionVars, childVars, outputVars, timerVars, channelVars,
                 link, link_closed_cb, shutdown>>

AcceptIdentity ==
  /\ pc = "accept"
  /\ authenticated' = TRUE
  /\ remote_identity' = arg
  /\ SetState("WAIT_VERS")
  /\ Return
  /\ UNCHANGED <<terminated, registered, childVars, outputVars, prunes,
                 channelVars, envVars>>

RejectIdentity ==
  /\ pc = "reject"
  /\ authenticated' = FALSE
  /\ Terminate(TRUE)
  /\ Return
  /\ UNCHANGED <<OutsideTerminate, envVars>>

-----------------------------------------------------------------------------
(***************************************************************************)
(* Delivery thread: messages.                                              *)
(***************************************************************************)
StateOpen == state \notin {"ERROR", "TEARDOWN"}
EntryOpen == ~terminated /\ StateOpen

\* _handle_message: the first guard.  The later ones read the state again.
HandleMessage(m) ==
  /\ pc = "idle" /\ link = "active" /\ inputs < MaxInputs
  /\ inputs' = inputs + 1
  /\ Continue(IF EntryOpen THEN "dispatch" ELSE "idle", m)
  /\ UNCHANGED <<sessionVars, childVars, outputVars, timerVars, channelVars,
                 link, link_closed_cb, shutdown>>

\* The step that handles message m in state RUNNING.
RunningHandlerRestarts(m) ==
  IF m \in {"Execute", "ExecuteCmd"} THEN "execute" ELSE "idle"
RunningHandler(m) ==
  CASE m \in {"Stdin", "StdinEof"} -> "stdin"
    [] m = "BadStream" -> "terminate"
    [] m = "Noop" -> "noop"
    [] OTHER -> "idle"

\* The step that handles message m in state s.
HandlerOf(s, m) ==
  CASE s = "WAIT_IDENT" -> "idle"
    [] s # "WAIT_IDENT" /\ ~authenticated -> "terminate"
    [] s = "WAIT_VERS" /\ authenticated ->
         IF m = "Version" THEN "version" ELSE "terminate"
    [] s = "WAIT_CMD" /\ authenticated ->
         IF m \in {"Execute", "ExecuteCmd"} THEN "execute" ELSE "terminate"
    [] s = "RUNNING" /\ authenticated -> RunningHandler(m)
    [] OTHER -> "terminate"

Dispatch ==
  /\ pc = "dispatch"
  /\ Continue(HandlerOf(state, arg), arg)
  /\ UNCHANGED <<sessionVars, childVars, outputVars, timerVars, channelVars,
                 envVars>>

\* Every protocol error of the two handlers ends here.
HandlerTerminate ==
  /\ pc = "terminate"
  /\ Terminate(TRUE)
  /\ Return
  /\ UNCHANGED <<OutsideTerminate, authenticated, envVars>>

NoReply == ChannelReady /\ UNCHANGED channelVars
VersionReply == Send("Version", <<>>)

\* The reply may raise; the state then stays WAIT_VERS.
HandleVersion ==
  /\ pc = "version"
  /\ \/ VersionReply /\ SetState("WAIT_CMD")
     \/ ~ChannelReady /\ UNCHANGED <<channelVars, state, checks>>
  /\ Return
  /\ UNCHANGED <<terminated, identityVars, childVars, outputVars, prunes,
                 envVars>>

HandleExecute ==
  /\ pc = "execute"
  /\ SetState("RUNNING")
  /\ pc' = "start"
  /\ UNCHANGED <<terminated, identityVars, arg, childVars, outputVars, prunes,
                 channelVars, envVars>>

\* The guards of _start_cmd after the one on terminated.
MayStart ==
  /\ authenticated
  /\ state = "RUNNING"
  /\ AllowRemoteCommand \/ arg = "Execute"

\* _start_cmd up to the creation of the process object.
StepAfterChecks ==
  IF terminated THEN "idle" ELSE IF MayStart THEN "spawn" ELSE "terminate"

StartCmd ==
  /\ pc = "start"
  /\ Continue(StepAfterChecks, arg)
  /\ UNCHANGED <<sessionVars, childVars, outputVars, timerVars, channelVars,
                 envVars>>

\* CallbackSubprocess.start(): the command runs, or the call raises.
Spawn ==
  /\ pc = "spawn"
  /\ Return
  /\ \/ /\ process' = "running"
        /\ UNCHANGED <<sessionVars, killing, eof_timer, return_code, outputVars,
                       timerVars, channelVars>>
     \/ Terminate(TRUE) /\ UNCHANGED <<OutsideTerminate, authenticated>>
  /\ UNCHANGED envVars

\* process.write may echo its data into stdout_buf from this thread;
\* process.close_stdin arms a timer that terminates a lingering command.
HandleStdin ==
  /\ pc = "stdin"
  /\ \/ buf' = [buf EXCEPT !["stdout"] = Append(@, Echo)]
     \/ UNCHANGED buf
  /\ eof_timer' = (eof_timer \/ arg = "StdinEof")
  /\ Return
  /\ UNCHANGED <<sessionVars, process, killing, return_code, produced,
                 delivered, return_code_sent, pumpVars, timerVars, channelVars,
                 envVars>>

HandleNoop ==
  /\ pc = "noop"
  /\ TrySend("Noop", <<>>)
  /\ Return
  /\ UNCHANGED <<sessionVars, childVars, outputVars, timerVars, envVars>>

-----------------------------------------------------------------------------
(***************************************************************************)
(* Loop thread: the pump.                                                  *)
(***************************************************************************)
LoopIdle == ppc = "idle"

CanPumpAnyState == registered /\ ChannelReady
CanPumpBlindly  == registered /\ state = "RUNNING"
CanPumpAlive    == /\ registered /\ state = "RUNNING" /\ ChannelReady
                   /\ process = "running"
CanPump         == registered /\ state = "RUNNING" /\ ChannelReady

Prefix(s, n) == SubSeq(s, 1, n)
Remainder(s, n) == SubSeq(s, n + 1, Len(s))

Drained(s) == buf[s] = <<>>

\* compress_adaptive takes a non-empty prefix of the buffer; stderr goes first.
PumpStream(s) ==
  /\ LoopIdle /\ ~shutdown /\ CanPump
  /\ ~Drained(s)
  /\ s = "stdout" => Drained("stderr")
  /\ \E n \in 1..Len(buf[s]) :
       /\ chunk' = Prefix(buf[s], n)
       /\ rest' = Remainder(buf[s], n)
  /\ ppc' = s
  /\ UNCHANGED <<sessionVars, handlerVars, childVars, bufVars, timerVars,
                 channelVars, envVars>>

\* The buffer is cut before the send, which may raise.
PumpSendStream ==
  /\ ppc \in Streams
  /\ buf' = [buf EXCEPT ![ppc] = rest]
  /\ TrySend(ppc, chunk)
  /\ ppc' = "idle" /\ chunk' = <<>> /\ rest' = <<>>
  /\ UNCHANGED <<sessionVars, handlerVars, childVars, produced, delivered,
                 return_code_sent, timerVars, envVars>>

PumpExit ==
  /\ LoopIdle /\ ~shutdown /\ CanPump
  /\ \A s \in Streams : Drained(s)
  /\ return_code /\ ~return_code_sent
  /\ ppc' = "exit"
  /\ UNCHANGED <<sessionVars, handlerVars, childVars, bufVars, chunk, rest,
                 timerVars, channelVars, envVars>>

\* What sending CommandExitedMessage records; the first and third are slips.
ForgetExitSent == return_code_sent
MarkExitSent == TRUE
ArmNothing == checks
ArmIdleCheck == [checks EXCEPT !["RUNNING"] = @ + 1]

\* CommandExitedMessage, then the idle check on RUNNING.
PumpSendExit ==
  /\ ppc = "exit"
  /\ \/ /\ Send("Exited", <<>>)
        /\ return_code_sent' = MarkExitSent
        /\ checks' = ArmIdleCheck
     \/ ~ChannelReady /\ UNCHANGED <<channelVars, return_code_sent, checks>>
  /\ ppc' = "idle"
  /\ UNCHANGED <<sessionVars, handlerVars, childVars, produced, delivered, buf,
                 chunk, rest, prunes, envVars>>

-----------------------------------------------------------------------------
(***************************************************************************)
(* Loop thread: callbacks of the child and timers.                         *)
(***************************************************************************)
Unread(s) == [i \in 1..(produced[s] - delivered[s]) |-> delivered[s] + i]

\* The reader callback drains the descriptor into the session's buffer.
ReadOutput(s) ==
  /\ LoopIdle
  /\ delivered[s] < produced[s]
  /\ buf' = [buf EXCEPT ![s] = @ \o Unread(s)]
  /\ delivered' = [delivered EXCEPT ![s] = produced[s]]
  /\ UNCHANGED <<sessionVars, handlerVars, childVars, produced,
                 return_code_sent, pumpVars, timerVars, channelVars, envVars>>

\* The poll reaps the child and reports its return code to _terminated.
PollReaps ==
  /\ LoopIdle
  /\ process = "zombie"
  /\ process' = "gone"
  /\ return_code' = TRUE
  /\ UNCHANGED <<sessionVars, handlerVars, killing, eof_timer, outputVars,
                 timerVars, channelVars, envVars>>

\* close_stdin's timer: terminate a command that lingers.
EnsureTerminate ==
  /\ LoopIdle
  /\ eof_timer
  /\ eof_timer' = FALSE
  /\ killing' = (killing \/ ProcessRunning)
  /\ UNCHANGED <<sessionVars, handlerVars, process, return_code, outputVars,
                 timerVars, channelVars, envVars>>

\* _check_protocol_timeout armed when the session left state f.
CheckProtocolTimeout(f) ==
  /\ LoopIdle
  /\ checks[f] > 0
  /\ checks' = [checks EXCEPT ![f] = @ - 1]
  /\ IF state = f /\ state # "TEARDOWN"
       THEN Terminate(TRUE)
       ELSE UNCHANGED <<state, terminated, killing, prunes, channelVars>>
  /\ UNCHANGED <<authenticated, remote_identity, registered, handlerVars,
                 process, eof_timer, return_code, outputVars, envVars>>

\* _prune.  teardown() closes the link, which calls _link_closed on this
\* thread if the callback is still set; that arms another prune timer.
Prune ==
  /\ LoopIdle
  /\ prunes > 0
  /\ registered' = FALSE
  /\ link' = "closed"
  /\ link_closed_cb' = FALSE
  /\ IF link_closed_cb
       THEN /\ state' = "ERROR"
            /\ terminated' = TRUE
            /\ killing' = (killing \/ ProcessRunning)
            /\ prunes' = prunes
       ELSE /\ state' = "TEARDOWN"
            /\ prunes' = prunes - 1
            /\ UNCHANGED <<terminated, killing>>
  /\ UNCHANGED <<authenticated, remote_identity, handlerVars, process,
                 eof_timer, return_code, outputVars, checks, channelVars,
                 inputs, shutdown>>

\* terminate_all: the listener shuts down and its main loop pumps no more.
Shutdown ==
  /\ LoopIdle /\ ~shutdown
  /\ registered
  /\ shutdown' = TRUE
  /\ Terminate(TRUE)
  /\ UNCHANGED <<OutsideTerminate, authenticated, handlerVars, link,
                 link_closed_cb, inputs>>

-----------------------------------------------------------------------------
(***************************************************************************)
(* Watchdog thread, waiter thread and environment.                         *)
(***************************************************************************)
\* _link_closed: the callback unsets itself and terminates without an error.
LinkClosed ==
  /\ link = "closed" /\ link_closed_cb
  /\ link_closed_cb' = FALSE
  /\ Terminate(FALSE)
  /\ UNCHANGED <<OutsideTerminate, authenticated, handlerVars, link, inputs,
                 shutdown>>

\* The thread that terminate() starts may win the race for the zombie: no
\* return code is reported then, unless a poll had its waitpid behind it.
WaiterReaps ==
  /\ process = "zombie" /\ killing
  /\ process' = "gone"
  /\ return_code' \in {return_code, TRUE}
  /\ UNCHANGED <<sessionVars, handlerVars, killing, eof_timer, outputVars,
                 timerVars, channelVars, envVars>>

ChildWrites(s) ==
  /\ process = "running"
  /\ produced[s] < MaxOut[s]
  /\ produced' = [produced EXCEPT ![s] = @ + 1]
  /\ UNCHANGED <<sessionVars, handlerVars, childVars, delivered, buf,
                 return_code_sent, pumpVars, timerVars, channelVars, envVars>>

ChildExits ==
  /\ process = "running"
  /\ process' = "zombie"
  /\ UNCHANGED <<sessionVars, handlerVars, killing, eof_timer, return_code,
                 outputVars, timerVars, channelVars, envVars>>

\* The initiator proves a message, which frees a place in the window.
Prove ==
  /\ link = "active" /\ outstanding > 0
  /\ outstanding' = outstanding - 1
  /\ UNCHANGED <<sessionVars, handlerVars, childVars, outputVars, timerVars,
                 sent, envVars>>

\* The link is torn down by the peer or times out.
LinkDown ==
  /\ link = "active"
  /\ link' = "closed"
  /\ UNCHANGED <<sessionVars, handlerVars, childVars, outputVars, timerVars,
                 channelVars, link_closed_cb, inputs, shutdown>>

-----------------------------------------------------------------------------
HandlerStep ==
  \/ AcceptIdentity \/ RejectIdentity
  \/ Dispatch \/ HandlerTerminate \/ HandleVersion \/ HandleExecute
  \/ StartCmd \/ Spawn \/ HandleStdin \/ HandleNoop

LoopStep ==
  \/ \E s \in Streams : PumpStream(s)
  \/ PumpSendStream \/ PumpExit \/ PumpSendExit
  \/ \E s \in Streams : ReadOutput(s)
  \/ PollReaps \/ EnsureTerminate
  \/ \E f \in LeftStates : CheckProtocolTimeout(f)
  \/ Prune \/ Shutdown

Environment ==
  \/ \E i \in Identities : InitiatorIdentified(i)
  \/ \E m \in Messages : HandleMessage(m)
  \/ LinkClosed \/ WaiterReaps
  \/ \E s \in Streams : ChildWrites(s)
  \/ ChildExits \/ Prove \/ LinkDown

Next == HandlerStep \/ LoopStep \/ Environment

Spec == Init /\ [][Next]_vars

\* A message on the link is proved in the end, or the link given up.
Settle == outstanding > 0 /\ (Prove \/ LinkDown)

\* The threads run, timers fire, the loop serves every callback that is due,
\* Reticulum reports a closed link, and on a live link the peer proves what it
\* received or the link is given up.
Fairness ==
  /\ WF_vars(HandlerStep)
  /\ \A s \in Streams : WF_vars(PumpStream(s)) /\ WF_vars(ReadOutput(s))
  /\ WF_vars(PumpSendStream) /\ WF_vars(PumpExit) /\ WF_vars(PumpSendExit)
  /\ WF_vars(PollReaps) /\ WF_vars(EnsureTerminate) /\ WF_vars(Prune)
  /\ \A f \in LeftStates : WF_vars(CheckProtocolTimeout(f))
  /\ WF_vars(LinkClosed)
  /\ WF_vars(Settle)

FairSpec == Spec /\ Fairness

-----------------------------------------------------------------------------
(***************************************************************************)
(* Safety.                                                                 *)
(***************************************************************************)

\* A command has been started only for an initiator whose identity is on an
\* allow list, or on a listener that runs without authentication
\* (session.py:105-106: nothing past identification may run without it).
AuthGate == process # "none" => AllowAll \/ remote_identity \in Allowed

\* Wherever a handler or the pump uses self.process without a test, a command
\* has been started (session.py:262, 273, 363, 365), although the state may be
\* set to RUNNING after another thread has terminated the session.
ProcessDereferenceSafe ==
  (pc = "stdin" \/ ppc \in Streams \/ \E s \in Streams : ~Drained(s))
    => process # "none"

\* A session that is dead is destroyed or its prune timer is armed; a destroyed
\* session is dead and its link closed (terminate, _prune).
DestroyScheduled ==
  /\ terminated => prunes > 0 \/ ~registered
  /\ ~registered => terminated /\ link = "closed"

\* On a live session that has answered no keepalive, every chunk read from the
\* command has been sent or waits in its buffer, although pump cuts the buffer
\* before a send that raises if the window is full (session.py:257-266).  A
\* keepalive answered between the test of the window and the send can fill it.
Holds(s, c) == \E i \in 1..Len(s) : s[i] = c
AnsweredNoop == \E i \in 1..Len(sent) : sent[i].kind = "Noop"
OutputConserved ==
  ~terminated /\ link = "active" /\ ~AnsweredNoop =>
    \A s \in Streams : \A c \in 1..delivered[s] :
      \/ Holds(buf[s], c)
      \/ \E i \in 1..Len(sent) : sent[i].kind = s /\ Holds(sent[i].data, c)

\* To the initiator the session is a RemoteSession: the version reply comes first
\* and once, output only from a command, in order and none twice, the exit once and
\* only when the command has ended (README.md:261-283), although _received_stdin
\* extends stdout_buf from another thread while pump slices it, and the buffer is
\* cut before a send that may raise.
Command == IF process = "none" THEN "none"
           ELSE IF return_code THEN "ended" ELSE "running"
Remote == INSTANCE RemoteSession WITH command <- Command
ImplementsRemote == Remote!Spec

\* A session runs at most one command: there is none before the start, nor when a
\* handler is about to start one, although _handle_message reads state anew at
\* every test (session.py:368-412) and a termination may have moved it since.
Unstarted == state \in {"WAIT_IDENT", "WAIT_VERS", "WAIT_CMD"}
OneCommand == Unstarted \/ pc \in {"start", "spawn"} => process = "none"

\* What is under way at the death of a session, a handler past its dispatch and the
\* pump between its test and its send, is finished and sends one message at most.
\* Nothing more is begun, although a late handler sets the state to RUNNING or WAIT_CMD
\* again, and otherwise only error messages are sent (session.py:255, 368-412).
HandlerUnderWay == pc \notin {"idle", "dispatch", "terminate", "reject"}
UnderWay == (IF HandlerUnderWay THEN 1 ELSE 0) + (IF LoopIdle THEN 0 ELSE 1)
QuietAfterTermination ==
  [][terminated =>
       /\ UnderWay' <= UnderWay
       /\ \/ sent' \in {sent, Append(sent, Packet("Error", <<>>))}
          \/ UnderWay' < UnderWay /\ Len(sent') = Len(sent) + 1]_vars

-----------------------------------------------------------------------------
(***************************************************************************)
(* Liveness, under Fairness.                                               *)
(***************************************************************************)

\* A session whose link is gone, or that has reported the exit of its command, is
\* destroyed (README.md:281-284), unless the program ends first: nothing waits for
\* the prune timers and the idle check then.
DeadDestroyed == link = "closed" \/ return_code_sent ~> ~registered \/ shutdown

\* A return code the session has is sent, unless the session dies first.
ExitReported ==
  return_code ~> (terminated \/ \E i \in 1..Len(sent) : sent[i].kind = "Exited")

-----------------------------------------------------------------------------
(***************************************************************************)
(* What the documents say and the code does not do.                        *)
(***************************************************************************)

\* "When link is torn down, child process is terminated if running and session
\* destroyed" (README.md:281-282): once all timers have run, no command survives
\* its session.  terminate() between the checks of _start_cmd and the fork of the
\* child finds no process to stop.
NoOrphan ==
  ~registered /\ prunes = 0 /\ pc = "idle" /\ process = "running" => killing

\* "Protocol timeout error" (session.py:145), armed by every _set_state: a session
\* does not wait for ever for the initiator's next handshake message.  The
\* condition of the timer names the state that was left, so it never holds.
HandshakeTimesOut ==
  \A s \in {"WAIT_IDENT", "WAIT_VERS", "WAIT_CMD"} :
    ~terminated /\ state = s ~> terminated \/ state # s
=============================================================================
