----------------------- MODULE ListenerSessionProofs -----------------------
(***************************************************************************)
(* Theorems about ListenerSession, for every set of identities, every      *)
(* option of the listener, every window and every bound.                   *)
(*                                                                         *)
(* TypeOK is inductive on its own.  SessionInv, the invariant behind the   *)
(* safety theorems, says what the delivery thread may rely on between the  *)
(* steps of one handler although the other threads change the session.     *)
(***************************************************************************)
EXTENDS ListenerSession, TLAPS

(***************************************************************************)
(* Types.                                                                  *)
(***************************************************************************)
LEMMA InitType == Init => TypeOK
  <1> SUFFICES ASSUME Init PROVE TypeOK
    OBVIOUS
  <1>1. /\ state \in States
        /\ authenticated \in BOOLEAN
        /\ remote_identity \in Identities \cup {NoIdentity}
        /\ arg \in MessageKinds \cup Identities \cup {NoIdentity}
    BY OptionAssumption DEF OptionAssumption, Init, States
  <1>2. /\ produced \in [Streams -> Nat]
        /\ delivered \in [Streams -> Nat]
        /\ checks \in [LeftStates -> Nat]
    BY DEF Init
  <1>3. buf \in [Streams -> Seq(Nat)]
    <2>1. <<>> \in Seq(Nat)
      OBVIOUS
    <2>2. QED BY <2>1 DEF Init
  <1>4. chunk \in Seq(Nat) /\ rest \in Seq(Nat) /\ sent \in Seq(Packets)
    BY DEF Init
  <1>5. outstanding \in 0..Window
    BY WindowAssumption DEF WindowAssumption, Init
  <1>6. QED
    BY <1>1, <1>2, <1>3, <1>4, <1>5 DEF Init, TypeOK, Loop, Handler

\* Sending keeps the history a sequence of packets and the window respected.
LEMMA SendType ==
  ASSUME TypeOK, NEW kind \in SentKinds, NEW data \in Seq(Nat),
         TrySend(kind, data)
  PROVE  sent' \in Seq(Packets) /\ outstanding' \in 0..Window
  <1>1. CASE Send(kind, data)
    <2>1. Packet(kind, data) \in Packets
      BY DEF Packet, Packets
    <2>2. sent' \in Seq(Packets)
      BY <1>1, <2>1 DEF Send, TypeOK
    <2>3. outstanding' \in 0..Window
      BY <1>1, WindowAssumption DEF Send, ChannelReady, TypeOK
    <2>4. QED BY <2>2, <2>3
  <1>2. CASE UNCHANGED channelVars
    BY <1>2 DEF channelVars, TypeOK
  <1>3. QED BY <1>1, <1>2 DEF TrySend

\* Terminating changes what it changes within its type.
TerminateTypes ==
  /\ state' = "ERROR"
  /\ terminated' = TRUE
  /\ killing' \in BOOLEAN
  /\ prunes' \in Nat
  /\ sent' \in Seq(Packets)
  /\ outstanding' \in 0..Window

LEMMA TerminateType ==
  ASSUME TypeOK, NEW error \in BOOLEAN, Terminate(error)
  PROVE  TerminateTypes
  <1>1. sent' \in Seq(Packets) /\ outstanding' \in 0..Window
    <2>1. CASE error /\ state # "TEARDOWN"
      <3>1. "Error" \in SentKinds /\ <<>> \in Seq(Nat)
        BY DEF SentKinds
      <3>2. TrySend("Error", <<>>)
        BY <2>1 DEF Terminate
      <3>3. QED BY <3>1, <3>2, SendType
    <2>2. CASE ~(error /\ state # "TEARDOWN")
      BY <2>2 DEF Terminate, channelVars, TypeOK
    <2>3. QED BY <2>1, <2>2
  <1>2. QED
    BY <1>1 DEF Terminate, Scheduled, ProcessRunning, TypeOK, TerminateTypes

\* Changing the state arms one of the timers.
LEMMA SetStateType ==
  ASSUME TypeOK, NEW new \in States, SetState(new)
  PROVE  state' \in States /\ checks' \in [LeftStates -> Nat]
  BY DEF SetState, TypeOK, LeftStates

\* Each action keeps every variable within its type.
LEMMA NextType == TypeOK /\ [Next]_vars => TypeOK'
  <1> SUFFICES ASSUME TypeOK, [Next]_vars PROVE TypeOK'
    OBVIOUS
  <1> USE DEF sessionVars, identityVars, handlerVars, childVars, outputVars,
              bufVars, pumpVars, timerVars, channelVars, envVars,
              OutsideTerminate, Continue, Return
  <1>1. ASSUME NEW i \in Identities, InitiatorIdentified(i) PROVE TypeOK'
    BY <1>1 DEF InitiatorIdentified, TypeOK, Handler
  <1>2. CASE AcceptIdentity
    <2>1. arg \in Identities \cup {NoIdentity}
      BY <1>2 DEF AcceptIdentity, TypeOK
    <2>2. state' \in States /\ checks' \in [LeftStates -> Nat]
      BY <1>2, SetStateType DEF AcceptIdentity, States
    <2>3. QED BY <1>2, <2>1, <2>2 DEF AcceptIdentity, TypeOK, Handler
  <1>3. CASE RejectIdentity
    <2>1. TerminateTypes
      BY <1>3, TerminateType DEF RejectIdentity
    <2>2. QED BY <1>3, <2>1 DEF RejectIdentity, TerminateTypes, TypeOK, Handler, States
  <1>4. ASSUME NEW m \in Messages, HandleMessage(m) PROVE TypeOK'
    BY <1>4, OptionAssumption DEF HandleMessage, OptionAssumption, TypeOK, Handler
  <1>5. CASE Dispatch
    <2>1. HandlerOf(state, arg) \in Handler \ {"accept"}
      BY DEF HandlerOf, RunningHandler, Handler
    <2>2. QED BY <1>5, <2>1 DEF Dispatch, TypeOK
  <1>6. CASE HandlerTerminate
    <2>1. TerminateTypes
      BY <1>6, TerminateType DEF HandlerTerminate
    <2>2. QED BY <1>6, <2>1 DEF HandlerTerminate, TerminateTypes, TypeOK, Handler, States
  <1>7. CASE HandleVersion
    <2>1. sent' \in Seq(Packets) /\ outstanding' \in 0..Window
      <3>1. CASE VersionReply
        <4>1. "Version" \in SentKinds /\ <<>> \in Seq(Nat)
          BY DEF SentKinds
        <4>2. QED BY <3>1, <4>1, SendType DEF VersionReply, TrySend
      <3>2. CASE UNCHANGED channelVars
        BY <3>2 DEF TypeOK
      <3>3. QED BY <1>7, <3>1, <3>2 DEF HandleVersion
    <2>2. state' \in States /\ checks' \in [LeftStates -> Nat]
      <3>1. CASE SetState("WAIT_CMD")
        BY <3>1, SetStateType DEF States
      <3>2. CASE UNCHANGED <<state, checks>>
        BY <3>2 DEF TypeOK
      <3>3. QED BY <1>7, <3>1, <3>2 DEF HandleVersion
    <2>3. QED BY <1>7, <2>1, <2>2 DEF HandleVersion, TypeOK, Handler
  <1>8. CASE HandleExecute
    <2>1. state' \in States /\ checks' \in [LeftStates -> Nat]
      BY <1>8, SetStateType DEF HandleExecute, States
    <2>2. QED BY <1>8, <2>1 DEF HandleExecute, TypeOK, Handler
  <1>9. CASE StartCmd
    BY <1>9 DEF StartCmd, StepAfterChecks, TypeOK, Handler
  <1>10. CASE Spawn
    <2>1. CASE Terminate(TRUE) /\ UNCHANGED <<OutsideTerminate, authenticated>>
      <3>1. TerminateTypes
        BY <2>1, TerminateType
      <3>2. QED BY <1>10, <2>1, <3>1 DEF Spawn, TerminateTypes, TypeOK, Handler, States
    <2>2. CASE process' = "running" /\ UNCHANGED <<sessionVars, killing,
                 eof_timer, return_code, outputVars, timerVars, channelVars>>
      BY <1>10, <2>2 DEF Spawn, TypeOK, Handler
    <2>3. QED BY <1>10, <2>1, <2>2 DEF Spawn
  <1>11. CASE HandleStdin
    <2>1. buf' \in [Streams -> Seq(Nat)]
      <3>1. buf["stdout"] \in Seq(Nat) /\ Echo \in Nat
        BY DEF TypeOK, Streams, Echo
      <3>2. Append(buf["stdout"], Echo) \in Seq(Nat)
        BY <3>1
      <3>3. QED BY <1>11, <3>2 DEF HandleStdin, TypeOK
    <2>2. QED BY <1>11, <2>1 DEF HandleStdin, TypeOK, Handler
  <1>12. CASE HandleNoop
    <2>1. sent' \in Seq(Packets) /\ outstanding' \in 0..Window
      <3>1. "Noop" \in SentKinds /\ <<>> \in Seq(Nat)
        BY DEF SentKinds
      <3>2. QED BY <1>12, <3>1, SendType DEF HandleNoop
    <2>2. QED BY <1>12, <2>1 DEF HandleNoop, TypeOK, Handler
  <1>13. ASSUME NEW s \in Streams, PumpStream(s) PROVE TypeOK'
    <2>1. PICK n \in 1..Len(buf[s]) : /\ chunk' = Prefix(buf[s], n)
                                      /\ rest' = Remainder(buf[s], n)
      BY <1>13 DEF PumpStream
    <2>2. buf[s] \in Seq(Nat)
      BY DEF TypeOK
    <2>3. chunk' \in Seq(Nat) /\ rest' \in Seq(Nat)
      BY <2>1, <2>2 DEF Prefix, Remainder
    <2>4. QED BY <1>13, <2>3 DEF PumpStream, TypeOK, Loop, Streams
  <1>14. CASE PumpSendStream
    <2>1. ppc \in SentKinds /\ chunk \in Seq(Nat)
      BY <1>14 DEF PumpSendStream, SentKinds, TypeOK
    <2>2. sent' \in Seq(Packets) /\ outstanding' \in 0..Window
      BY <1>14, <2>1, SendType DEF PumpSendStream
    <2>3. buf' \in [Streams -> Seq(Nat)]
      BY <1>14 DEF PumpSendStream, TypeOK
    <2>4. <<>> \in Seq(Nat)
      OBVIOUS
    <2>5. QED BY <1>14, <2>2, <2>3, <2>4 DEF PumpSendStream, TypeOK, Loop
  <1>15. CASE PumpExit
    BY <1>15 DEF PumpExit, TypeOK, Loop
  <1>16. CASE PumpSendExit
    <2>1. sent' \in Seq(Packets) /\ outstanding' \in 0..Window
      <3>1. "Exited" \in SentKinds /\ <<>> \in Seq(Nat)
        BY DEF SentKinds
      <3>2. TrySend("Exited", <<>>)
        BY <1>16 DEF PumpSendExit, TrySend
      <3>3. QED BY <3>1, <3>2, SendType
    <2>2. checks' \in [LeftStates -> Nat]
      BY <1>16 DEF PumpSendExit, ArmIdleCheck, TypeOK, LeftStates, States
    <2>3. return_code_sent' \in BOOLEAN
      BY <1>16 DEF PumpSendExit, MarkExitSent, TypeOK
    <2>4. QED BY <1>16, <2>1, <2>2, <2>3 DEF PumpSendExit, TypeOK, Loop
  <1>17. ASSUME NEW s \in Streams, ReadOutput(s) PROVE TypeOK'
    <2>1. produced[s] \in Nat /\ delivered[s] \in Nat /\ buf[s] \in Seq(Nat)
      BY DEF TypeOK
    <2>2. Unread(s) \in Seq(Nat)
      <3>1. produced[s] - delivered[s] \in Nat
        BY <1>17, <2>1 DEF ReadOutput
      <3>2. \A i \in 1..(produced[s] - delivered[s]) : delivered[s] + i \in Nat
        BY <2>1
      <3>3. QED BY <3>1, <3>2 DEF Unread
    <2>3. buf[s] \o Unread(s) \in Seq(Nat)
      BY <2>1, <2>2
    <2>4. buf' \in [Streams -> Seq(Nat)]
      BY <1>17, <2>3 DEF ReadOutput, TypeOK
    <2>5. delivered' \in [Streams -> Nat]
      BY <1>17, <2>1 DEF ReadOutput, TypeOK
    <2>6. QED BY <1>17, <2>4, <2>5 DEF ReadOutput, TypeOK
  <1>18. CASE PollReaps
    BY <1>18 DEF PollReaps, TypeOK
  <1>19. CASE EnsureTerminate
    <2>1. killing' \in BOOLEAN /\ eof_timer' \in BOOLEAN
      BY <1>19 DEF EnsureTerminate, ProcessRunning, TypeOK
    <2>2. QED BY <1>19, <2>1 DEF EnsureTerminate, TypeOK
  <1>20. ASSUME NEW f \in LeftStates, CheckProtocolTimeout(f) PROVE TypeOK'
    <2>1. checks' \in [LeftStates -> Nat]
      BY <1>20 DEF CheckProtocolTimeout, TypeOK
    <2>2. CASE Terminate(TRUE)
      <3>1. TerminateTypes
        BY <2>2, TerminateType
      <3>2. QED BY <1>20, <2>1, <3>1 DEF CheckProtocolTimeout, TerminateTypes,
                                        TypeOK, States
    <2>3. CASE UNCHANGED <<state, terminated, killing, prunes, channelVars>>
      BY <1>20, <2>1, <2>3 DEF CheckProtocolTimeout, TypeOK
    <2>4. QED BY <1>20, <2>2, <2>3 DEF CheckProtocolTimeout
  <1>21. CASE Prune
    <2>1. prunes' \in Nat
      BY <1>21 DEF Prune, TypeOK
    <2>2. terminated' \in BOOLEAN /\ killing' \in BOOLEAN /\ state' \in States
      BY <1>21 DEF Prune, ProcessRunning, TypeOK, States
    <2>3. QED BY <1>21, <2>1, <2>2 DEF Prune, TypeOK
  <1>22. CASE LinkClosed
    <2>1. TerminateTypes
      BY <1>22, TerminateType DEF LinkClosed
    <2>2. QED BY <1>22, <2>1 DEF LinkClosed, TerminateTypes, TypeOK, States
  <1>23. CASE WaiterReaps
    <2>1. return_code' \in BOOLEAN
      BY <1>23 DEF WaiterReaps, TypeOK
    <2>2. QED BY <1>23, <2>1 DEF WaiterReaps, TypeOK
  <1>24. ASSUME NEW s \in Streams, ChildWrites(s) PROVE TypeOK'
    <2>1. produced' \in [Streams -> Nat]
      BY <1>24 DEF ChildWrites, TypeOK
    <2>2. QED BY <1>24, <2>1 DEF ChildWrites, TypeOK
  <1>25. CASE ChildExits
    BY <1>25 DEF ChildExits, TypeOK
  <1>26. CASE Prove
    BY <1>26, WindowAssumption DEF Prove, TypeOK, WindowAssumption
  <1>27. CASE LinkDown
    BY <1>27 DEF LinkDown, TypeOK
  <1>28. CASE Shutdown
    <2>1. TerminateTypes
      BY <1>28, TerminateType DEF Shutdown
    <2>2. QED BY <1>28, <2>1 DEF Shutdown, TerminateTypes, TypeOK, States
  <1>29. CASE UNCHANGED vars
    BY <1>29 DEF vars, TypeOK
  <1>30. QED
    BY <1>1, <1>2, <1>3, <1>4, <1>5, <1>6, <1>7, <1>8, <1>9, <1>10, <1>11,
       <1>12, <1>13, <1>14, <1>15, <1>16, <1>17, <1>18, <1>19, <1>20, <1>21,
       <1>22, <1>23, <1>24, <1>25, <1>26, <1>27, <1>28,
       <1>29
    DEF Next, HandlerStep, LoopStep, Environment

\* Every variable of the session keeps its type (session.py, class
\* ListenerSession), whatever identities, options and bounds are chosen.
THEOREM TypeCorrect == Spec => []TypeOK
  BY InitType, NextType, PTL DEF Spec

(***************************************************************************)
(* The inductive invariant.  Each part is what the steps of a handler rely *)
(* on after the guard that established it.                                 *)
(***************************************************************************)
MayRun == AllowAll \/ remote_identity \in Allowed

\* Authentication stands behind every step towards a command.
AuthInv ==
  /\ authenticated => MayRun
  /\ pc = "accept" => IdentityAllowed(arg)
  /\ pc = "spawn" => authenticated
  /\ process # "none" => MayRun

\* The steps that lead to a command are taken while there is none.
CommandInv ==
  /\ Unstarted => process = "none"
  /\ pc \in {"accept", "version", "execute", "start", "spawn"} => process = "none"
  /\ pc \in {"start", "spawn"} => ~Unstarted

\* Death, the prune timers and destruction go together.
DestroyInv ==
  /\ terminated => prunes > 0 \/ ~registered
  /\ prunes > 0 => terminated
  /\ ~registered => terminated /\ link = "closed"

\* A session in RUNNING without a command is dead or still starting it.
ProcessInv ==
  process = "none" =>
    /\ state = "RUNNING" => terminated \/ pc \in {"start", "spawn", "terminate"}
    /\ pc = "dispatch" => state # "RUNNING"
    /\ pc # "stdin"
    /\ ppc \notin Streams
    /\ \A s \in Streams : buf[s] = <<>> /\ produced[s] = 0

\* A dead session is in a dead state wherever the state still matters.
QuietInv ==
  /\ terminated /\ (pc \in {"dispatch", "spawn"} \/ process # "none") => ~StateOpen
  /\ return_code => process # "none"

SessionInv == AuthInv /\ CommandInv /\ DestroyInv /\ ProcessInv /\ QuietInv

LEMMA InitInv == Init => SessionInv
  BY DEF Init, SessionInv, AuthInv, MayRun, CommandInv, Unstarted, DestroyInv,
         ProcessInv, QuietInv, StateOpen, Streams

\* No step of a thread breaks what another relies on.
LEMMA NextInv == TypeOK /\ SessionInv /\ [Next]_vars => SessionInv'
  <1> SUFFICES ASSUME TypeOK, SessionInv, [Next]_vars PROVE SessionInv'
    OBVIOUS
  <1> USE DEF SessionInv, AuthInv, MayRun, CommandInv, Unstarted, DestroyInv,
              ProcessInv, QuietInv, StateOpen, sessionVars, identityVars, handlerVars, childVars,
              outputVars, bufVars, pumpVars, timerVars, channelVars, envVars,
              OutsideTerminate, Continue, Return
  <1>1. ASSUME NEW i \in Identities, InitiatorIdentified(i) PROVE SessionInv'
    BY <1>1 DEF InitiatorIdentified
  <1>2. CASE AcceptIdentity
    BY <1>2 DEF AcceptIdentity, SetState, IdentityAllowed, TypeOK
  <1>3. CASE RejectIdentity
    BY <1>3 DEF RejectIdentity, Terminate, Scheduled, TypeOK
  <1>4. ASSUME NEW m \in Messages, HandleMessage(m) PROVE SessionInv'
    BY <1>4 DEF HandleMessage, EntryOpen, StateOpen
  <1>5. CASE Dispatch
    BY <1>5 DEF Dispatch, HandlerOf, RunningHandler
  <1>6. CASE HandlerTerminate
    BY <1>6 DEF HandlerTerminate, Terminate, Scheduled, TypeOK
  <1>7. CASE HandleVersion
    BY <1>7 DEF HandleVersion, SetState
  <1>8. CASE HandleExecute
    BY <1>8 DEF HandleExecute, SetState
  <1>9. CASE StartCmd
    BY <1>9 DEF StartCmd, StepAfterChecks, MayStart
  <1>10. CASE Spawn
    <2>1. CASE Terminate(TRUE) /\ UNCHANGED <<OutsideTerminate, authenticated>>
      BY <1>10, <2>1 DEF Spawn, Terminate, Scheduled, TypeOK
    <2>2. CASE process' = "running" /\ UNCHANGED <<sessionVars, killing,
                 eof_timer, return_code, outputVars, timerVars, channelVars>>
      BY <1>10, <2>2 DEF Spawn
    <2>3. QED BY <1>10, <2>1, <2>2 DEF Spawn
  <1>11. CASE HandleStdin
    BY <1>11 DEF HandleStdin
  <1>12. CASE HandleNoop
    BY <1>12 DEF HandleNoop
  <1>13. ASSUME NEW s \in Streams, PumpStream(s) PROVE SessionInv'
    BY <1>13 DEF PumpStream, Drained
  <1>14. CASE PumpSendStream
    BY <1>14 DEF PumpSendStream
  <1>15. CASE PumpExit
    BY <1>15 DEF PumpExit, Streams
  <1>16. CASE PumpSendExit
    BY <1>16 DEF PumpSendExit, Streams
  <1>17. ASSUME NEW s \in Streams, ReadOutput(s) PROVE SessionInv'
    BY <1>17 DEF ReadOutput, TypeOK
  <1>18. CASE PollReaps
    BY <1>18 DEF PollReaps
  <1>19. CASE EnsureTerminate
    BY <1>19 DEF EnsureTerminate
  <1>20. ASSUME NEW f \in LeftStates, CheckProtocolTimeout(f) PROVE SessionInv'
    BY <1>20 DEF CheckProtocolTimeout, Terminate, Scheduled, TypeOK
  <1>21. CASE Prune
    BY <1>21 DEF Prune
  <1>22. CASE LinkClosed
    BY <1>22 DEF LinkClosed, Terminate, Scheduled, TypeOK
  <1>23. CASE WaiterReaps
    BY <1>23 DEF WaiterReaps
  <1>24. ASSUME NEW s \in Streams, ChildWrites(s) PROVE SessionInv'
    BY <1>24 DEF ChildWrites
  <1>25. CASE ChildExits
    BY <1>25 DEF ChildExits
  <1>26. CASE Prove
    BY <1>26 DEF Prove
  <1>27. CASE LinkDown
    BY <1>27 DEF LinkDown
  <1>28. CASE Shutdown
    BY <1>28 DEF Shutdown, Terminate, Scheduled, TypeOK
  <1>29. CASE UNCHANGED vars
    BY <1>29 DEF vars
  <1>30. QED
    BY <1>1, <1>2, <1>3, <1>4, <1>5, <1>6, <1>7, <1>8, <1>9, <1>10, <1>11,
       <1>12, <1>13, <1>14, <1>15, <1>16, <1>17, <1>18, <1>19, <1>20, <1>21,
       <1>22, <1>23, <1>24, <1>25, <1>26, <1>27, <1>28,
       <1>29
    DEF Next, HandlerStep, LoopStep, Environment

LEMMA SessionInvariant == Spec => []SessionInv
  BY TypeCorrect, InitInv, NextInv, PTL DEF Spec

(***************************************************************************)
(* The safety properties.                                                  *)
(***************************************************************************)

\* A command runs only for an initiator that an allow list names, or on a
\* listener without authentication: no interleaving of the identification, the
\* messages and the timers gets past _initiator_identified and _start_cmd.
THEOREM AuthGateHolds == Spec => []AuthGate
  <1>1. SessionInv => AuthGate
    BY DEF SessionInv, AuthInv, MayRun, AuthGate
  <1>2. QED BY <1>1, SessionInvariant, PTL

\* A session never runs a second command and cannot go back to the handshake
\* once it has one (_handle_message, _start_cmd).
THEOREM OneCommandHolds == Spec => []OneCommand
  <1>1. SessionInv => OneCommand
    BY DEF SessionInv, CommandInv, OneCommand, Unstarted
  <1>2. QED BY <1>1, SessionInvariant, PTL

\* A terminated session has a prune timer until it is destroyed, and only
\* terminated sessions are destroyed (terminate, _prune, _link_closed).
THEOREM DestroyScheduledHolds == Spec => []DestroyScheduled
  <1>1. SessionInv => DestroyScheduled
    BY DEF SessionInv, DestroyInv, DestroyScheduled
  <1>2. QED BY <1>1, SessionInvariant, PTL

\* self.process is a process wherever it is used without a test (pump,
\* _received_stdin).
THEOREM ProcessDereferenceSafeHolds == Spec => []ProcessDereferenceSafe
  <1>1. SessionInv => ProcessDereferenceSafe
    BY DEF SessionInv, ProcessInv, ProcessDereferenceSafe, Drained
  <1>2. QED BY <1>1, SessionInvariant, PTL

\* A terminated session finishes what is under way, with one message at most each,
\* begins nothing more and otherwise sends only errors (pump, _handle_message):
\* QuietInv and ProcessInv keep the pump and the dispatch from a state that a late
\* _set_state has opened again.
THEOREM QuietAfterTerminationHolds == Spec => QuietAfterTermination
  <1> DEFINE Reports == sent' \in {sent, Append(sent, Packet("Error", <<>>))}
             SaysOne == sent' = sent \/ Len(sent') = Len(sent) + 1
             Step == terminated =>
                       /\ UnderWay' <= UnderWay
                       /\ Reports \/ (UnderWay' < UnderWay /\ Len(sent') = Len(sent) + 1)
  <1>1. TypeOK /\ SessionInv /\ [Next]_vars => [Step]_vars
    <2> SUFFICES ASSUME TypeOK, SessionInv, Next, terminated PROVE Step
      OBVIOUS
    <2> USE DEF handlerVars, pumpVars, outputVars, channelVars, OutsideTerminate,
                Continue, Return
    <2>1. \A error \in BOOLEAN : Terminate(error) => Reports
      BY DEF Terminate, TrySend, Send
    <2>2. \A kind, c : Send(kind, c) \/ TrySend(kind, c) => SaysOne
      BY DEF Send, TrySend, TypeOK
    \* A step that changes neither place begins and ends nothing.
    <2>3. ASSUME UNCHANGED <<pc, ppc>>, Reports PROVE Step
      BY <2>3 DEF UnderWay, HandlerUnderWay, LoopIdle
    <2>4. ASSUME ~HandlerUnderWay', UNCHANGED ppc, Reports PROVE Step
      BY <2>4 DEF UnderWay, LoopIdle
    <2>5. ASSUME HandlerUnderWay, ~HandlerUnderWay', UNCHANGED ppc, SaysOne PROVE Step
      BY <2>5 DEF UnderWay, LoopIdle
    <2>6. ASSUME ~LoopIdle, LoopIdle', UNCHANGED pc, SaysOne PROVE Step
      BY <2>6 DEF UnderWay, HandlerUnderWay
    <2>7. ASSUME HandlerUnderWay, UNCHANGED <<ppc, sent>> PROVE Step
      BY <2>7 DEF UnderWay, LoopIdle
    <2>8. CASE HandlerStep
      <3>1. CASE RejectIdentity \/ HandlerTerminate
        BY <2>1, <2>4, <3>1 DEF RejectIdentity, HandlerTerminate, HandlerUnderWay
      <3>2. CASE Dispatch
        <4>1. state \in {"ERROR", "TEARDOWN"}
          BY <3>2 DEF Dispatch, SessionInv, QuietInv, StateOpen
        <4>2. HandlerOf(state, arg) \in {"idle", "terminate"}
          BY <4>1 DEF HandlerOf
        <4>3. QED BY <2>4, <3>2, <4>2 DEF Dispatch, HandlerUnderWay
      <3>3. CASE HandleVersion
        BY <2>2, <2>5, <3>3 DEF HandleVersion, VersionReply, HandlerUnderWay
      <3>4. CASE HandleNoop
        BY <2>2, <2>5, <3>4 DEF HandleNoop, HandlerUnderWay
      <3>5. CASE AcceptIdentity \/ HandleExecute \/ StartCmd \/ HandleStdin
        BY <2>7, <3>5 DEF AcceptIdentity, HandleExecute, StartCmd, HandleStdin,
                          HandlerUnderWay
      <3>6. CASE Spawn
        BY <2>1, <2>4, <3>6 DEF Spawn, HandlerUnderWay
      <3>7. QED BY <2>8, <3>1, <3>2, <3>3, <3>4, <3>5, <3>6 DEF HandlerStep
    <2>9. CASE LoopStep
      <3>1. ASSUME NEW s \in Streams, PumpStream(s) PROVE FALSE
        BY <3>1 DEF PumpStream, CanPump, Drained, SessionInv, ProcessInv, QuietInv,
                    StateOpen
      <3>2. ~PumpExit
        BY DEF PumpExit, CanPump, SessionInv, QuietInv, StateOpen
      <3>3. CASE PumpSendStream
        BY <2>2, <2>6, <3>3 DEF PumpSendStream, LoopIdle, Streams
      <3>4. CASE PumpSendExit
        BY <2>2, <2>6, <3>4 DEF PumpSendExit, LoopIdle
      <3>5. ASSUME NEW f \in LeftStates, CheckProtocolTimeout(f) PROVE Step
        BY <2>1, <2>3, <3>5 DEF CheckProtocolTimeout
      <3>6. CASE Shutdown
        BY <2>1, <2>3, <3>6 DEF Shutdown
      <3>7. CASE \/ \E s \in Streams : ReadOutput(s)
                 \/ PollReaps \/ EnsureTerminate \/ Prune
        BY <2>3, <3>7 DEF ReadOutput, PollReaps, EnsureTerminate, Prune
      <3>8. QED BY <2>9, <3>1, <3>2, <3>3, <3>4, <3>5, <3>6, <3>7 DEF LoopStep
    <2>10. CASE Environment
      <3>1. CASE LinkClosed
        BY <2>1, <2>3, <3>1 DEF LinkClosed
      <3>2. CASE \E m \in Messages : HandleMessage(m)
        BY <2>4, <3>2 DEF HandleMessage, EntryOpen, HandlerUnderWay
      <3>3. CASE \E i \in Identities : InitiatorIdentified(i)
        BY <2>3, <2>4, <3>3 DEF InitiatorIdentified, EntryOpen, HandlerUnderWay
      <3>4. QED
        BY <2>3, <2>10, <3>1, <3>2, <3>3
        DEF Environment, WaiterReaps, ChildWrites, ChildExits, Prove, LinkDown
    <2>11. QED BY <2>8, <2>9, <2>10 DEF Next
  <1>2. QED BY <1>1, TypeCorrect, SessionInvariant, PTL DEF Spec, QuietAfterTermination
=============================================================================
