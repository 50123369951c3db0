--------------------------- MODULE InitiatorProofs ---------------------------
(***************************************************************************)
(* Theorems about Initiator, for any window, any amount of input and       *)
(* output and any number of changes of the window's size.                  *)
(***************************************************************************)
EXTENDS Initiator, SequenceTheorems, TLAPS

(***************************************************************************)
(* Types.                                                                  *)
(***************************************************************************)
Place == Handshake \cup MainLoop \cup {"exited"}

LEMMA GotoType ==
  ASSUME TypeOK, NEW l \in Place, Goto(l)
  PROVE  pc' \in Place /\ finished' = finished /\ cancelled' = cancelled /\ result' = result
  BY DEF Goto

LEMMA ExitType ==
  ASSUME TypeOK, NEW r \in Results, Exit(r)
  PROVE  pc' \in Place /\ finished' = finished /\ cancelled' = cancelled /\ result' \in Results
  BY DEF Exit, Place

LEMMA Names ==
  /\ Handshake \cup MainLoop \cup {"exited"} = Place
  /\ {"connect", "version", "reply", "ready", "event", "top", "get", "stdin", "send",
      "winch", "raised", "exited"} = Place
  /\ {"none", "unhandled", "interrupted", "no_link", "no_version", "finished",
      "remote_error", "client_error", "return_code"} = Results
  BY DEF Place, Handshake, MainLoop, Results

\* A message is sent only into a window with a free place.
LEMMA SendType ==
  ASSUME TypeOK, NEW kind \in SaidKinds, Send(kind)
  PROVE  /\ said' \in Seq(SaidKinds) /\ heard' = heard /\ Len(said') = Len(said) + 1
         /\ heard' \in 0..Len(said') /\ Len(said') - heard' \in 0..Window
  <1>1. said \in Seq(SaidKinds) /\ heard \in 0..Len(said) /\ Len(said) - heard \in 0..Window
    BY DEF TypeOK
  <1>2. said' = Append(said, kind) /\ heard' = heard /\ Len(said) - heard < Window
    BY DEF Send, ChannelReady
  <1>3. said' \in Seq(SaidKinds) /\ Len(said') = Len(said) + 1
    BY <1>1, <1>2
  <1>4. QED BY <1>1, <1>2, <1>3, WindowAssumption

LEMMA TeardownType ==
  ASSUME TypeOK, Teardown
  PROVE  link' \in {"pending", "active", "closing", "closed"}
  BY DEF TypeOK, Teardown

\* What is typed, by groups of variables: the control and the link, the input, what
\* is on its way to the session, and what came from it.
ControlOK ==
  /\ pc \in Place /\ finished \in {"none", "clear", "set"} /\ cancelled \in BOOLEAN
  /\ result \in Results /\ link \in {"pending", "active", "closing", "closed"}
InputOK ==
  /\ is_stdin_pipe \in BOOLEAN /\ stdin_read \in Seq(Nat) /\ stdin_eof \in BOOLEAN
  /\ data_buffer \in Seq(Nat)
CutOK == chunk \in Seq(Nat) /\ eof \in BOOLEAN /\ sent_eof \in BOOLEAN /\ fed \in Seq(Nat)
SaidOK ==
  said \in Seq(SaidKinds) /\ heard \in 0..Len(said) /\ Len(said) - heard \in 0..Window
RemoteOK ==
  /\ sent \in Seq(Packets) /\ command \in {"none", "running", "ended"}
  /\ spoken \in Seq(Packets)
  /\ taken \in 0..Len(sent) /\ printed \in Seq(Packets)
WinchOK == winch \in BOOLEAN /\ winches \in Nat

AllOK   == ControlOK /\ InputOK /\ CutOK /\ SaidOK /\ RemoteOK /\ WinchOK

LEMMA Groups == TypeOK <=> AllOK
  BY Names DEF TypeOK, AllOK, ControlOK, InputOK, CutOK, SaidOK, RemoteOK, WinchOK

LEMMA BytesType == \A from \in Nat, n \in Nat : Bytes(from, n) \in Seq(Nat)
  <1> SUFFICES ASSUME NEW from \in Nat, NEW n \in Nat PROVE Bytes(from, n) \in Seq(Nat)
    OBVIOUS
  <1>1. CASE n - from \in Nat
    BY <1>1 DEF Bytes
  <1>2. CASE n - from \notin Nat
    <2>1. 1..(n - from) = {}
      BY <1>2
    <2>2. Bytes(from, n) = <<>>
      BY <2>1 DEF Bytes
    <2>3. QED BY <2>2
  <1>3. QED BY <1>1, <1>2

LEMMA InitType == Init => TypeOK
  <1> SUFFICES ASSUME Init PROVE TypeOK
    OBVIOUS
  <1>1. ControlOK /\ WinchOK
    BY Names DEF Init, ControlOK, WinchOK
  <1>2. InputOK
    <2>1. PICK n \in 0..IF is_stdin_pipe THEN MaxData ELSE 0 : stdin_read = Bytes(0, n)
      BY DEF Init
    <2>2. n \in Nat
      BY BoundAssumption
    <2>3. QED BY <2>1, <2>2, BytesType DEF Init, InputOK
  <1>3. CutOK
    <2>1. <<>> \in Seq(Nat)
      OBVIOUS
    <2>2. QED BY <2>1 DEF Init, CutOK
  <1>4. SaidOK
    BY WindowAssumption DEF Init, SaidOK
  <1>5. RemoteOK
    BY DEF Init, RemoteOK, Remote!Init
  <1>6. QED BY <1>1, <1>2, <1>3, <1>4, <1>5, Groups DEF AllOK

LEMMA NextType == TypeOK /\ [Next]_vars => TypeOK'
  <1> SUFFICES ASSUME TypeOK, [Next]_vars PROVE TypeOK'
    OBVIOUS
  <1> USE DEF AllOK, controlVars, inputVars, cutVars, saidVars, remoteVars, queueVars,
              winchVars
  <1>0. AllOK
    BY Groups
  <1>a. UNCHANGED <<inputVars, cutVars, fed>> => InputOK' /\ CutOK'
    BY <1>0 DEF InputOK, CutOK
  <1>b. UNCHANGED <<said, heard>> => SaidOK'
    BY <1>0 DEF SaidOK
  <1>c. UNCHANGED <<remoteVars, queueVars>> => RemoteOK'
    BY <1>0 DEF RemoteOK
  <1>d. UNCHANGED winchVars => WinchOK'
    BY <1>0 DEF WinchOK
  <1>e. UNCHANGED <<controlVars, link>> => ControlOK'
    BY <1>0 DEF ControlOK
  <1>f. ASSUME NEW p \in Place, Goto(p), link' = link \/ Teardown PROVE ControlOK'
    BY <1>0, <1>f, TeardownType DEF Goto, ControlOK
  <1>g. ASSUME NEW r \in Results, Exit(r), link' = link \/ Teardown PROVE ControlOK'
    BY <1>0, <1>g, ExitType, TeardownType DEF ControlOK
  <1>h. ASSUME Taken, Queued PROVE taken' \in 0..Len(sent)
    BY <1>0, <1>h DEF Taken, Queued, RemoteOK
  <1>i. ASSUME NEW k \in SaidKinds, Send(k) PROVE SaidOK'
    BY <1>i, SendType DEF SaidOK
  <1>j. {"Version", "Execute", "Stdin", "StdinEof", "Winsize"} = SaidKinds
    BY DEF SaidKinds
  <1>1. ASSUME ConnectFails PROVE AllOK'
    BY <1>1, <1>a, <1>b, <1>c, <1>d, <1>g, Names DEF ConnectFails
  <1>2. ASSUME Connected PROVE AllOK'
    BY <1>2, <1>a, <1>b, <1>c, <1>d, <1>f, <1>g, Names DEF Connected
  <1>3. ASSUME SendVersion PROVE AllOK'
    <2>1. ControlOK' /\ SaidOK'
      BY <1>3, <1>b, <1>f, <1>g, <1>i, <1>j, Names DEF SendVersion
    <2>2. QED BY <1>3, <2>1, <1>a, <1>c, <1>d DEF SendVersion
  <1>4. ASSUME GetVersion PROVE AllOK'
    <2>1. ControlOK'
      BY <1>4, <1>f, <1>g, Names DEF GetVersion
    <2>2. RemoteOK'
      BY <1>4, <1>0, <1>h DEF GetVersion, RemoteOK
    <2>3. QED BY <1>4, <2>1, <2>2, <1>a, <1>b, <1>d DEF GetVersion
  <1>5. ASSUME NoVersion PROVE AllOK'
    BY <1>5, <1>a, <1>b, <1>c, <1>d, <1>g, Names DEF NoVersion, GiveUp
  <1>6. ASSUME SendExecute PROVE AllOK'
    <2>1. ControlOK' /\ SaidOK'
      BY <1>6, <1>b, <1>f, <1>g, <1>i, <1>j, Names DEF SendExecute
    <2>2. QED BY <1>6, <2>1, <1>a, <1>c, <1>d DEF SendExecute
  <1>7. ASSUME CreateFinished PROVE AllOK'
    <2>1. ControlOK'
      BY <1>7, <1>0, Names DEF CreateFinished, ControlOK
    <2>2. QED BY <1>7, <2>1, <1>a, <1>b, <1>c, <1>d DEF CreateFinished
  <1>8. ASSUME LoopTop PROVE AllOK'
    BY <1>8, <1>a, <1>b, <1>c, <1>d, <1>f, <1>g, Names DEF LoopTop
  <1>9. ASSUME NoMessage PROVE AllOK'
    BY <1>9, <1>a, <1>b, <1>c, <1>d, <1>f, Names DEF NoMessage
  <1>10. ASSUME TakeOutput PROVE AllOK'
    <2>1. ControlOK'
      BY <1>10, <1>f, Names DEF TakeOutput
    <2>2. RemoteOK'
      <3>1. taken' \in 0..Len(sent) /\ printed' \in Seq(Packets)
        <4>1. Message \in Packets
          BY <1>10, <1>0 DEF TakeOutput, Queued, Message, RemoteOK
        <4>2. QED BY <1>10, <4>1, <1>0, <1>h DEF TakeOutput, PrintLast, RemoteOK
      <3>2. QED BY <1>10, <3>1, <1>0 DEF TakeOutput, RemoteOK
    <2>3. QED BY <1>10, <2>1, <2>2, <1>a, <1>b, <1>d DEF TakeOutput
  <1>11. ASSUME TakeError PROVE AllOK'
    <2>1. ControlOK'
      BY <1>11, <1>g, Names DEF TakeError
    <2>2. RemoteOK'
      BY <1>11, <1>0, <1>h DEF TakeError, RemoteOK
    <2>3. QED BY <1>11, <2>1, <2>2, <1>a, <1>b, <1>d DEF TakeError
  <1>12. ASSUME TakeExited PROVE AllOK'
    <2>1. ControlOK'
      BY <1>12, <1>g, Names DEF TakeExited
    <2>2. RemoteOK'
      BY <1>12, <1>0, <1>h DEF TakeExited, RemoteOK
    <2>3. QED BY <1>12, <2>1, <2>2, <1>a, <1>b, <1>d DEF TakeExited
  <1>13. ASSUME CutStdin PROVE AllOK'
    <2>1. PICK n \in 0..Len(data_buffer) :
            /\ chunk' = SubSeq(data_buffer, 1, n)
            /\ data_buffer' = SubSeq(data_buffer, n + 1, Len(data_buffer))
      BY <1>13 DEF CutStdin
    <2>2. chunk' \in Seq(Nat) /\ data_buffer' \in Seq(Nat)
      BY <2>1, <1>0 DEF InputOK
    <2>3. InputOK' /\ CutOK'
      BY <1>13, <2>2, <1>0 DEF CutStdin, EofAfter, InputOK, CutOK
    <2>4. ControlOK'
      BY <1>13, <1>f, Names DEF CutStdin
    <2>5. QED BY <1>13, <2>3, <2>4, <1>b, <1>c, <1>d DEF CutStdin
  <1>14. ASSUME SkipStdin PROVE AllOK'
    BY <1>14, <1>a, <1>b, <1>c, <1>d, <1>f, Names DEF SkipStdin
  <1>15. ASSUME SendStdin PROVE AllOK'
    <2>1. ControlOK' /\ SaidOK'
      BY <1>15, <1>b, <1>f, <1>i, <1>j, Names DEF SendStdin
    <2>2. fed' \in Seq(Nat) /\ sent_eof' \in BOOLEAN /\ chunk' \in Seq(Nat) /\ eof' \in BOOLEAN
      <3>1. fed \in Seq(Nat) /\ fed \o chunk \in Seq(Nat) /\ <<>> \in Seq(Nat)
        BY <1>0 DEF CutOK
      <3>2. QED BY <1>15, <3>1, <1>0 DEF SendStdin, CutOK
    <2>3. InputOK' /\ CutOK'
      BY <1>15, <2>2, <1>0 DEF SendStdin, InputOK, CutOK
    <2>4. QED BY <1>15, <2>1, <2>3, <1>c, <1>d DEF SendStdin
  <1>16. ASSUME SendWinch PROVE AllOK'
    <2>1. ControlOK' /\ SaidOK'
      BY <1>16, <1>b, <1>f, <1>i, <1>j, Names DEF SendWinch
    <2>2. WinchOK'
      BY <1>16, <1>0 DEF SendWinch, WinchOK
    <2>3. QED BY <1>16, <2>1, <2>2, <1>a, <1>c DEF SendWinch
  <1>17. ASSUME Raised PROVE AllOK'
    BY <1>17, <1>a, <1>b, <1>c, <1>d, <1>f, <1>g, Names DEF Raised
  <1>18. ASSUME Cancelled PROVE AllOK'
    BY <1>18, <1>a, <1>b, <1>c, <1>d, <1>g, Names DEF Cancelled
  <1>19. ASSUME ReadStdin PROVE AllOK'
    <2>1. PICK n \in 0..(MaxData - Len(spoken)) :
            /\ stdin_read' = stdin_read \o Bytes(Len(stdin_read), n)
            /\ data_buffer' = data_buffer \o Bytes(Len(stdin_read), n)
      BY <1>19 DEF ReadStdin
    <2>2. Bytes(Len(stdin_read), n) \in Seq(Nat)
      <3>1. Len(stdin_read) \in Nat /\ n \in Nat
        BY <1>0 DEF InputOK
      <3>2. QED BY <3>1, BytesType
    <2>3. stdin_read' \in Seq(Nat) /\ data_buffer' \in Seq(Nat)
      BY <2>1, <2>2, <1>0 DEF InputOK
    <2>4. InputOK' /\ CutOK'
      BY <1>19, <2>3, <1>0 DEF ReadStdin, InputOK, CutOK
    <2>5. QED BY <1>19, <2>4, <1>b, <1>c, <1>d, <1>e DEF ReadStdin
  <1>20. ASSUME EscapeQuit PROVE AllOK'
    <2>1. ControlOK'
      BY <1>20, <1>0, TeardownType DEF EscapeQuit, FinishedSet, ControlOK
    <2>2. QED BY <1>20, <2>1, <1>a, <1>b, <1>c, <1>d DEF EscapeQuit
  <1>21. ASSUME Interrupt PROVE AllOK'
    <2>1. ControlOK'
      BY <1>21, <1>0 DEF Interrupt, ControlOK
    <2>2. QED BY <1>21, <2>1, <1>a, <1>b, <1>c, <1>d DEF Interrupt
  <1>22. ASSUME Winch PROVE AllOK'
    <2>1. WinchOK'
      BY <1>22, <1>0 DEF Winch, WinchOK
    <2>2. QED BY <1>22, <2>1, <1>a, <1>b, <1>c, <1>e DEF Winch
  <1>23. ASSUME LinkUp \/ LinkDown \/ LinkClosed PROVE AllOK'
    <2>1. ControlOK'
      BY <1>23, <1>0 DEF LinkUp, LinkDown, LinkClosed, FinishedSet, ControlOK
    <2>2. QED
      BY <1>23, <2>1, <1>a, <1>b, <1>c, <1>d DEF LinkUp, LinkDown, LinkClosed
  <1>24. ASSUME Hear PROVE AllOK'
    <2>1. SaidOK'
      <3>1. Len(said) \in Nat /\ heard \in Nat /\ heard < Len(said) /\ heard' = heard + 1
        BY <1>24, <1>0 DEF Hear, SaidOK
      <3>2. heard' \in 0..Len(said) /\ Len(said) - heard' \in 0..Window
        BY <3>1, <1>0, WindowAssumption DEF SaidOK
      <3>3. QED BY <1>24, <1>0, <3>2 DEF Hear, SaidOK
    <2>2. QED BY <1>24, <2>1, <1>a, <1>c, <1>d, <1>e DEF Hear
  <1>25. ASSUME ListenerSays PROVE AllOK'
    <2>1. PICK p \in Packets : Remote!Says(p)
      BY <1>25 DEF ListenerSays
    <2>2. sent' = Append(sent, p) /\ UNCHANGED command
      BY <2>1 DEF Remote!Says
    <2>3. sent' \in Seq(Packets) /\ taken \in 0..Len(sent')
      BY <2>2, <1>0 DEF RemoteOK
    <2>4. RemoteOK'
      BY <1>25, <2>2, <2>3, <1>0 DEF ListenerSays, RemoteOK
    <2>5. QED BY <1>25, <2>4, <1>a, <1>b, <1>d, <1>e DEF ListenerSays
  <1>26. ASSUME CommandRuns PROVE AllOK'
    <2>1. command' \in {"running", "ended"} /\ UNCHANGED <<sent, spoken, queueVars>>
      BY <1>26 DEF CommandRuns, Remote!Start, Remote!End
    <2>2. RemoteOK'
      BY <2>1, <1>0 DEF RemoteOK
    <2>3. QED BY <1>26, <2>2, <1>a, <1>b, <1>d, <1>e DEF CommandRuns
  <1>27. ASSUME UNCHANGED vars PROVE AllOK'
    BY <1>27, <1>a, <1>b, <1>c, <1>d, <1>e DEF vars
  <1>28. AllOK'
    BY <1>1, <1>2, <1>3, <1>4, <1>5, <1>6, <1>7, <1>8, <1>9, <1>10, <1>11, <1>12, <1>13,
       <1>14, <1>15, <1>16, <1>17, <1>18, <1>19, <1>20, <1>21, <1>22, <1>23, <1>24, <1>25,
       <1>26, <1>27
    DEF Next, InitiatorStep, Environment
  <1>29. QED
    BY <1>28, Names DEF TypeOK, ControlOK, InputOK, CutOK, SaidOK, RemoteOK, WinchOK

\* Every variable of the initiator keeps its type; in particular the channel never
\* holds more unproved messages than its window, and no message is taken from the
\* queue that the listener has not sent.
THEOREM InitiatorTypeCorrect == Spec => []TypeOK
  BY InitType, NextType, PTL DEF Spec

(***************************************************************************)
(* The handshake.                                                          *)
(***************************************************************************)
Versions == said # <<>> /\ said[1] = "Version" /\ Remote!Said("Version")

\* The places of initiate() say which of the two versions have been exchanged.
HandshakeInv ==
  /\ pc \in {"connect", "version"} => said = <<>>
  /\ pc = "reply" => said = <<"Version">>
  /\ pc \in {"ready", "event"} \cup MainLoop => Versions
  /\ ExecuteAfterVersion

\* What the listener has said stays said.
LEMMA SaidStays ==
  ASSUME TypeOK, [Next]_vars, NEW kind, Remote!Said(kind)
  PROVE  Remote!Said(kind)'
  <1> USE DEF remoteVars, Remote!Said
  <1>1. CASE UNCHANGED sent
    BY <1>1
  <1>2. ASSUME NEW p \in Packets, sent' = Append(sent, p) PROVE Remote!Said(kind)'
    <2>1. PICK i \in 1..Len(sent) : sent[i].kind = kind
      OBVIOUS
    <2>2. sent \in Seq(Packets)
      BY DEF TypeOK
    <2>3. i \in 1..Len(sent') /\ sent'[i] = sent[i]
      BY <1>2, <2>1, <2>2
    <2>4. QED BY <2>1, <2>3
  <1>3. InitiatorStep => UNCHANGED sent
    BY DEF InitiatorStep, ConnectFails, Connected, SendVersion, GetVersion, NoVersion,
           SendExecute, CreateFinished, LoopTop, NoMessage, TakeOutput, TakeError,
           TakeExited, CutStdin, SkipStdin, SendStdin, SendWinch, Raised, Cancelled
  <1>4. Environment => ListenerSays \/ UNCHANGED sent
    BY DEF Environment, ReadStdin, EscapeQuit, Interrupt, Winch, LinkUp, LinkDown,
           LinkClosed, Hear, CommandRuns, Remote!Start, Remote!End
  <1>5. ListenerSays => \E p \in Packets : sent' = Append(sent, p)
    BY DEF ListenerSays, Remote!Says
  <1>6. QED BY <1>1, <1>2, <1>3, <1>4, <1>5 DEF Next, vars

\* Anything may be sent once both versions are exchanged.
LEMMA SendAfterVersions ==
  ASSUME TypeOK, Versions, ExecuteAfterVersion, NEW kind \in SaidKinds, Send(kind),
         UNCHANGED sent
  PROVE  Versions' /\ ExecuteAfterVersion'
  <1>1. said \in Seq(SaidKinds) /\ said' = Append(said, kind) /\ Len(said) \in Nat \ {0}
    BY DEF TypeOK, Versions, Send
  <1>2. said' # <<>> /\ said'[1] = "Version"
    BY <1>1 DEF Versions
  <1>3. Remote!Said("Version")'
    BY DEF Versions, Remote!Said
  <1>4. QED BY <1>2, <1>3 DEF Versions, ExecuteAfterVersion

LEMMA NextHandshake ==
  ASSUME TypeOK, HandshakeInv, [Next]_vars
  PROVE  HandshakeInv'
  <1> USE DEF controlVars, inputVars, cutVars, saidVars, remoteVars, queueVars, winchVars
  <1>1. Remote!Said("Version") => Remote!Said("Version")'
    BY SaidStays
  <1>2. ASSUME UNCHANGED said PROVE ExecuteAfterVersion' /\ (Versions => Versions')
    BY <1>1, <1>2 DEF HandshakeInv, ExecuteAfterVersion, Versions
  <1>3. ASSUME UNCHANGED said, pc' = "exited" PROVE HandshakeInv'
    BY <1>2, <1>3 DEF HandshakeInv, MainLoop
  <1>4. ASSUME UNCHANGED <<said, pc>> PROVE HandshakeInv'
    BY <1>2, <1>4 DEF HandshakeInv
  <1>5. ASSUME UNCHANGED said, pc \in {"ready", "event"} \cup MainLoop,
               pc' \in {"event"} \cup MainLoop
        PROVE  HandshakeInv'
    BY <1>2, <1>5 DEF HandshakeInv, MainLoop
  <1>6. ASSUME pc \in {"ready", "event"} \cup MainLoop, pc' \in {"event"} \cup MainLoop,
               NEW kind \in SaidKinds, Send(kind), UNCHANGED sent
        PROVE  HandshakeInv'
    BY <1>6, SendAfterVersions DEF HandshakeInv, MainLoop
  <1>7. ASSUME ConnectFails \/ NoVersion \/ TakeError \/ TakeExited \/ Cancelled
        PROVE  HandshakeInv'
    BY <1>3, <1>7 DEF ConnectFails, NoVersion, GiveUp, TakeError, TakeExited, Cancelled, Exit
  <1>8. ASSUME Connected PROVE HandshakeInv'
    <2>1. CASE pc' = "version"
      BY <1>2, <1>8, <2>1 DEF Connected, HandshakeInv, MainLoop
    <2>2. QED BY <1>3, <1>8, <2>1 DEF Connected, Goto, Exit
  <1>9. ASSUME SendVersion PROVE HandshakeInv'
    <2>1. CASE Send("Version") /\ Goto("reply")
      <3>1. said' = <<"Version">> /\ pc' = "reply"
        BY <1>9, <2>1 DEF SendVersion, HandshakeInv, Send, Goto
      <3>2. QED BY <3>1 DEF HandshakeInv, ExecuteAfterVersion, MainLoop
    <2>2. QED BY <1>3, <1>9, <2>1 DEF SendVersion, Exit
  <1>10. ASSUME GetVersion PROVE HandshakeInv'
    <2>1. CASE Message.kind = "Version"
      <3>1. Remote!Said("Version")
        <4>1. taken + 1 \in 1..Len(sent)
          BY <1>10 DEF GetVersion, Queued, TypeOK
        <4>2. QED BY <2>1, <4>1 DEF Message, Remote!Said
      <3>2. said' = <<"Version">> /\ pc' = "ready"
        BY <1>10, <2>1 DEF GetVersion, HandshakeInv, Goto
      <3>3. Versions'
        BY <1>1, <3>1, <3>2 DEF Versions
      <3>4. QED BY <3>2, <3>3 DEF HandshakeInv, ExecuteAfterVersion, MainLoop
    <2>2. CASE Message.kind # "Version"
      BY <1>3, <1>10, <2>2 DEF GetVersion, Exit
    <2>3. QED BY <2>1, <2>2
  <1>11. ASSUME SendExecute PROVE HandshakeInv'
    <2>1. CASE Send("Execute") /\ Goto("event")
      BY <1>6, <1>11, <2>1 DEF SendExecute, Goto, SaidKinds
    <2>2. QED BY <1>3, <1>11, <2>1 DEF SendExecute, Exit
  <1>12. ASSUME CreateFinished \/ NoMessage \/ SkipStdin \/ TakeOutput \/ CutStdin
         PROVE  HandshakeInv'
    BY <1>5, <1>12
    DEF CreateFinished, NoMessage, SkipStdin, TakeOutput, CutStdin, Goto, MainLoop
  <1>13. ASSUME LoopTop \/ Raised PROVE HandshakeInv'
    BY <1>3, <1>5, <1>13 DEF LoopTop, Raised, Goto, Exit, MainLoop
  <1>14. ASSUME SendStdin PROVE HandshakeInv'
    <2>1. CASE Send(IF eof THEN "StdinEof" ELSE "Stdin") /\ Goto("winch")
      <3>1. (IF eof THEN "StdinEof" ELSE "Stdin") \in SaidKinds
        BY DEF SaidKinds
      <3>2. QED BY <1>6, <1>14, <2>1, <3>1 DEF SendStdin, Goto, MainLoop
    <2>2. QED BY <1>5, <1>14, <2>1 DEF SendStdin, Goto, MainLoop
  <1>15. ASSUME SendWinch PROVE HandshakeInv'
    <2>1. CASE Send("Winsize")
      BY <1>6, <1>15, <2>1 DEF SendWinch, Goto, MainLoop, SaidKinds
    <2>2. QED BY <1>5, <1>15, <2>1 DEF SendWinch, Goto, MainLoop
  <1>16. ASSUME Environment PROVE HandshakeInv'
    BY <1>4, <1>16
    DEF Environment, ReadStdin, EscapeQuit, Interrupt, Winch, LinkUp, LinkDown,
        LinkClosed, Hear, ListenerSays, CommandRuns
  <1>17. ASSUME UNCHANGED vars PROVE HandshakeInv'
    BY <1>4, <1>17 DEF vars
  <1>18. QED
    BY <1>7, <1>8, <1>9, <1>10, <1>11, <1>12, <1>13, <1>14, <1>15, <1>16, <1>17
    DEF Next, InitiatorStep

\* Nothing but the version goes to the listener before its version has come, on every
\* path through the handshake (initiator.py:250-286).
THEOREM ExecuteAfterVersionHolds == Spec => []ExecuteAfterVersion
  <1>1. Init => TypeOK /\ HandshakeInv
    <2>1. Init => HandshakeInv
      BY DEF Init, HandshakeInv, ExecuteAfterVersion, MainLoop
    <2>2. QED BY <2>1, InitType
  <1>2. TypeOK /\ HandshakeInv /\ [Next]_vars => (TypeOK /\ HandshakeInv)'
    BY NextType, NextHandshake
  <1>3. HandshakeInv => ExecuteAfterVersion
    BY DEF HandshakeInv
  <1>4. QED BY <1>1, <1>2, <1>3, PTL DEF Spec

(***************************************************************************)
(* Standard input implements Pipe.                                         *)
(***************************************************************************)
LEMMA PrefixOfConcat ==
  ASSUME NEW s \in Seq(Nat), NEW t \in Seq(Nat)
  PROVE  IsPrefix(s, s \o t)
  <1>1. Len(s) <= Len(s \o t)
    OBVIOUS
  <1>2. SubSeq(s, 1, Len(s)) = SubSeq(s \o t, 1, Len(s))
    <2>1. CASE s = <<>>
      <3>1. Len(s) < 1
        BY <2>1
      <3>2. SubSeq(s, 1, Len(s)) = <<>> /\ SubSeq(s \o t, 1, Len(s)) = <<>>
        BY <3>1, SubSeqEmpty
      <3>3. QED BY <3>2
    <2>2. CASE s # <<>>
      <3>1. 1 \in 1..Len(s) /\ Len(s) \in 1..Len(s)
        BY <2>2
      <3>2. QED BY <3>1, SubSeqOfConcat1
    <2>3. QED BY <2>1, <2>2
  <1>3. QED BY <1>1, <1>2 DEF IsPrefix

LEMMA Regroup == \A s, t, u \in Seq(Nat) : (s \o t) \o u = s \o (t \o u)
  <1> SUFFICES ASSUME NEW s \in Seq(Nat), NEW t \in Seq(Nat), NEW u \in Seq(Nat)
               PROVE  (s \o t) \o u = s \o (t \o u)
    OBVIOUS
  <1>1. QED BY ConcatAssociative

\* While the link may still carry it, what was read is what was sent, the chunk on its
\* way and the buffer.  A chunk can be lost only with the link, because nothing fills
\* the window between the cut and the send.
SplitInv  == link \in {"pending", "active"} => stdin_read = fed \o (chunk \o data_buffer)
ChunkInv  == IF pc = "send" THEN ~sent_eof /\ (link = "active" => Len(said) - heard < Window)
                            ELSE chunk = <<>> /\ ~eof
EofInv    == /\ eof => stdin_eof /\ chunk = <<>> /\ data_buffer = <<>>
             /\ sent_eof => stdin_eof /\ data_buffer = <<>>
LinkInv   == link = "pending" => pc \in {"connect", "exited"}
StdinInv  == SplitInv /\ ChunkInv /\ EofInv /\ LinkInv

LEMMA InitStdin == Init => StdinInv
  <1> SUFFICES ASSUME Init PROVE StdinInv
    OBVIOUS
  <1>1. stdin_read \in Seq(Nat)
    BY InitType DEF TypeOK
  <1>2. <<>> \o (<<>> \o stdin_read) = stdin_read
    BY <1>1
  <1>3. SplitInv
    BY <1>2 DEF Init, SplitInv
  <1>4. QED BY <1>3 DEF Init, StdinInv, ChunkInv, EofInv, LinkInv

\* The steps that matter: cutting a chunk off the buffer, sending it, reading more.
LEMMA CutKeeps ==
  ASSUME TypeOK, StdinInv, CutStdin
  PROVE  StdinInv' /\ UNCHANGED StdinPipe!pipeVars
  <1>1. PICK n \in 0..Len(data_buffer) :
          /\ n = 0 => data_buffer = <<>>
          /\ chunk' = SubSeq(data_buffer, 1, n)
          /\ data_buffer' = SubSeq(data_buffer, n + 1, Len(data_buffer))
    BY DEF CutStdin
  <1>2. /\ data_buffer \in Seq(Nat) /\ fed \in Seq(Nat) /\ chunk = <<>>
        /\ link = "active" /\ Len(said) - heard < Window
    BY DEF CutStdin, ChannelReady, TypeOK, StdinInv, ChunkInv
  <1>3. chunk' \in Seq(Nat) /\ data_buffer' \in Seq(Nat)
    BY <1>1, <1>2
  <1>4. chunk' \o data_buffer' = data_buffer
    <2>1. Len(data_buffer) \in Nat
      BY <1>2
    <2>2. /\ 1 \in 1..(Len(data_buffer) + 1) /\ n \in (1 - 1)..Len(data_buffer)
          /\ Len(data_buffer) \in n..Len(data_buffer)
      BY <2>1
    <2>3. chunk' \o data_buffer' = SubSeq(data_buffer, 1, Len(data_buffer))
      BY <1>1, <1>2, <2>2, ConcatAdjacentSubSeq
    <2>4. QED BY <1>2, <2>3, SubSeqFull
  <1>5. <<>> \o data_buffer = data_buffer
    BY <1>2
  <1>6. UNCHANGED <<link, stdin_read, stdin_eof, sent_eof, said, heard, fed>>
    BY DEF CutStdin, saidVars
  <1>7. SplitInv'
    BY <1>2, <1>4, <1>5, <1>6 DEF SplitInv, StdinInv
  <1>8. chunk' = <<>> => data_buffer' = <<>>
    <2>1. chunk' = <<>> => n = 0
      <3>1. Len(chunk') = n
        BY <1>1, <1>2
      <3>2. QED BY <3>1
    <2>2. n = 0 => data_buffer' = <<>>
      BY <1>1, <1>2
    <2>3. QED BY <2>1, <2>2
  <1>9. data_buffer = <<>> => chunk' = <<>> /\ data_buffer' = <<>>
    BY <1>1, <1>2
  <1>10. eof' = (~sent_eof /\ stdin_eof /\ chunk' = <<>>)
    BY DEF CutStdin, EofAfter
  <1>11. EofInv'
    BY <1>6, <1>8, <1>9, <1>10 DEF EofInv, StdinInv
  <1>12. pc' = IF chunk' # <<>> \/ eof' THEN "send" ELSE "winch"
    BY DEF CutStdin, Goto
  <1>13. sent_eof => pc' = "winch"
    BY <1>9, <1>10, <1>12 DEF EofInv, StdinInv
  <1>14. eof' \in BOOLEAN
    BY <1>10
  <1>15. ChunkInv'
    BY <1>2, <1>6, <1>12, <1>13, <1>14 DEF ChunkInv
  <1>16. LinkInv'
    BY <1>2, <1>6 DEF LinkInv
  <1>17. QED BY <1>6, <1>7, <1>11, <1>15, <1>16 DEF StdinInv, StdinPipe!pipeVars

LEMMA SendKeeps ==
  ASSUME TypeOK, StdinInv, SendStdin
  PROVE  StdinInv' /\ [StdinPipe!Next]_StdinPipe!pipeVars
  <1>1. /\ data_buffer \in Seq(Nat) /\ fed \in Seq(Nat) /\ chunk \in Seq(Nat)
        /\ eof \in BOOLEAN /\ sent_eof = FALSE /\ link # "pending"
        /\ chunk' = <<>> /\ eof' = FALSE
        /\ UNCHANGED <<link, stdin_read, stdin_eof, data_buffer>>
    BY DEF SendStdin, TypeOK, StdinInv, ChunkInv, LinkInv, inputVars
  <1>2. CASE Send(IF eof THEN "StdinEof" ELSE "Stdin") /\ fed' = fed \o chunk
             /\ sent_eof' = eof /\ Goto("winch")
    <2>1. link = "active" /\ stdin_read = fed \o (chunk \o data_buffer)
      BY <1>2 DEF Send, ChannelReady, StdinInv, SplitInv
    <2>2. fed \o chunk \in Seq(Nat) /\ <<>> \o data_buffer = data_buffer
      BY <1>1
    <2>3. stdin_read = fed' \o data_buffer
      BY <1>1, <1>2, <2>1, Regroup
    <2>4. StdinInv'
      BY <1>1, <1>2, <2>1, <2>2, <2>3
      DEF Goto, StdinInv, SplitInv, ChunkInv, EofInv, LinkInv
    <2>5. CASE eof
      <3>1. stdin_eof /\ chunk = <<>> /\ data_buffer = <<>>
        BY <2>5 DEF StdinInv, EofInv
      <3>2. fed' = fed /\ fed \o <<>> = fed
        BY <1>1, <1>2, <3>1
      <3>3. StdinPipe!End
        BY <1>1, <1>2, <2>3, <2>5, <3>1, <3>2 DEF StdinPipe!End
      <3>4. QED BY <2>4, <3>3 DEF StdinPipe!Next
    <2>6. CASE ~eof
      <3>1. IsPrefix(fed, fed') /\ IsPrefix(fed', stdin_read)
        BY <1>1, <1>2, <2>2, <2>3, PrefixOfConcat
      <3>2. StdinPipe!Read
        BY <1>1, <1>2, <2>6, <3>1 DEF StdinPipe!Read, StdinPipe!IsPrefix, IsPrefix
      <3>3. QED BY <2>4, <3>2 DEF StdinPipe!Next
    <2>7. QED BY <1>1, <2>5, <2>6
  <1>3. CASE ~ChannelReady /\ Goto("raised") /\ UNCHANGED <<saidVars, sent_eof>>
    <2>1. link # "active"
      BY <1>3 DEF SendStdin, ChannelReady, StdinInv, ChunkInv
    <2>2. StdinInv'
      BY <1>1, <1>3, <2>1
      DEF Goto, saidVars, StdinInv, SplitInv, ChunkInv, EofInv, LinkInv
    <2>3. QED BY <1>1, <1>3, <2>2 DEF saidVars, StdinPipe!pipeVars
  <1>4. QED BY <1>2, <1>3 DEF SendStdin

LEMMA ReadKeeps ==
  ASSUME TypeOK, StdinInv, ReadStdin
  PROVE  StdinInv' /\ StdinPipe!Next
  <1>1. PICK n \in 0..(MaxData - Len(spoken)) :
          /\ stdin_read' = stdin_read \o Bytes(Len(stdin_read), n)
          /\ data_buffer' = data_buffer \o Bytes(Len(stdin_read), n)
    BY DEF ReadStdin
  <1> DEFINE more == Bytes(Len(stdin_read), n)
  <1>2. more \in Seq(Nat)
    <2>1. Len(stdin_read) \in Nat /\ n \in Nat
      BY DEF TypeOK
    <2>2. QED BY <2>1, BytesType
  <1> HIDE DEF more
  <1>3. /\ stdin_read \in Seq(Nat) /\ data_buffer \in Seq(Nat) /\ fed \in Seq(Nat)
        /\ pc \in {"ready", "top"} /\ chunk = <<>> /\ eof = FALSE /\ ~stdin_eof
        /\ sent_eof = FALSE
    BY DEF ReadStdin, Suspended, TypeOK, StdinInv, ChunkInv, EofInv
  <1>4. UNCHANGED <<pc, link, chunk, eof, sent_eof, fed, said, heard>>
    BY DEF ReadStdin, controlVars, cutVars, saidVars
  <1>5. /\ <<>> \o data_buffer = data_buffer
        /\ <<>> \o (data_buffer \o more) = data_buffer \o more
        /\ (fed \o data_buffer) \o more = fed \o (data_buffer \o more)
    <2>1. data_buffer \o more \in Seq(Nat)
      BY <1>2, <1>3
    <2>2. (fed \o data_buffer) \o more = fed \o (data_buffer \o more)
      <3>1. fed \in Seq(Nat) /\ data_buffer \in Seq(Nat)
        BY <1>3
      <3>2. QED BY <1>2, <3>1, Regroup
    <2>3. QED BY <1>3, <2>1, <2>2, ConcatEmptySeq
  <1>6. StdinInv'
    BY <1>1, <1>3, <1>4, <1>5 DEF more, StdinInv, SplitInv, ChunkInv, EofInv, LinkInv
  <1>7. IsPrefix(stdin_read, stdin_read')
    BY <1>1, <1>2, <1>3, PrefixOfConcat DEF more
  <1>8. StdinPipe!Write
    BY <1>3, <1>4, <1>7 DEF StdinPipe!Write, StdinPipe!IsPrefix, IsPrefix
  <1>9. QED BY <1>6, <1>8 DEF StdinPipe!Next

\* All other steps leave the pipe alone.
LEMMA OthersKeep ==
  ASSUME TypeOK, StdinInv, [Next]_vars, ~CutStdin, ~SendStdin, ~ReadStdin
  PROVE  StdinInv' /\ UNCHANGED StdinPipe!pipeVars
  <1> USE DEF controlVars, inputVars, cutVars, saidVars, remoteVars, queueVars, winchVars,
              StdinPipe!pipeVars
  <1>1. ASSUME UNCHANGED <<inputVars, cutVars, fed>>, pc # "send" \/ pc' = pc,
               pc' = "send" => pc = "send" /\ heard' \in {heard, heard + 1} /\ said' = said,
               link' = "pending" => link = "pending" /\ pc' \in {pc, "exited"},
               link' = "active" => link \in {"pending", "active"}
        PROVE  StdinInv' /\ UNCHANGED StdinPipe!pipeVars
    <2>1. SplitInv'
      BY <1>1 DEF TypeOK, StdinInv, SplitInv
    <2>2. EofInv' /\ LinkInv'
      BY <1>1 DEF StdinInv, EofInv, LinkInv
    <2>3. ChunkInv'
      <3>1. CASE pc' # "send"
        BY <1>1, <3>1 DEF StdinInv, ChunkInv
      <3>2. CASE pc' = "send"
        <4>1. link # "pending"
          BY <1>1, <3>2 DEF StdinInv, LinkInv
        <4>2. pc = "send" /\ ~sent_eof' /\ (link' = "active" => link = "active")
          BY <1>1, <3>2, <4>1 DEF StdinInv, ChunkInv
        <4>3. link = "active" => Len(said) - heard' < Window
          <5>1. Len(said) \in Nat /\ heard \in Nat /\ Window \in Nat
            BY WindowAssumption DEF TypeOK
          <5>2. link = "active" => Len(said) - heard < Window
            BY <4>2 DEF StdinInv, ChunkInv
          <5>3. QED BY <1>1, <3>2, <5>1, <5>2
        <4>4. QED BY <1>1, <3>2, <4>2, <4>3 DEF ChunkInv
      <3>3. QED BY <3>1, <3>2
    <2>4. QED BY <1>1, <2>1, <2>2, <2>3 DEF StdinInv
  <1>2. CASE InitiatorStep
    <2>1. UNCHANGED <<inputVars, cutVars, fed>>
      BY <1>2
      DEF InitiatorStep, ConnectFails, Connected, SendVersion, GetVersion, NoVersion,
          SendExecute, CreateFinished, LoopTop, NoMessage, TakeOutput, TakeError,
          TakeExited, SkipStdin, SendWinch, Raised, Cancelled
    <2>2. pc # "send" /\ pc' # "send"
      BY <1>2
      DEF InitiatorStep, ConnectFails, Connected, SendVersion, GetVersion, NoVersion,
          GiveUp, SendExecute, CreateFinished, LoopTop, NoMessage, TakeOutput, TakeError,
          TakeExited, SkipStdin, SendWinch, Raised, Cancelled, Goto, Exit
    <2>3. /\ link' = "pending" => link = "pending" /\ pc' \in {pc, "exited"}
          /\ link' = "active" => link \in {"pending", "active"}
      BY <1>2
      DEF InitiatorStep, ConnectFails, Connected, SendVersion, GetVersion, NoVersion,
          GiveUp, SendExecute, CreateFinished, LoopTop, NoMessage, TakeOutput, TakeError,
          TakeExited, SkipStdin, SendWinch, Raised, Cancelled, Goto, Exit, Teardown,
          StdinInv, LinkInv
    <2>4. QED BY <1>1, <2>1, <2>2, <2>3
  <1>3. CASE Environment
    <2>1. UNCHANGED <<inputVars, cutVars, fed, pc, said>>
      BY <1>3
      DEF Environment, EscapeQuit, Interrupt, Winch, LinkUp, LinkDown, LinkClosed, Hear,
          ListenerSays, CommandRuns
    <2>2. heard' \in {heard, heard + 1}
      BY <1>3
      DEF Environment, EscapeQuit, Interrupt, Winch, LinkUp, LinkDown, LinkClosed, Hear,
          ListenerSays, CommandRuns
    <2>3. /\ link' = "pending" => link = "pending"
          /\ link' = "active" => link \in {"pending", "active"}
      BY <1>3
      DEF Environment, EscapeQuit, Interrupt, Winch, LinkUp, LinkDown, LinkClosed, Hear,
          ListenerSays, CommandRuns, Teardown
    <2>4. QED BY <1>1, <2>1, <2>2, <2>3
  <1>4. CASE UNCHANGED vars
    BY <1>1, <1>4 DEF vars
  <1>5. QED BY <1>2, <1>3, <1>4 DEF Next

\* Standard input is a pipe to the session, for any splits into messages and whenever
\* the window is full or the link is lost (initiator.py:456-495): the initial state is
\* one of Pipe and every step is a step of Pipe or leaves it alone.
THEOREM StdinKeptHolds == Spec => StdinKept
  <1>1. Init => TypeOK /\ StdinInv
    BY InitType, InitStdin
  <1>2. TypeOK /\ StdinInv /\ [Next]_vars
          => (TypeOK /\ StdinInv)' /\ [StdinPipe!Next]_StdinPipe!pipeVars
    BY NextType, CutKeeps, SendKeeps, ReadKeeps, OthersKeep
  <1>3. Init => StdinPipe!Init
    BY DEF Init, StdinPipe!Init
  <1>4. QED BY <1>1, <1>2, <1>3, PTL DEF Spec, StdinKept, StdinPipe!Spec

(***************************************************************************)
(* The command's output implements Pipe.                                   *)
(***************************************************************************)
BeforeExit(i) == \A j \in 1..(i - 1) : sent[j].kind # "Exited"

\* The i-th message of the session is the k-th that carries output.
At(i, k) == /\ i \in 1..Len(sent) /\ k \in 1..Len(spoken)
            /\ BeforeExit(i) /\ sent[i] = spoken[k]

\* spoken holds the output among the messages before the exit, in their order; the
\* data of a message are its number.
NumberInv == \A k \in 1..Len(spoken) : spoken[k].kind \in Streams /\ spoken[k].data = <<k>>
OntoInv   == \A k \in 1..Len(spoken) : \E i \in 1..Len(sent) : At(i, k)
TotalInv  == \A i \in 1..Len(sent) :
               sent[i].kind \in Streams /\ BeforeExit(i) => \E k \in 1..Len(spoken) : At(i, k)
OrderInv  == \A i, j, k, l \in Nat : At(i, k) /\ At(j, l) /\ i < j => k < l
SpokenInv == NumberInv /\ OntoInv /\ TotalInv /\ OrderInv

\* Until the initiator leaves, the output it has taken is the output it has printed,
\* and no exit is taken; it leaves with the command's code only after printing all.
PrintInv == /\ Len(printed) <= Len(spoken)
            /\ \A k \in 1..Len(printed) : printed[k] = spoken[k]
TakenInv == pc # "exited" =>
              /\ result # "return_code"
              /\ \A i \in 1..taken : sent[i].kind # "Exited"
              /\ \A i, k \in Nat : At(i, k) => (i <= taken <=> k <= Len(printed))
CodeInv  == result = "return_code" => Remote!Said("Exited") /\ printed = spoken
OutputInv == SpokenInv /\ PrintInv /\ TakenInv /\ CodeInv

LEMMA PrefixByElements ==
  ASSUME NEW S, NEW s \in Seq(S), NEW t \in Seq(S), Len(s) <= Len(t),
         \A k \in 1..Len(s) : s[k] = t[k]
  PROVE  IsPrefix(s, t)
  <1>1. SubSeq(s, 1, Len(s)) = s
    BY SubSeqFull
  <1>2. SubSeq(t, 1, Len(s)) = s
    <2>1. SubSeq(t, 1, Len(s)) \in Seq(S) /\ Len(SubSeq(t, 1, Len(s))) = Len(s)
      OBVIOUS
    <2>2. \A k \in 1..Len(s) : SubSeq(t, 1, Len(s))[k] = s[k]
      OBVIOUS
    <2>3. QED BY <2>1, <2>2, SeqEqual
  <1>3. QED BY <1>1, <1>2 DEF IsPrefix

LEMMA InitOutput == Init => OutputInv
  BY DEF Init, Remote!Init, OutputInv, SpokenInv, NumberInv, OntoInv, TotalInv, OrderInv,
         At, PrintInv, TakenInv, CodeInv

\* While no message is said, spoken is what it was.
LEMMA SameMessages ==
  ASSUME SpokenInv, UNCHANGED <<sent, spoken>>
  PROVE  /\ SpokenInv' /\ Remote!Said("Exited")' = Remote!Said("Exited")
         /\ \A i, k \in Nat : At(i, k)' <=> At(i, k)
  BY DEF SpokenInv, NumberInv, OntoInv, TotalInv, OrderInv, At, BeforeExit, Remote!Said

\* Two numbers for one message are the same.
LEMMA OneNumber ==
  ASSUME NumberInv, NEW i \in Nat, NEW k \in Nat, NEW l \in Nat, At(i, k), At(i, l)
  PROVE  k = l
  <1>1. <<k>> = <<l>>
    BY DEF NumberInv, At
  <1>2. QED BY <1>1

LEMMA SayKeeps ==
  ASSUME TypeOK, OutputInv, ListenerSays
  PROVE  OutputInv' /\ [OutputPipe!Next]_OutputPipe!pipeVars
  <1>1. PICK p \in Packets :
          /\ p.kind \in Streams => p.data = <<Len(spoken) + 1>>
          /\ Remote!Says(p)
          /\ spoken' = IF p.kind \in Streams /\ ~Remote!Said("Exited")
                         THEN Append(spoken, p) ELSE spoken
    BY DEF ListenerSays
  <1>a. /\ sent \in Seq(Packets) /\ spoken \in Seq(Packets) /\ printed \in Seq(Packets)
        /\ taken \in 0..Len(sent)
    BY DEF TypeOK
  <1>b. PICK n \in Nat, m \in Nat : n = Len(sent) + 1 /\ m = Len(spoken) + 1
    <2>1. Len(sent) + 1 \in Nat /\ Len(spoken) + 1 \in Nat
      BY <1>a
    <2>2. QED BY <2>1
  <1>2. /\ sent \in Seq(Packets) /\ spoken \in Seq(Packets) /\ printed \in Seq(Packets)
        /\ taken \in 0..Len(sent) /\ n = Len(sent) + 1 /\ m = Len(spoken) + 1
    BY <1>a, <1>b
  <1>3. /\ sent' = Append(sent, p)
        /\ UNCHANGED <<pc, result, taken, printed>>
    BY <1>1 DEF Remote!Says, ListenerSays, controlVars, queueVars
  <1>4. /\ n \in Nat /\ m \in Nat /\ Len(sent') = n /\ sent'[n] = p
        /\ \A i \in 1..Len(sent) : sent'[i] = sent[i]
    BY <1>2, <1>3
  <1>5. \A i \in 1..n : BeforeExit(i)' <=> BeforeExit(i)
    BY <1>2, <1>4 DEF BeforeExit
  <1>6. Remote!Said("Exited")' <=> Remote!Said("Exited") \/ p.kind = "Exited"
    <2>1. \A i \in 1..n : i \in 1..Len(sent) \/ i = n
      BY <1>2, <1>4
    <2>2. QED BY <1>2, <1>4, <2>1 DEF Remote!Said
  <1>7. BeforeExit(n) <=> ~Remote!Said("Exited")
    BY <1>2 DEF BeforeExit, Remote!Said
  <1> USE DEF OutputPipe!pipeVars
  <1>8. CASE p.kind \in Streams /\ ~Remote!Said("Exited")
    <2>1. spoken' = Append(spoken, p) /\ p.data = <<m>>
      BY <1>1, <1>2, <1>8
    <2>2. /\ Len(spoken') = m /\ spoken'[m] = p
          /\ \A k \in 1..Len(spoken) : spoken'[k] = spoken[k]
      BY <1>2, <2>1
    <2>3. NumberInv'
      <3>1. \A k \in 1..m : k \in 1..Len(spoken) \/ k = m
        BY <1>2, <1>4
      <3>2. QED BY <1>8, <2>1, <2>2, <3>1 DEF NumberInv, OutputInv, SpokenInv
    <2>4. \A i \in 1..Len(sent), k \in 1..Len(spoken) : At(i, k)' <=> At(i, k)
      BY <1>2, <1>4, <1>5, <2>2 DEF At
    <2>5. At(n, m)'
      BY <1>2, <1>4, <1>5, <1>7, <1>8, <2>2 DEF At
    <2>6. \A i \in 1..Len(sent) : ~At(i, m)'
      <3> SUFFICES ASSUME NEW i \in 1..Len(sent), At(i, m)' PROVE FALSE
        OBVIOUS
      <3>1. sent[i] = p /\ BeforeExit(i)
        BY <1>2, <1>4, <1>5, <2>2 DEF At
      <3>2. PICK k \in 1..Len(spoken) : At(i, k)
        BY <1>8, <3>1 DEF OutputInv, SpokenInv, TotalInv
      <3>3. p.data = <<k>>
        BY <3>1, <3>2 DEF At, OutputInv, SpokenInv, NumberInv
      <3>4. k = m
        BY <2>1, <3>3
      <3>5. QED BY <1>2, <3>4
    <2>7. \A k \in 1..Len(spoken) : ~At(n, k)'
      <3> SUFFICES ASSUME NEW k \in 1..Len(spoken), At(n, k)' PROVE FALSE
        OBVIOUS
      <3>1. p = spoken[k]
        BY <1>2, <1>4, <2>2 DEF At
      <3>2. <<m>> = <<k>>
        BY <2>1, <3>1 DEF OutputInv, SpokenInv, NumberInv
      <3>3. m = k
        BY <3>2
      <3>4. QED BY <1>2, <3>3
    <2>8. \A i, k \in Nat : At(i, k)' <=> At(i, k) \/ (i = n /\ k = m)
      <3> SUFFICES ASSUME NEW i \in Nat, NEW k \in Nat
                   PROVE  At(i, k)' <=> At(i, k) \/ (i = n /\ k = m)
        OBVIOUS
      <3>1. CASE i \in 1..Len(sent) /\ k \in 1..Len(spoken)
        BY <1>2, <2>4, <3>1
      <3>2. CASE i \in 1..Len(sent) /\ k = m
        BY <1>2, <2>6, <3>2 DEF At
      <3>3. CASE i = n /\ k \in 1..Len(spoken)
        BY <1>2, <2>7, <3>3 DEF At
      <3>4. CASE i = n /\ k = m
        BY <2>5, <3>4
      <3>5. CASE ~(i \in 1..n /\ k \in 1..m)
        BY <1>2, <1>4, <2>2, <3>5 DEF At
      <3>6. QED BY <1>2, <3>1, <3>2, <3>3, <3>4, <3>5
    <2>9. OntoInv'
      <3> SUFFICES ASSUME NEW k \in 1..m PROVE \E i \in 1..n : At(i, k)'
        BY <1>2, <1>4, <2>2 DEF OntoInv
      <3>1. CASE k = m
        BY <1>2, <1>4, <2>5, <3>1
      <3>2. CASE k \in 1..Len(spoken)
        <4>1. PICK i \in 1..Len(sent) : At(i, k)
          BY <3>2 DEF OutputInv, SpokenInv, OntoInv
        <4>2. i \in 1..n
          BY <1>2
        <4>3. QED BY <2>4, <3>2, <4>1, <4>2
      <3>3. QED BY <1>2, <1>4, <3>1, <3>2
    <2>10. TotalInv'
      <3> SUFFICES ASSUME NEW i \in 1..n, sent'[i].kind \in Streams, BeforeExit(i)'
                   PROVE  \E k \in 1..m : At(i, k)'
        BY <1>2, <1>4, <2>2 DEF TotalInv
      <3>1. CASE i = n
        BY <1>2, <1>4, <2>5, <3>1
      <3>2. CASE i \in 1..Len(sent)
        <4>1. PICK k \in 1..Len(spoken) : At(i, k)
          BY <1>2, <1>4, <1>5, <3>2 DEF OutputInv, SpokenInv, TotalInv
        <4>2. k \in 1..m
          BY <1>2
        <4>3. QED BY <2>4, <3>2, <4>1, <4>2
      <3>3. QED BY <1>2, <3>1, <3>2
    <2>11. OrderInv'
      <3> SUFFICES ASSUME NEW i \in Nat, NEW j \in Nat, NEW k \in Nat, NEW l \in Nat,
                          At(i, k)', At(j, l)', i < j
                   PROVE  k < l
        BY DEF OrderInv
      <3>1. \A h, q \in Nat : At(h, q) => h < n /\ q < m
        BY <1>2 DEF At
      <3>2. (At(i, k) \/ (i = n /\ k = m)) /\ (At(j, l) \/ (j = n /\ l = m))
        BY <2>8
      <3>3. CASE At(i, k) /\ At(j, l)
        BY <3>3 DEF OutputInv, SpokenInv, OrderInv
      <3>4. QED BY <1>2, <1>4, <3>1, <3>2, <3>3
    <2>12. PrintInv'
      <3>1. Len(printed) \in Nat /\ Len(spoken) \in Nat
        BY <1>2
      <3>2. QED BY <1>2, <1>3, <2>2, <3>1 DEF OutputInv, PrintInv
    <2>13. TakenInv'
      <3> SUFFICES ASSUME pc # "exited"
                   PROVE  /\ result # "return_code"
                          /\ \A i \in 1..taken : sent'[i].kind # "Exited"
                          /\ \A i, k \in Nat : At(i, k)' => (i <= taken <=> k <= Len(printed))
        BY <1>3 DEF TakenInv
      <3>1. result # "return_code" /\ \A i \in 1..taken : sent'[i].kind # "Exited"
        BY <1>2, <1>4 DEF OutputInv, TakenInv
      <3>2. \A i, k \in Nat : At(i, k) => (i <= taken <=> k <= Len(printed))
        BY DEF OutputInv, TakenInv
      <3>3. ~(n <= taken) /\ ~(m <= Len(printed))
        <4>1. Len(printed) \in Nat /\ Len(printed) <= Len(spoken) /\ Len(spoken) \in Nat
          BY <1>2 DEF OutputInv, PrintInv
        <4>2. QED BY <1>2, <4>1
      <3>4. QED BY <2>8, <3>1, <3>2, <3>3
    <2>14. CodeInv'
      BY <1>3, <1>8 DEF OutputInv, CodeInv
    <2>15. IsPrefix(spoken, spoken')
      <3>1. spoken' \in Seq(Packets) /\ Len(spoken) <= Len(spoken')
        BY <1>2, <2>1
      <3>2. QED BY <1>2, <2>2, <3>1, PrefixByElements
    <2>16. OutputPipe!Write
      BY <1>3, <1>8, <2>15 DEF OutputPipe!Write, OutputPipe!IsPrefix, IsPrefix
    <2>17. QED
      BY <2>3, <2>9, <2>10, <2>11, <2>12, <2>13, <2>14, <2>16
      DEF OutputInv, SpokenInv, OutputPipe!Next
  <1>9. CASE ~(p.kind \in Streams /\ ~Remote!Said("Exited"))
    <2>1. spoken' = spoken
      BY <1>1, <1>9
    <2>2. \A i \in 1..Len(sent), k \in Nat : At(i, k)' <=> At(i, k)
      BY <1>2, <1>4, <1>5, <2>1 DEF At
    <2>3. \A k \in Nat : ~At(n, k)'
      <3> SUFFICES ASSUME NEW k \in Nat, At(n, k)' PROVE FALSE
        OBVIOUS
      <3>1. k \in 1..Len(spoken) /\ p = spoken[k] /\ BeforeExit(n)
        BY <1>2, <1>4, <1>5, <2>1 DEF At
      <3>2. QED BY <1>7, <1>9, <3>1 DEF OutputInv, SpokenInv, NumberInv
    <2>4. \A i, k \in Nat : At(i, k)' <=> At(i, k)
      <3> SUFFICES ASSUME NEW i \in Nat, NEW k \in Nat PROVE At(i, k)' <=> At(i, k)
        OBVIOUS
      <3>1. CASE i \in 1..Len(sent)
        BY <2>2, <3>1
      <3>2. CASE i = n
        BY <1>2, <2>3, <3>2 DEF At
      <3>3. CASE i \notin 1..n
        BY <1>2, <1>4, <3>3 DEF At
      <3>4. QED BY <1>2, <3>1, <3>2, <3>3
    <2>5. NumberInv' /\ OrderInv' /\ PrintInv'
      BY <1>3, <2>1, <2>4 DEF OutputInv, SpokenInv, NumberInv, OrderInv, PrintInv
    <2>6. OntoInv'
      <3> SUFFICES ASSUME NEW k \in 1..Len(spoken) PROVE \E i \in 1..n : At(i, k)'
        BY <1>2, <1>4, <2>1 DEF OntoInv
      <3>1. PICK i \in 1..Len(sent) : At(i, k)
        BY DEF OutputInv, SpokenInv, OntoInv
      <3>2. i \in 1..n
        BY <1>2
      <3>3. QED BY <2>2, <3>1, <3>2
    <2>7. TotalInv'
      <3> SUFFICES ASSUME NEW i \in 1..n, sent'[i].kind \in Streams, BeforeExit(i)'
                   PROVE  \E k \in 1..Len(spoken) : At(i, k)'
        BY <1>2, <1>4, <2>1 DEF TotalInv
      <3>1. i # n
        BY <1>2, <1>4, <1>5, <1>7, <1>9
      <3>2. i \in 1..Len(sent)
        BY <1>2, <3>1
      <3>3. PICK k \in 1..Len(spoken) : At(i, k)
        BY <1>2, <1>4, <1>5, <3>2 DEF OutputInv, SpokenInv, TotalInv
      <3>4. QED BY <2>2, <3>2, <3>3
    <2>8. TakenInv'
      <3>1. \A i \in 1..taken : sent'[i] = sent[i]
        BY <1>2, <1>4
      <3>2. QED BY <1>3, <2>4, <3>1 DEF OutputInv, TakenInv
    <2>9. CodeInv'
      BY <1>3, <1>6, <2>1 DEF OutputInv, CodeInv
    <2>10. CASE p.kind = "Exited" /\ ~Remote!Said("Exited")
      <3>1. IsPrefix(spoken, spoken')
        BY <1>2, <2>1, PrefixByElements
      <3>2. OutputPipe!Write
        BY <1>3, <2>10, <3>1 DEF OutputPipe!Write, OutputPipe!IsPrefix, IsPrefix
      <3>3. QED
        BY <2>5, <2>6, <2>7, <2>8, <2>9, <3>2 DEF OutputInv, SpokenInv, OutputPipe!Next
    <2>11. CASE ~(p.kind = "Exited" /\ ~Remote!Said("Exited"))
      <3>1. Remote!Said("Exited")' = Remote!Said("Exited")
        BY <1>6, <2>11 DEF Remote!Said
      <3>2. QED
        BY <1>3, <2>1, <2>5, <2>6, <2>7, <2>8, <2>9, <3>1 DEF OutputInv, SpokenInv
    <2>12. QED BY <2>10, <2>11
  <1>10. QED BY <1>8, <1>9

\* Output is taken in the order of its numbers: the next in the queue is the next to print.
LEMMA PrintKeeps ==
  ASSUME TypeOK, OutputInv, TakeOutput
  PROVE  OutputInv' /\ OutputPipe!Next
  <1>1. /\ sent \in Seq(Packets) /\ spoken \in Seq(Packets) /\ printed \in Seq(Packets)
        /\ taken \in Nat /\ taken < Len(sent) /\ Len(printed) \in Nat
    BY DEF TypeOK, TakeOutput, Queued
  <1>2. PICK i \in 1..Len(sent), q \in Nat : i = taken + 1 /\ q = Len(printed) + 1
    BY <1>1
  <1>3. /\ pc = "get" /\ sent[i].kind \in Streams /\ taken' = i
        /\ printed' = Append(printed, sent[i])
        /\ pc' # "exited" /\ UNCHANGED <<result, sent, spoken>>
    BY <1>2 DEF TakeOutput, Message, Taken, PrintLast, Goto, remoteVars
  <1>4. /\ result # "return_code"
        /\ \A j \in 1..taken : sent[j].kind # "Exited"
        /\ \A j, l \in Nat : At(j, l) => (j <= taken <=> l <= Len(printed))
    BY <1>3 DEF OutputInv, TakenInv
  <1>5. PICK k \in 1..Len(spoken) : At(i, k)
    <2>1. BeforeExit(i)
      BY <1>1, <1>2, <1>4 DEF BeforeExit
    <2>2. QED BY <1>3, <2>1 DEF OutputInv, SpokenInv, TotalInv
  <1>6. k = q
    <2>1. k > Len(printed)
      BY <1>1, <1>2, <1>4, <1>5
    <2>2. ASSUME k > q PROVE FALSE
      <3>1. q \in 1..Len(spoken)
        BY <1>1, <1>2, <2>2
      <3>2. PICK j \in 1..Len(sent) : At(j, q)
        BY <3>1 DEF OutputInv, SpokenInv, OntoInv
      <3>3. j > taken
        BY <1>1, <1>2, <1>4, <3>2
      <3>4. j # i
        <4>1. ASSUME j = i PROVE FALSE
          <5>1. At(i, q)
            BY <3>2, <4>1
          <5>2. q = k
            BY <1>1, <1>5, <5>1, OneNumber DEF OutputInv, SpokenInv
          <5>3. QED BY <1>2, <2>2, <5>2
        <4>2. QED BY <4>1
      <3>5. i < j
        BY <1>1, <1>2, <3>3, <3>4
      <3>6. k < q
        BY <1>1, <1>5, <3>2, <3>5 DEF OutputInv, SpokenInv, OrderInv
      <3>7. QED BY <1>1, <1>2, <2>2, <3>6
    <2>3. QED BY <1>1, <1>2, <2>1, <2>2
  <1>7. /\ At(i, q) /\ sent[i] = spoken[q] /\ q <= Len(spoken)
        /\ printed' \in Seq(Packets) /\ Len(printed') = q /\ printed'[q] = spoken[q]
        /\ \A l \in 1..Len(printed) : printed'[l] = printed[l]
    BY <1>1, <1>2, <1>3, <1>5, <1>6 DEF At
  <1>8. /\ SpokenInv' /\ Remote!Said("Exited")' = Remote!Said("Exited")
        /\ \A j, l \in Nat : At(j, l)' <=> At(j, l)
    BY <1>3, SameMessages DEF OutputInv
  <1>9. \A l \in 1..q : printed'[l] = spoken[l]
    <2>1. \A l \in 1..q : l \in 1..Len(printed) \/ l = q
      BY <1>1, <1>2
    <2>2. QED BY <1>7, <2>1 DEF OutputInv, PrintInv
  <1>10. PrintInv'
    BY <1>3, <1>7, <1>9 DEF PrintInv
  <1>11. TakenInv'
    <2>1. \A j \in 1..i : sent[j].kind # "Exited"
      <3>1. \A j \in 1..i : j \in 1..taken \/ j = i
        BY <1>1, <1>2
      <3>2. "Exited" \notin Streams
        BY DEF Streams, Remote!Streams
      <3>3. QED BY <1>3, <1>4, <3>1, <3>2
    <2>2. ASSUME NEW j \in Nat, NEW l \in Nat, At(j, l) PROVE j <= i <=> l <= q
      <3>1. CASE j <= taken
        BY <1>1, <1>2, <1>4, <2>2, <3>1
      <3>2. CASE j = i
        <4>1. At(i, l)
          BY <2>2, <3>2
        <4>2. l = q
          BY <1>2, <1>7, <4>1, OneNumber DEF OutputInv, SpokenInv
        <4>3. QED BY <1>2, <3>2, <4>2
      <3>3. CASE i < j
        <4>1. q < l
          BY <1>2, <1>7, <2>2, <3>3 DEF OutputInv, SpokenInv, OrderInv
        <4>2. QED BY <1>2, <2>2, <3>3, <4>1
      <3>4. QED BY <1>1, <1>2, <3>1, <3>2, <3>3
    <2>3. QED BY <1>3, <1>4, <1>7, <1>8, <2>1, <2>2 DEF TakenInv
  <1>12. CodeInv'
    BY <1>3, <1>4 DEF CodeInv
  <1>13. IsPrefix(printed, printed')
    <2>1. Len(printed) <= Len(printed')
      BY <1>1, <1>2, <1>7
    <2>2. QED BY <1>1, <1>7, <2>1, PrefixByElements
  <1>14. IsPrefix(printed', spoken)
    BY <1>1, <1>7, <1>9, PrefixByElements
  <1>15. OutputPipe!Read
    BY <1>3, <1>4, <1>8, <1>13, <1>14 DEF OutputPipe!Read, OutputPipe!IsPrefix, IsPrefix
  <1>16. QED BY <1>8, <1>10, <1>11, <1>12, <1>15 DEF OutputInv, OutputPipe!Next

\* When the exit is taken, all output before it has been taken, hence printed.
LEMMA ExitKeeps ==
  ASSUME TypeOK, OutputInv, TakeExited
  PROVE  OutputInv' /\ OutputPipe!Next
  <1>1. /\ sent \in Seq(Packets) /\ spoken \in Seq(Packets) /\ printed \in Seq(Packets)
        /\ taken \in Nat /\ taken < Len(sent) /\ Len(printed) \in Nat
    BY DEF TypeOK, TakeExited, Queued
  <1>2. PICK i \in 1..Len(sent) : i = taken + 1
    BY <1>1
  <1>3. /\ pc = "get" /\ sent[i].kind = "Exited" /\ pc' = "exited" /\ result' = "return_code"
        /\ UNCHANGED <<sent, spoken, printed>>
    BY <1>2 DEF TakeExited, Message, Exit, remoteVars
  <1>4. Remote!Said("Exited")
    BY <1>3 DEF Remote!Said
  <1>5. \A k \in 1..Len(spoken) : k <= Len(printed)
    <2> SUFFICES ASSUME NEW k \in 1..Len(spoken) PROVE k <= Len(printed)
      OBVIOUS
    <2>1. PICK j \in 1..Len(sent) : At(j, k)
      BY DEF OutputInv, SpokenInv, OntoInv
    <2>2. j # i
      <3>1. sent[j].kind \in Streams /\ "Exited" \notin Streams
        BY <2>1 DEF At, OutputInv, SpokenInv, NumberInv, Streams, Remote!Streams
      <3>2. QED BY <1>3, <3>1
    <2>3. ~(i < j)
      <3>1. \A h \in 1..(j - 1) : sent[h].kind # "Exited"
        BY <2>1 DEF At, BeforeExit
      <3>2. QED BY <1>3, <3>1
    <2>4. j <= taken
      BY <1>1, <1>2, <2>2, <2>3
    <2>5. \A h, l \in Nat : At(h, l) => (h <= taken <=> l <= Len(printed))
      BY <1>3 DEF OutputInv, TakenInv
    <2>6. QED BY <2>1, <2>4, <2>5
  <1>6. printed = spoken
    <2>1. Len(printed) = Len(spoken)
      <3>1. Len(printed) <= Len(spoken) /\ Len(spoken) \in Nat
        BY <1>1 DEF OutputInv, PrintInv
      <3>2. Len(spoken) = 0 \/ Len(spoken) \in 1..Len(spoken)
        BY <3>1
      <3>3. QED BY <1>1, <1>5, <3>1, <3>2
    <2>2. \A k \in 1..Len(printed) : printed[k] = spoken[k]
      BY DEF OutputInv, PrintInv
    <2>3. QED BY <1>1, <2>1, <2>2, SeqEqual
  <1>7. /\ SpokenInv' /\ Remote!Said("Exited")' = Remote!Said("Exited")
    BY <1>3, SameMessages DEF OutputInv
  <1>8. PrintInv' /\ TakenInv' /\ CodeInv'
    BY <1>3, <1>4, <1>6, <1>7 DEF OutputInv, PrintInv, TakenInv, CodeInv
  <1>9. OutputPipe!End
    BY <1>3, <1>4, <1>6, <1>7 DEF OutputPipe!End
  <1>10. QED BY <1>7, <1>8, <1>9 DEF OutputInv, OutputPipe!Next

\* All other steps leave the pipe alone: one that takes a message without printing it
\* leaves the initiator, or the message is the version.
LEMMA OthersKeepOutput ==
  ASSUME TypeOK, OutputInv, [Next]_vars, ~ListenerSays, ~TakeOutput, ~TakeExited
  PROVE  OutputInv' /\ UNCHANGED OutputPipe!pipeVars
  <1> USE DEF controlVars, inputVars, cutVars, saidVars, remoteVars, queueVars, winchVars,
              OutputPipe!pipeVars
  <1>1. ASSUME UNCHANGED <<sent, spoken, printed>>,
               (result' = result /\ (pc = "exited" => pc' = "exited"))
                 \/ (pc # "exited" /\ result' # "return_code"),
               taken' = taken \/ pc' = "exited"
        PROVE  OutputInv' /\ UNCHANGED OutputPipe!pipeVars
    <2>1. /\ SpokenInv' /\ Remote!Said("Exited")' = Remote!Said("Exited")
          /\ \A i, k \in Nat : At(i, k)' <=> At(i, k)
      BY <1>1, SameMessages DEF OutputInv
    <2>2. (result' = "return_code") = (result = "return_code")
      BY <1>1 DEF OutputInv, TakenInv
    <2>3. PrintInv' /\ CodeInv'
      BY <1>1, <2>1, <2>2 DEF OutputInv, PrintInv, CodeInv
    <2>4. TakenInv'
      BY <1>1, <2>1, <2>2 DEF OutputInv, TakenInv
    <2>5. QED BY <1>1, <2>1, <2>2, <2>3, <2>4 DEF OutputInv
  <1>2. CASE GetVersion
    <2>1. UNCHANGED <<sent, spoken, printed>> /\ pc = "reply"
      BY <1>2 DEF GetVersion
    <2>2. CASE Message.kind = "Version"
      <3>1. /\ taken \in Nat /\ taken' = taken + 1 /\ sent[taken + 1].kind = "Version"
            /\ UNCHANGED result /\ pc # "exited"
        BY <1>2, <2>1, <2>2 DEF GetVersion, Message, Taken, Goto, TypeOK
      <3>2. /\ SpokenInv' /\ Remote!Said("Exited")' = Remote!Said("Exited")
            /\ \A i, k \in Nat : At(i, k)' <=> At(i, k)
        BY <2>1, SameMessages DEF OutputInv
      <3>3. \A k \in Nat : ~At(taken + 1, k)
        BY <3>1 DEF At, OutputInv, SpokenInv, NumberInv, Streams, Remote!Streams
      <3>4. \A i, k \in Nat : At(i, k) => (i <= taken + 1 <=> k <= Len(printed))
        <4>1. \A i, k \in Nat : At(i, k) => (i <= taken <=> k <= Len(printed))
          BY <3>1 DEF OutputInv, TakenInv
        <4>2. \A i \in Nat : i <= taken + 1 <=> i <= taken \/ i = taken + 1
          BY <3>1
        <4>3. QED BY <3>3, <4>1, <4>2
      <3>5. \A i \in 1..(taken + 1) : sent[i].kind # "Exited"
        <4>1. \A i \in 1..(taken + 1) : i \in 1..taken \/ i = taken + 1
          BY <3>1
        <4>2. QED BY <3>1, <4>1 DEF OutputInv, TakenInv
      <3>6. TakenInv'
        BY <2>1, <3>1, <3>2, <3>4, <3>5 DEF OutputInv, TakenInv
      <3>7. PrintInv' /\ CodeInv'
        BY <2>1, <3>1, <3>2 DEF OutputInv, PrintInv, CodeInv
      <3>8. QED BY <2>1, <3>1, <3>2, <3>6, <3>7 DEF OutputInv
    <2>3. CASE Message.kind # "Version"
      <3>1. pc' = "exited" /\ result' = "unhandled"
        BY <1>2, <2>3 DEF GetVersion, Exit
      <3>2. QED BY <1>1, <2>1, <3>1
    <2>4. QED BY <2>2, <2>3
  <1>3. CASE TakeError
    BY <1>1, <1>3 DEF TakeError, Exit
  <1>4. CASE InitiatorStep /\ ~GetVersion /\ ~TakeError
    <2>1. UNCHANGED <<sent, spoken, printed, taken>> /\ pc # "exited"
      BY <1>4
      DEF InitiatorStep, ConnectFails, Connected, SendVersion, NoVersion, GiveUp,
          SendExecute, CreateFinished, LoopTop, NoMessage, CutStdin, SkipStdin, SendStdin,
          SendWinch, Raised, Cancelled, Goto, Exit
    <2>2. result' # "return_code"
      <3>1. result # "return_code"
        BY <2>1 DEF OutputInv, TakenInv
      <3>2. QED
        BY <1>4, <3>1
        DEF InitiatorStep, ConnectFails, Connected, SendVersion, NoVersion, GiveUp,
            SendExecute, CreateFinished, LoopTop, NoMessage, CutStdin, SkipStdin, SendStdin,
            SendWinch, Raised, Cancelled, Goto, Exit
    <2>3. QED BY <1>1, <2>1, <2>2
  <1>5. CASE Environment
    <2>1. UNCHANGED <<sent, spoken, printed, taken, pc, result>>
      BY <1>5
      DEF Environment, ReadStdin, EscapeQuit, Interrupt, Winch, LinkUp, LinkDown,
          LinkClosed, Hear, CommandRuns, Remote!Start, Remote!End
    <2>2. QED BY <1>1, <2>1
  <1>6. CASE UNCHANGED vars
    BY <1>1, <1>6 DEF vars
  <1>7. QED BY <1>2, <1>3, <1>4, <1>5, <1>6 DEF Next

\* The command's output is a pipe from the session to os.write, whose end is the return
\* of the command's code, for any messages in the queue and any moment at which a
\* signal, an error or a lost link ends the loop (initiator.py:419-451).
THEOREM OutputKeptHolds == Spec => OutputKept
  <1>1. Init => TypeOK /\ OutputInv
    BY InitType, InitOutput
  <1>2. TypeOK /\ OutputInv /\ [Next]_vars
          => (TypeOK /\ OutputInv)' /\ [OutputPipe!Next]_OutputPipe!pipeVars
    BY NextType, SayKeeps, PrintKeeps, ExitKeeps, OthersKeepOutput
  <1>3. Init => OutputPipe!Init
    BY DEF Init, OutputPipe!Init
  <1>4. QED BY <1>1, <1>2, <1>3, PTL DEF Spec, OutputKept, OutputPipe!Spec
=============================================================================
