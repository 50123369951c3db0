------------------------- MODULE SessionOutputProofs -------------------------
(***************************************************************************)
(* Theorems about what a ListenerSession says on its channel: output is    *)
(* conserved from the command's buffers to the messages, and the session   *)
(* implements RemoteSession, the promise the initiator relies on.  For     *)
(* every set of identities, every option, every window and every bound.    *)
(***************************************************************************)
EXTENDS ListenerSessionProofs

(***************************************************************************)
(* Sending appends one packet to the history.                              *)
(***************************************************************************)
LEMMA AppendPacket ==
  ASSUME NEW s \in Seq(Packets), NEW p \in Packets
  PROVE  /\ Append(s, p) \in Seq(Packets)
         /\ Len(Append(s, p)) = Len(s) + 1
         /\ Len(s) \in Nat
         /\ Append(s, p)[Len(s) + 1] = p
         /\ \A i \in 1..Len(s) : Append(s, p)[i] = s[i]
         /\ \A i \in 1..Len(Append(s, p)) : i \in 1..Len(s) \/ i = Len(s) + 1
  OBVIOUS

LEMMA PacketFields ==
  ASSUME NEW k \in SentKinds, NEW d \in Seq(Nat)
  PROVE  Packet(k, d) \in Packets /\ Packet(k, d).kind = k /\ Packet(k, d).data = d
  BY DEF Packet, Packets

LEMMA SaidAfter ==
  ASSUME TypeOK, NEW k \in SentKinds, NEW d \in Seq(Nat),
         sent' = Append(sent, Packet(k, d)), NEW kind
  PROVE  Remote!Said(kind)' <=> Remote!Said(kind) \/ kind = k
  <1>1. sent \in Seq(Packets) /\ Packet(k, d) \in Packets /\ Packet(k, d).kind = k
    BY PacketFields DEF TypeOK
  <1>2. QED BY <1>1, AppendPacket DEF Remote!Said

\* A buffer that grows keeps what it holds where it is.
LEMMA AppendChunk ==
  ASSUME NEW b \in Seq(Nat), NEW e \in Nat
  PROVE  /\ Len(Append(b, e)) = Len(b) + 1 /\ Len(b) \in Nat
         /\ Append(b, e)[Len(b) + 1] = e
         /\ \A j \in 1..Len(b) : Append(b, e)[j] = b[j]
         /\ \A j \in 1..Len(Append(b, e)) : j \in 1..Len(b) \/ j = Len(b) + 1
  OBVIOUS

LEMMA ConcatChunks ==
  ASSUME NEW b \in Seq(Nat), NEW u \in Seq(Nat)
  PROVE  /\ Len(b \o u) = Len(b) + Len(u) /\ Len(b) \in Nat /\ Len(u) \in Nat
         /\ \A j \in 1..Len(b) : (b \o u)[j] = b[j]
         /\ \A j \in 1..Len(b \o u) :
              j > Len(b) => j - Len(b) \in 1..Len(u) /\ (b \o u)[j] = u[j - Len(b)]
  OBVIOUS

(***************************************************************************)
(* What each step may say.                                                 *)
(***************************************************************************)

\* terminate() says an error or nothing.
ErrorOrNothing == sent' \in {sent, Append(sent, Packet("Error", <<>>))}

LEMMA TerminateSays ==
  ASSUME NEW error \in BOOLEAN, Terminate(error)
  PROVE  ErrorOrNothing
  BY DEF Terminate, TrySend, Send, channelVars, ErrorOrNothing

\* A step that leaves the output of the command where it is.
Aside ==
  /\ UNCHANGED <<buf, delivered>>
  /\ UNCHANGED pumpVars \/ (ppc \notin Streams /\ ppc' \notin Streams)
  /\ \/ sent' = sent
     \/ \E k \in SentKinds \ Streams : sent' = Append(sent, Packet(k, <<>>))

LEMMA StepsAside ==
  ASSUME TypeOK, Next
  PROVE  \/ Aside \/ HandleStdin \/ PumpSendStream
         \/ \E s \in Streams : PumpStream(s) \/ ReadOutput(s)
  <1> USE DEF sessionVars, identityVars, handlerVars, childVars, outputVars,
              bufVars, pumpVars, timerVars, channelVars, envVars, OutsideTerminate
  <1>1. ErrorOrNothing =>
          \/ sent' = sent
          \/ \E k \in SentKinds \ Streams : sent' = Append(sent, Packet(k, <<>>))
    BY DEF ErrorOrNothing, SentKinds, Streams
  <1>2. {"Version", "Noop", "Exited"} \subseteq SentKinds \ Streams
    BY DEF SentKinds, Streams
  <1>3. CASE HandlerStep
    <2>1. CASE RejectIdentity \/ HandlerTerminate \/ Spawn
      <3>1. CASE Terminate(TRUE) /\ UNCHANGED OutsideTerminate
        BY <1>1, <3>1, TerminateSays DEF Aside
      <3>2. CASE UNCHANGED <<outputVars, channelVars>>
        BY <3>2 DEF Aside
      <3>3. QED BY <2>1, <3>1, <3>2 DEF RejectIdentity, HandlerTerminate, Spawn
    <2>2. CASE HandleVersion
      BY <1>2, <2>2 DEF HandleVersion, VersionReply, Send, Aside
    <2>3. CASE HandleNoop
      BY <1>2, <2>3 DEF HandleNoop, TrySend, Send, Aside
    <2>4. QED
      BY <1>3, <2>1, <2>2, <2>3
      DEF HandlerStep, AcceptIdentity, Dispatch, HandleExecute, StartCmd, Aside
  <1>4. CASE LoopStep
    <2>1. CASE PumpExit
      BY <2>1 DEF PumpExit, LoopIdle, Streams, Aside
    <2>2. CASE PumpSendExit
      BY <1>2, <2>2 DEF PumpSendExit, Send, Streams, Aside
    <2>3. CASE Shutdown
      BY <1>1, <2>3, TerminateSays DEF Shutdown, Aside
    <2>4. ASSUME NEW f \in LeftStates, CheckProtocolTimeout(f) PROVE Aside
      BY <1>1, <2>4, TerminateSays DEF CheckProtocolTimeout, Aside
    <2>5. CASE PollReaps \/ EnsureTerminate \/ Prune
      BY <2>5 DEF PollReaps, EnsureTerminate, Prune, Aside
    <2>6. QED BY <1>4, <2>1, <2>2, <2>3, <2>4, <2>5 DEF LoopStep
  <1>5. CASE Environment
    <2>1. CASE LinkClosed
      BY <1>1, <2>1, TerminateSays DEF LinkClosed, Aside
    <2>2. QED
      BY <1>5, <2>1 DEF Environment, InitiatorIdentified, HandleMessage, WaiterReaps,
         ChildWrites, ChildExits, Prove, LinkDown, Aside
  <1>6. QED BY <1>3, <1>4, <1>5 DEF Next

(***************************************************************************)
(* The order of the output.                                                *)
(***************************************************************************)

\* A buffer is in order, holds what has been delivered, and follows what was sent.
OrderInv ==
  \A s \in Streams :
    /\ Remote!Increasing(buf[s])
    /\ \A j \in 1..Len(buf[s]) : buf[s][j] <= delivered[s]
    /\ \A i \in 1..Len(sent) : sent[i].kind = s =>
         /\ Remote!Before(sent[i].data, buf[s])
         /\ \A j \in 1..Len(sent[i].data) : sent[i].data[j] <= delivered[s]

\* While pump is about to send, its chunk and the rest are the buffer still, but for
\* input that has been echoed meanwhile.
CutInv ==
  ppc \in Streams =>
    /\ Len(chunk) + Len(rest) <= Len(buf[ppc])
    /\ \A j \in 1..Len(chunk) : chunk[j] = buf[ppc][j]
    /\ \A j \in 1..Len(rest) : rest[j] = buf[ppc][Len(chunk) + j]
    /\ \A j \in 1..Len(buf[ppc]) :
         j > Len(chunk) + Len(rest) => buf[ppc][j] = Echo

FlowInv == OrderInv /\ CutInv

LEMMA InitFlow == Init => FlowInv
  BY DEF Init, FlowInv, OrderInv, CutInv, Streams, Remote!Increasing, Remote!Before

\* Messages that carry no output of s do not matter to its order.
LEMMA SentElsewhere ==
  ASSUME TypeOK, NEW s \in Streams, NEW k \in SentKinds, NEW d \in Seq(Nat), k # s,
         sent' \in {sent, Append(sent, Packet(k, d))}
  PROVE  \A i \in 1..Len(sent') :
           sent'[i].kind = s => i \in 1..Len(sent) /\ sent'[i] = sent[i]
  <1>1. sent \in Seq(Packets) /\ Packet(k, d) \in Packets /\ Packet(k, d).kind = k
    BY PacketFields DEF TypeOK
  <1>2. QED BY <1>1, AppendPacket

LEMMA NextOrder ==
  ASSUME TypeOK, FlowInv, Next
  PROVE  OrderInv'
  <1> USE DEF FlowInv, OrderInv, pumpVars, bufVars, channelVars
  <1>b. \A s \in Streams : buf[s] \in Seq(Nat) /\ Len(buf[s]) \in Nat
    BY DEF TypeOK
  <1>1. CASE Aside
    <2> SUFFICES ASSUME NEW s \in Streams
                 PROVE  /\ Remote!Increasing(buf[s])
                        /\ \A j \in 1..Len(buf[s]) : buf[s][j] <= delivered[s]
                        /\ \A i \in 1..Len(sent') : sent'[i].kind = s =>
                             /\ Remote!Before(sent'[i].data, buf[s])
                             /\ \A j \in 1..Len(sent'[i].data) :
                                  sent'[i].data[j] <= delivered[s]
      BY <1>1 DEF Aside
    <2>1. PICK k \in SentKinds \ Streams : sent' \in {sent, Append(sent, Packet(k, <<>>))}
      BY <1>1 DEF Aside, SentKinds, Streams
    <2>2. <<>> \in Seq(Nat) /\ k # s
      OBVIOUS
    <2>3. QED BY <2>1, <2>2, SentElsewhere
  <1>2. CASE HandleStdin
    <2>1. sent' = sent /\ delivered' = delivered
      BY <1>2 DEF HandleStdin
    <2>2. CASE UNCHANGED buf
      BY <2>1, <2>2
    <2>3. CASE buf' = [buf EXCEPT !["stdout"] = Append(@, Echo)]
      <3>1. ASSUME NEW s \in Streams, NEW j \in 1..Len(buf'[s])
            PROVE  \/ j \in 1..Len(buf[s]) /\ buf'[s][j] = buf[s][j]
                   \/ buf'[s][j] = Echo
        <4>1. CASE s = "stdout"
          <5>1. buf'[s] = Append(buf[s], Echo)
            BY <2>3, <4>1 DEF TypeOK
          <5>2. Echo \in Nat
            BY DEF Echo
          <5>3. QED BY <1>b, <5>1, <5>2, AppendChunk
        <4>2. CASE s # "stdout"
          BY <2>3, <4>2 DEF TypeOK
        <4>3. QED BY <4>1, <4>2
      <3>2. ASSUME NEW s \in Streams
            PROVE  /\ Remote!Increasing(buf'[s])
                   /\ \A j \in 1..Len(buf'[s]) : buf'[s][j] <= delivered[s]
                   /\ \A i \in 1..Len(sent) : sent[i].kind = s =>
                        Remote!Before(sent[i].data, buf'[s])
        <4>1. Remote!Increasing(buf'[s])
          BY <3>1 DEF Remote!Increasing, Remote!Echo, Echo
        <4>2. \A j \in 1..Len(buf'[s]) : buf'[s][j] <= delivered[s]
          <5>1. delivered[s] \in Nat
            BY DEF TypeOK
          <5>2. QED BY <3>1, <5>1 DEF Echo
        <4>3. \A i \in 1..Len(sent) : sent[i].kind = s =>
                Remote!Before(sent[i].data, buf'[s])
          BY <3>1 DEF Remote!Before, Remote!Echo, Echo
        <4>4. QED BY <4>1, <4>2, <4>3
      <3>3. QED BY <2>1, <3>2
    <2>4. QED BY <1>2, <2>2, <2>3 DEF HandleStdin
  <1>3. ASSUME NEW s \in Streams, PumpStream(s) PROVE OrderInv'
    BY <1>3 DEF PumpStream
  <1>4. CASE PumpSendStream
    <2>1. ppc \in Streams /\ ppc \in SentKinds /\ chunk \in Seq(Nat) /\ rest \in Seq(Nat)
      BY <1>4 DEF PumpSendStream, SentKinds, TypeOK
    <2>2. sent' \in {sent, Append(sent, Packet(ppc, chunk))}
      BY <1>4 DEF PumpSendStream, TrySend, Send
    <2>3. delivered' = delivered /\ buf' = [buf EXCEPT ![ppc] = rest]
      BY <1>4 DEF PumpSendStream
    <2>4. ASSUME NEW s \in Streams, s # ppc
          PROVE  /\ Remote!Increasing(buf'[s])
                 /\ \A j \in 1..Len(buf'[s]) : buf'[s][j] <= delivered[s]
                 /\ \A i \in 1..Len(sent') : sent'[i].kind = s =>
                      /\ Remote!Before(sent'[i].data, buf'[s])
                      /\ \A j \in 1..Len(sent'[i].data) :
                           sent'[i].data[j] <= delivered[s]
      <3>1. buf'[s] = buf[s]
        BY <2>3, <2>4 DEF TypeOK
      <3>2. QED BY <2>1, <2>2, <2>4, <3>1, SentElsewhere
    <2>5. buf'[ppc] = rest
      BY <2>1, <2>3 DEF TypeOK
    <2>6. Len(chunk) \in Nat /\ Len(rest) \in Nat /\ Len(buf[ppc]) \in Nat
      BY <1>b, <2>1
    <2>7. \A j \in 1..Len(rest) :
            Len(chunk) + j \in 1..Len(buf[ppc]) /\ rest[j] = buf[ppc][Len(chunk) + j]
      BY <2>1, <2>6 DEF CutInv
    <2>8. \A j \in 1..Len(chunk) : j \in 1..Len(buf[ppc]) /\ chunk[j] = buf[ppc][j]
      BY <2>1, <2>6 DEF CutInv
    <2>9. Remote!Increasing(rest)
      <3>1. \A i, j \in 1..Len(rest) : i < j => Len(chunk) + i < Len(chunk) + j
        BY <2>6
      <3>2. QED BY <2>1, <2>7, <3>1 DEF Remote!Increasing
    <2>10. \A j \in 1..Len(rest) : rest[j] <= delivered[ppc]
      BY <2>1, <2>7
    <2>11. \A i \in 1..Len(sent) : sent[i].kind = ppc => Remote!Before(sent[i].data, rest)
      BY <2>1, <2>7 DEF Remote!Before
    <2>12. Remote!Before(chunk, rest)
      <3>1. \A i \in 1..Len(chunk), j \in 1..Len(rest) : i < Len(chunk) + j
        BY <2>6
      <3>2. QED BY <2>1, <2>7, <2>8, <3>1 DEF Remote!Increasing, Remote!Before
    <2>13. \A j \in 1..Len(chunk) : chunk[j] <= delivered[ppc]
      BY <2>1, <2>8
    <2>14. \A i \in 1..Len(sent') : sent'[i].kind = ppc =>
             /\ Remote!Before(sent'[i].data, rest)
             /\ \A j \in 1..Len(sent'[i].data) : sent'[i].data[j] <= delivered[ppc]
      <3>1. Packet(ppc, chunk) \in Packets /\ Packet(ppc, chunk).data = chunk
        BY <2>1, PacketFields
      <3>2. sent \in Seq(Packets)
        BY DEF TypeOK
      <3>3. \A i \in 1..Len(sent') :
              (i \in 1..Len(sent) /\ sent'[i] = sent[i]) \/ sent'[i].data = chunk
        BY <2>2, <3>1, <3>2, AppendPacket
      <3>4. QED BY <2>1, <2>11, <2>12, <2>13, <3>3
    <2>15. QED BY <2>1, <2>3, <2>4, <2>5, <2>9, <2>10, <2>14
  <1>5. ASSUME NEW s \in Streams, ReadOutput(s) PROVE OrderInv'
    <2>1. sent' = sent
      BY <1>5 DEF ReadOutput
    <2>2. produced[s] \in Nat /\ delivered[s] \in Nat /\ delivered[s] < produced[s]
      BY <1>5 DEF ReadOutput, TypeOK
    <2>3. \A t \in Streams : t # s => buf'[t] = buf[t] /\ delivered'[t] = delivered[t]
      BY <1>5 DEF ReadOutput, TypeOK
    <2>4. buf'[s] = buf[s] \o Unread(s) /\ delivered'[s] = produced[s]
      BY <1>5 DEF ReadOutput, TypeOK
    <2>5. /\ Unread(s) \in Seq(Nat)
          /\ Len(Unread(s)) = produced[s] - delivered[s]
          /\ \A i \in 1..(produced[s] - delivered[s]) : Unread(s)[i] = delivered[s] + i
      <3>1. produced[s] - delivered[s] \in Nat
        BY <2>2
      <3>2. QED BY <2>2, <3>1 DEF Unread
    <2>6. \A j \in 1..Len(buf[s]) :
            buf'[s][j] = buf[s][j] /\ buf'[s][j] \in Nat /\ buf'[s][j] <= delivered[s]
      BY <1>b, <2>4, <2>5, ConcatChunks
    <2>7. ASSUME NEW j \in 1..Len(buf'[s]), j > Len(buf[s])
          PROVE  /\ buf'[s][j] = delivered[s] + (j - Len(buf[s]))
                 /\ buf'[s][j] \in Nat /\ buf'[s][j] > delivered[s]
                 /\ buf'[s][j] <= produced[s]
      <3>1. /\ j - Len(buf[s]) \in 1..Len(Unread(s))
            /\ buf'[s][j] = Unread(s)[j - Len(buf[s])]
        BY <1>b, <2>4, <2>5, <2>7, ConcatChunks
      <3>2. j - Len(buf[s]) \in 1..(produced[s] - delivered[s])
        BY <2>5, <3>1
      <3>3. buf'[s][j] = delivered[s] + (j - Len(buf[s]))
        BY <2>5, <3>1, <3>2
      <3>4. QED BY <2>2, <3>2, <3>3
    <2>a. \A j \in 1..Len(buf'[s]) : j \in 1..Len(buf[s]) \/ j > Len(buf[s])
      BY <1>b
    <2>8. \A j \in 1..Len(buf'[s]) : buf'[s][j] <= produced[s]
      BY <2>2, <2>6, <2>7, <2>a
    <2>9. Remote!Increasing(buf'[s])
      <3> SUFFICES ASSUME NEW i \in 1..Len(buf'[s]), NEW j \in 1..Len(buf'[s]), i < j,
                          buf'[s][i] # Remote!Echo, buf'[s][j] # Remote!Echo
                   PROVE  buf'[s][i] < buf'[s][j]
        BY DEF Remote!Increasing
      <3>1. CASE j \in 1..Len(buf[s])
        <4>1. i \in 1..Len(buf[s])
          BY <1>b, <3>1
        <4>2. QED BY <2>6, <3>1, <4>1 DEF Remote!Increasing
      <3>2. CASE j > Len(buf[s])
        <4>1. CASE i \in 1..Len(buf[s])
          BY <2>2, <2>6, <2>7, <3>2, <4>1
        <4>2. CASE i > Len(buf[s])
          BY <1>b, <2>2, <2>7, <3>2, <4>2
        <4>3. QED BY <2>a, <4>1, <4>2
      <3>3. QED BY <2>a, <3>1, <3>2
    <2>10. ASSUME NEW i \in 1..Len(sent), sent[i].kind = s
           PROVE  /\ Remote!Before(sent[i].data, buf'[s])
                  /\ \A j \in 1..Len(sent[i].data) : sent[i].data[j] <= produced[s]
      <3> DEFINE d == sent[i].data
      <3>1. d \in Seq(Nat)
        <4>1. sent[i] \in Packets
          BY DEF TypeOK
        <4>2. QED BY <4>1 DEF Packets
      <3>2. \A j \in 1..Len(d) : d[j] \in Nat /\ d[j] <= delivered[s]
        BY <2>10, <3>1
      <3>3. Remote!Before(d, buf[s])
        BY <2>10
      <3> HIDE DEF d
      <3>4. \A j \in 1..Len(d) : d[j] <= produced[s]
        BY <2>2, <3>2
      <3>5. Remote!Before(d, buf'[s])
        <4> SUFFICES ASSUME NEW k \in 1..Len(d), NEW j \in 1..Len(buf'[s]),
                            d[k] # Remote!Echo, buf'[s][j] # Remote!Echo
                     PROVE  d[k] < buf'[s][j]
          BY DEF Remote!Before
        <4>1. CASE j \in 1..Len(buf[s])
          BY <2>6, <3>3, <4>1 DEF Remote!Before
        <4>2. CASE j > Len(buf[s])
          BY <2>2, <2>7, <3>2, <4>2
        <4>3. QED BY <2>a, <4>1, <4>2
      <3>6. QED BY <3>4, <3>5 DEF d
    <2>11. QED BY <2>1, <2>3, <2>4, <2>8, <2>9, <2>10
  <1>6. QED BY <1>1, <1>2, <1>3, <1>4, <1>5, StepsAside

LEMMA NextCut ==
  ASSUME TypeOK, FlowInv, Next
  PROVE  CutInv'
  <1> USE DEF FlowInv, CutInv, pumpVars, bufVars
  <1>b. \A s \in Streams : buf[s] \in Seq(Nat) /\ Len(buf[s]) \in Nat
    BY DEF TypeOK
  <1>1. CASE Aside
    BY <1>1 DEF Aside
  <1>2. CASE HandleStdin
    <2>1. UNCHANGED pumpVars
      BY <1>2 DEF HandleStdin
    <2>2. CASE UNCHANGED buf
      BY <2>1, <2>2
    <2>3. CASE buf' = [buf EXCEPT !["stdout"] = Append(@, Echo)] /\ ppc \in Streams
      <3>1. CASE ppc = "stdout"
        <4>1. buf'[ppc] = Append(buf[ppc], Echo) /\ Echo \in Nat
          BY <2>3, <3>1 DEF TypeOK, Echo
        <4>2. /\ Len(buf'[ppc]) = Len(buf[ppc]) + 1
              /\ \A j \in 1..Len(buf[ppc]) : buf'[ppc][j] = buf[ppc][j]
              /\ \A j \in 1..Len(buf'[ppc]) :
                   j \in 1..Len(buf[ppc]) \/ buf'[ppc][j] = Echo
          BY <1>b, <2>3, <4>1, AppendChunk
        <4>3. Len(chunk) \in Nat /\ Len(rest) \in Nat
          BY DEF TypeOK
        <4>4. \A j \in 1..Len(chunk) : j \in 1..Len(buf[ppc])
          BY <1>b, <2>3, <4>3
        <4>5. \A j \in 1..Len(rest) : Len(chunk) + j \in 1..Len(buf[ppc])
          BY <1>b, <2>3, <4>3
        <4>6. Len(chunk) + Len(rest) <= Len(buf'[ppc])
          BY <1>b, <2>3, <4>2, <4>3
        <4>7. QED BY <2>1, <2>3, <4>2, <4>4, <4>5, <4>6
      <3>2. CASE ppc # "stdout"
        <4>1. buf'[ppc] = buf[ppc]
          BY <2>3, <3>2 DEF TypeOK
        <4>2. QED BY <2>1, <4>1
      <3>3. QED BY <3>1, <3>2
    <2>4. QED BY <1>2, <2>1, <2>2, <2>3 DEF HandleStdin
  <1>3. ASSUME NEW s \in Streams, PumpStream(s) PROVE CutInv'
    <2>1. PICK n \in 1..Len(buf[s]) :
            chunk' = SubSeq(buf[s], 1, n) /\ rest' = SubSeq(buf[s], n + 1, Len(buf[s]))
      BY <1>3 DEF PumpStream, Prefix, Remainder
    <2>2. buf' = buf /\ ppc' = s
      BY <1>3 DEF PumpStream
    <2>3. buf[s] \in Seq(Nat) /\ n \in Nat /\ n <= Len(buf[s]) /\ Len(buf[s]) \in Nat
      BY <1>b
    <2>4. Len(chunk') = n /\ \A j \in 1..n : chunk'[j] = buf[s][j]
      BY <2>1, <2>3
    <2>5. /\ Len(rest') = Len(buf[s]) - n
          /\ \A j \in 1..(Len(buf[s]) - n) : rest'[j] = buf[s][n + j]
      BY <2>1, <2>3
    <2>6. Len(chunk') + Len(rest') = Len(buf[s])
      BY <2>3, <2>4, <2>5
    <2>7. QED BY <2>2, <2>3, <2>4, <2>5, <2>6
  <1>4. CASE PumpSendStream
    BY <1>4 DEF PumpSendStream, Streams
  <1>5. ASSUME NEW s \in Streams, ReadOutput(s) PROVE CutInv'
    BY <1>5 DEF ReadOutput, LoopIdle, Streams
  <1>6. QED BY <1>1, <1>2, <1>3, <1>4, <1>5, StepsAside

LEMMA FlowInvariant == Spec => []FlowInv
  <1>1. TypeOK /\ FlowInv /\ [Next]_vars => FlowInv'
    <2> SUFFICES ASSUME TypeOK, FlowInv, [Next]_vars PROVE FlowInv'
      OBVIOUS
    <2>1. CASE Next
      BY <2>1, NextOrder, NextCut DEF FlowInv
    <2>2. CASE UNCHANGED vars
      BY <2>2 DEF FlowInv, OrderInv, CutInv, vars, outputVars, bufVars, pumpVars,
                  channelVars
    <2>3. QED BY <2>1, <2>2
  <1>2. QED BY <1>1, InitFlow, TypeCorrect, PTL DEF Spec

(***************************************************************************)
(* Conservation.                                                           *)
(***************************************************************************)

\* Nothing has gone wrong that may cost output.
Lossless == ~terminated /\ link = "active" /\ ~AnsweredNoop

\* The window that pump found open stays open until its send.
RoomInv == ppc \in Streams /\ Lossless => outstanding < Window

\* What has been said stays said.
LEMMA SentGrows ==
  ASSUME TypeOK, Next
  PROVE  sent' = sent \/ \E p \in Packets : sent' = Append(sent, p)
  <1>1. CASE Aside
    <2>1. \A k \in SentKinds : Packet(k, <<>>) \in Packets
      <3>1. <<>> \in Seq(Nat)
        OBVIOUS
      <3>2. QED BY <3>1, PacketFields
    <2>2. QED BY <1>1, <2>1 DEF Aside
  <1>2. CASE PumpSendStream
    <2>1. ppc \in SentKinds /\ chunk \in Seq(Nat)
      BY <1>2 DEF PumpSendStream, SentKinds, TypeOK
    <2>2. Packet(ppc, chunk) \in Packets
      BY <2>1, PacketFields
    <2>3. QED BY <1>2, <2>2 DEF PumpSendStream, TrySend, Send, channelVars
  <1>3. CASE HandleStdin \/ \E s \in Streams : PumpStream(s) \/ ReadOutput(s)
    BY <1>3 DEF HandleStdin, PumpStream, ReadOutput, channelVars
  <1>4. QED BY <1>1, <1>2, <1>3, StepsAside

LEMMA SentStays ==
  ASSUME TypeOK, Next
  PROVE  /\ Len(sent) \in Nat /\ Len(sent') \in Nat /\ Len(sent) <= Len(sent')
         /\ \A i \in 1..Len(sent) : i \in 1..Len(sent') /\ sent'[i] = sent[i]
  <1>1. sent \in Seq(Packets)
    BY DEF TypeOK
  <1>2. CASE sent' = sent
    BY <1>1, <1>2
  <1>3. ASSUME NEW p \in Packets, sent' = Append(sent, p)
        PROVE  /\ Len(sent) \in Nat /\ Len(sent') \in Nat /\ Len(sent) <= Len(sent')
               /\ \A i \in 1..Len(sent) : i \in 1..Len(sent') /\ sent'[i] = sent[i]
    <2>1. Len(sent') = Len(sent) + 1 /\ Len(sent) \in Nat
      BY <1>1, <1>3, AppendPacket
    <2>2. \A i \in 1..Len(sent) : sent'[i] = sent[i]
      BY <1>1, <1>3, AppendPacket
    <2>3. QED BY <2>1, <2>2
  <1>4. QED BY <1>2, <1>3, SentGrows

\* A session that is dead, or whose link has closed, stays so.
LEMMA DeadStays ==
  ASSUME TypeOK, Next
  PROVE  (terminated => terminated') /\ (link = "closed" => link' = "closed")
  <1> USE DEF sessionVars, identityVars, envVars, OutsideTerminate
  <1>1. CASE HandlerStep
    BY <1>1 DEF HandlerStep, AcceptIdentity, RejectIdentity, Dispatch, HandlerTerminate,
       HandleVersion, HandleExecute, StartCmd, Spawn, HandleStdin, HandleNoop, Terminate
  <1>2. CASE LoopStep
    BY <1>2 DEF LoopStep, PumpStream, PumpSendStream, PumpExit, PumpSendExit, ReadOutput,
       PollReaps, EnsureTerminate, CheckProtocolTimeout, Prune, Shutdown, Terminate
  <1>3. CASE Environment
    <2>1. CASE LinkClosed
      BY <2>1 DEF LinkClosed, Terminate
    <2>2. CASE LinkDown
      BY <2>2 DEF LinkDown
    <2>3. ASSUME NEW i \in Identities, InitiatorIdentified(i)
          PROVE  UNCHANGED <<terminated, link>>
      BY <2>3 DEF InitiatorIdentified
    <2>4. ASSUME NEW m \in Messages, HandleMessage(m)
          PROVE  UNCHANGED <<terminated, link>>
      BY <2>4 DEF HandleMessage
    <2>5. ASSUME NEW s \in Streams, ChildWrites(s) PROVE UNCHANGED <<terminated, link>>
      BY <2>5 DEF ChildWrites
    <2>6. CASE WaiterReaps
      BY <2>6 DEF WaiterReaps
    <2>7. CASE ChildExits
      BY <2>7 DEF ChildExits
    <2>8. CASE Prove
      BY <2>8 DEF Prove
    <2>9. QED BY <1>3, <2>1, <2>2, <2>3, <2>4, <2>5, <2>6, <2>7, <2>8 DEF Environment
  <1>4. QED BY <1>1, <1>2, <1>3 DEF Next

LEMMA LossStays ==
  ASSUME TypeOK, Next, Lossless'
  PROVE  Lossless
  <1>1. ~terminated /\ link = "active"
    BY DeadStays DEF Lossless, TypeOK
  <1>2. ~AnsweredNoop
    BY SentStays DEF Lossless, AnsweredNoop
  <1>3. QED BY <1>1, <1>2 DEF Lossless

\* Only keepalives share the window with a pump that is about to send.
LEMMA NextRoom ==
  ASSUME TypeOK, SessionInv, RoomInv, Next
  PROVE  RoomInv'
  <1> SUFFICES ASSUME ppc' \in Streams, Lossless'
               PROVE  outstanding' < Window
    BY DEF RoomInv
  <1> USE DEF sessionVars, handlerVars, childVars, outputVars, pumpVars, bufVars, timerVars,
              channelVars, envVars, OutsideTerminate
  <1>1. Lossless
    BY LossStays
  <1>2. \A error \in BOOLEAN : ~Terminate(error)
    BY DEF Terminate, Lossless
  <1>3. ASSUME NEW s \in Streams, PumpStream(s) PROVE outstanding' < Window
    BY <1>3 DEF PumpStream, CanPump, ChannelReady
  <1>4. ASSUME UNCHANGED channelVars, ppc' = ppc PROVE outstanding' < Window
    BY <1>1, <1>4 DEF RoomInv
  <1>5. CASE HandlerStep
    <2>1. ppc' = ppc
      BY <1>5 DEF HandlerStep, AcceptIdentity, RejectIdentity, Dispatch,
         HandlerTerminate, HandleVersion, HandleExecute, StartCmd, Spawn, HandleStdin,
         HandleNoop
    <2>2. ~HandleVersion
      BY <2>1 DEF HandleVersion, SessionInv, CommandInv, ProcessInv
    <2>3. HandleNoop => UNCHANGED channelVars
      <3>1. ~Send("Noop", <<>>)
        <4> SUFFICES ASSUME Send("Noop", <<>>) PROVE FALSE
          OBVIOUS
        <4>1. "Noop" \in SentKinds /\ <<>> \in Seq(Nat) /\ sent \in Seq(Packets)
          BY DEF SentKinds, TypeOK
        <4>2. Packet("Noop", <<>>) \in Packets /\ Packet("Noop", <<>>).kind = "Noop"
          BY <4>1, PacketFields
        <4>3. /\ Len(sent) \in Nat /\ Len(sent') = Len(sent) + 1
              /\ sent'[Len(sent) + 1] = Packet("Noop", <<>>)
          BY <4>1, <4>2, AppendPacket DEF Send
        <4>4. Len(sent) + 1 \in 1..Len(sent')
          BY <4>3
        <4>5. QED BY <4>2, <4>3, <4>4 DEF Lossless, AnsweredNoop
      <3>2. QED BY <3>1 DEF HandleNoop, TrySend
    <2>4. UNCHANGED channelVars
      BY <1>2, <1>5, <2>2, <2>3
      DEF HandlerStep, AcceptIdentity, RejectIdentity, Dispatch, HandlerTerminate,
          HandleExecute, StartCmd, Spawn, HandleStdin
    <2>5. QED BY <1>4, <2>1, <2>4
  <1>6. CASE LoopStep
    <2>1. ~PumpSendStream /\ ~PumpExit /\ ~PumpSendExit /\ ~Shutdown
      BY <1>2 DEF PumpSendStream, PumpExit, PumpSendExit, Shutdown, Streams
    <2>2. ASSUME NEW s \in Streams, ReadOutput(s) PROVE outstanding' < Window
      BY <1>4, <2>2 DEF ReadOutput
    <2>3. CASE PollReaps \/ EnsureTerminate \/ Prune
      BY <1>4, <2>3 DEF PollReaps, EnsureTerminate, Prune
    <2>4. ASSUME NEW f \in LeftStates, CheckProtocolTimeout(f)
          PROVE  outstanding' < Window
      BY <1>2, <1>4, <2>4 DEF CheckProtocolTimeout
    <2>5. QED BY <1>3, <1>6, <2>1, <2>2, <2>3, <2>4 DEF LoopStep
  <1>7. CASE Environment
    <2>1. CASE Prove
      <3>1. outstanding < Window /\ outstanding' = outstanding - 1
        BY <1>1, <2>1 DEF Prove, RoomInv
      <3>2. outstanding \in Nat /\ Window \in Nat
        BY WindowAssumption DEF TypeOK, WindowAssumption
      <3>3. QED BY <3>1, <3>2
    <2>2. CASE ~Prove
      <3>1. UNCHANGED channelVars /\ ppc' = ppc
        BY <1>2, <1>7, <2>2 DEF Environment, InitiatorIdentified, HandleMessage,
           LinkClosed, WaiterReaps, ChildWrites, ChildExits, LinkDown
      <3>2. QED BY <1>4, <3>1
    <2>3. QED BY <2>1, <2>2
  <1>8. QED BY <1>5, <1>6, <1>7 DEF Next

LEMMA RoomInvariant == Spec => []RoomInv
  <1>1. Init => RoomInv
    BY DEF Init, RoomInv, Streams
  <1>2. TypeOK /\ SessionInv /\ RoomInv /\ [Next]_vars => RoomInv'
    <2> SUFFICES ASSUME TypeOK, SessionInv, RoomInv, [Next]_vars PROVE RoomInv'
      OBVIOUS
    <2>1. CASE UNCHANGED vars
      BY <2>1 DEF RoomInv, Lossless, AnsweredNoop, vars, sessionVars, outputVars,
                  pumpVars, channelVars, envVars
    <2>2. QED BY <2>1, NextRoom
  <1>3. QED BY <1>1, <1>2, TypeCorrect, SessionInvariant, PTL DEF Spec

\* No step of a lossless session takes a chunk away.
LEMMA NextConserved ==
  ASSUME TypeOK, FlowInv, RoomInv, OutputConserved, Next
  PROVE  OutputConserved'
  <1> DEFINE Sent(s, c) ==
               \E i \in 1..Len(sent) : sent[i].kind = s /\ Holds(sent[i].data, c)
  <1> SUFFICES ASSUME Lossless', NEW s \in Streams, NEW c \in 1..delivered'[s]
               PROVE  Holds(buf'[s], c) \/ Sent(s, c)'
    BY DEF OutputConserved, Lossless
  <1> USE DEF pumpVars, bufVars, channelVars
  <1>1. Lossless
    BY LossStays
  <1>2. c \in 1..delivered[s] => Holds(buf[s], c) \/ Sent(s, c)
    BY <1>1 DEF OutputConserved, Lossless
  <1>3. Sent(s, c) => Sent(s, c)'
    BY SentStays
  <1> HIDE DEF Sent
  <1>b. buf[s] \in Seq(Nat) /\ Len(buf[s]) \in Nat
    BY DEF TypeOK
  <1>4. CASE Aside
    BY <1>2, <1>3, <1>4 DEF Aside
  <1>5. CASE HandleStdin
    <2>1. delivered' = delivered
      BY <1>5 DEF HandleStdin
    <2>2. Holds(buf[s], c) => Holds(buf'[s], c)
      <3>1. CASE buf'[s] = buf[s]
        BY <3>1
      <3>2. CASE buf'[s] = Append(buf[s], Echo)
        <4>1. Echo \in Nat
          BY DEF Echo
        <4>2. Len(buf'[s]) = Len(buf[s]) + 1
                /\ \A j \in 1..Len(buf[s]) : buf'[s][j] = buf[s][j]
          BY <1>b, <3>2, <4>1, AppendChunk
        <4>3. QED BY <1>b, <4>2 DEF Holds
      <3>3. QED BY <1>5, <3>1, <3>2 DEF HandleStdin, TypeOK
    <2>3. QED BY <1>2, <1>3, <2>1, <2>2
  <1>6. ASSUME NEW t \in Streams, PumpStream(t) PROVE Holds(buf'[s], c) \/ Sent(s, c)'
    BY <1>2, <1>3, <1>6 DEF PumpStream
  <1>7. CASE PumpSendStream
    <2>1. delivered' = delivered /\ buf' = [buf EXCEPT ![ppc] = rest] /\ ppc \in Streams
      BY <1>7 DEF PumpSendStream
    <2>2. CASE s # ppc
      <3>1. buf'[s] = buf[s]
        BY <2>1, <2>2 DEF TypeOK
      <3>2. QED BY <1>2, <1>3, <2>1, <3>1
    <2>3. CASE s = ppc /\ Holds(buf[s], c)
      <3>1. sent' = Append(sent, Packet(s, chunk))
        <4>1. ChannelReady
          BY <1>1, <2>1 DEF RoomInv, Lossless, ChannelReady
        <4>2. QED BY <1>7, <2>3, <4>1 DEF PumpSendStream, TrySend, Send
      <3>2. buf'[s] = rest
        BY <2>1, <2>3 DEF TypeOK
      <3>3. PICK j \in 1..Len(buf[s]) : buf[s][j] = c
        BY <2>3 DEF Holds
      <3>4. chunk \in Seq(Nat) /\ rest \in Seq(Nat) /\ Len(chunk) \in Nat /\ Len(rest) \in Nat
        BY DEF TypeOK
      <3>5. CASE j \in 1..Len(chunk)
        <4>1. chunk[j] = c
          BY <2>1, <2>3, <3>3, <3>5 DEF FlowInv, CutInv
        <4>2. /\ Packet(s, chunk) \in Packets /\ Packet(s, chunk).kind = s
              /\ Packet(s, chunk).data = chunk
          BY <3>4, PacketFields DEF SentKinds
        <4>3. /\ Len(sent') = Len(sent) + 1 /\ Len(sent) \in Nat
              /\ sent'[Len(sent) + 1] = Packet(s, chunk)
          <5>1. sent \in Seq(Packets)
            BY DEF TypeOK
          <5>2. QED BY <3>1, <4>2, <5>1, AppendPacket
        <4>4. Holds(chunk, c)
          BY <3>5, <4>1 DEF Holds
        <4>5. Len(sent) + 1 \in 1..Len(sent')
          BY <4>3
        <4>6. QED BY <4>2, <4>3, <4>4, <4>5 DEF Sent
      <3>6. CASE j > Len(chunk) /\ j <= Len(chunk) + Len(rest)
        <4>1. j - Len(chunk) \in 1..Len(rest) /\ Len(chunk) + (j - Len(chunk)) = j
          BY <1>b, <3>4, <3>6
        <4>2. rest[j - Len(chunk)] = c
          BY <2>1, <2>3, <3>3, <4>1 DEF FlowInv, CutInv
        <4>3. QED BY <3>2, <4>1, <4>2 DEF Holds
      <3>7. CASE j > Len(chunk) + Len(rest)
        <4>1. c = 0
          BY <2>1, <2>3, <3>3, <3>7 DEF FlowInv, CutInv, Echo
        <4>2. QED BY <4>1
      <3>8. QED BY <1>b, <3>4, <3>5, <3>6, <3>7
    <2>4. QED BY <1>2, <1>3, <2>1, <2>2, <2>3
  <1>8. ASSUME NEW t \in Streams, ReadOutput(t) PROVE Holds(buf'[s], c) \/ Sent(s, c)'
    <2>1. CASE s # t
      <3>1. buf'[s] = buf[s] /\ delivered'[s] = delivered[s]
        BY <1>8, <2>1 DEF ReadOutput, TypeOK
      <3>2. QED BY <1>2, <1>3, <3>1
    <2>2. CASE s = t
      <3>1. /\ produced[s] \in Nat /\ delivered[s] \in Nat /\ delivered[s] < produced[s]
            /\ delivered'[s] = produced[s] /\ buf'[s] = buf[s] \o Unread(s)
        BY <1>8, <2>2 DEF ReadOutput, TypeOK
      <3>2. /\ Unread(s) \in Seq(Nat)
            /\ Len(Unread(s)) = produced[s] - delivered[s]
            /\ \A i \in 1..(produced[s] - delivered[s]) : Unread(s)[i] = delivered[s] + i
        <4>1. produced[s] - delivered[s] \in Nat
          BY <3>1
        <4>2. QED BY <3>1, <4>1 DEF Unread
      <3>3. CASE c \in 1..delivered[s]
        <4>1. Holds(buf[s], c) => Holds(buf'[s], c)
          BY <3>1, <3>2, <1>b, ConcatChunks DEF Holds
        <4>2. QED BY <1>2, <1>3, <3>3, <4>1
      <3>4. CASE c > delivered[s]
        <4>1. PICK m \in 1..(produced[s] - delivered[s]) : c = delivered[s] + m
          <5>1. c - delivered[s] \in 1..(produced[s] - delivered[s])
            BY <3>1, <3>4
          <5>2. QED BY <3>1, <5>1
        <4>2. PICK n \in Nat : n = Len(buf[s])
          BY <1>b
        <4>3. Len(buf'[s]) = n + (produced[s] - delivered[s])
          BY <1>b, <3>1, <3>2, <4>2, ConcatChunks
        <4>4. n + m \in 1..Len(buf'[s]) /\ n + m > n /\ (n + m) - n = m
          BY <3>1, <4>3
        <4>5. buf'[s][n + m] = Unread(s)[m]
          BY <1>b, <3>1, <3>2, <4>2, <4>4, ConcatChunks
        <4>6. buf'[s][n + m] = c
          BY <3>2, <4>1, <4>5
        <4>7. QED BY <4>4, <4>6 DEF Holds
      <3>5. QED BY <3>1, <3>3, <3>4
    <2>3. QED BY <2>1, <2>2
  <1>9. QED BY <1>4, <1>5, <1>6, <1>7, <1>8, StepsAside

\* On a live session that answers no keepalive, every chunk read from the command has
\* been sent or is in its buffer, although pump cuts the buffer before a send that may
\* raise and input is echoed into it meanwhile (session.py:257-266).
THEOREM OutputConservedHolds == Spec => []OutputConserved
  <1>1. Init => OutputConserved
    BY DEF Init, OutputConserved
  <1>2. TypeOK /\ FlowInv /\ RoomInv /\ OutputConserved /\ [Next]_vars => OutputConserved'
    <2> SUFFICES ASSUME TypeOK, FlowInv, RoomInv, OutputConserved, [Next]_vars
                 PROVE  OutputConserved'
      OBVIOUS
    <2>1. CASE UNCHANGED vars
      BY <2>1 DEF OutputConserved, AnsweredNoop, vars, sessionVars, outputVars, bufVars,
                  channelVars, envVars
    <2>2. QED BY <2>1, NextConserved
  <1>3. QED BY <1>1, <1>2, TypeCorrect, FlowInvariant, RoomInvariant, PTL DEF Spec

(***************************************************************************)
(* The session implements RemoteSession.                                   *)
(***************************************************************************)

\* Where the session is past the handshake's version, and where it has begun with
\* what comes after it.
Past  == state \notin {"WAIT_IDENT", "WAIT_VERS"} /\ pc \notin {"accept", "version"}
Begun == \/ state \in {"WAIT_CMD", "RUNNING"}
         \/ pc \in {"execute", "start", "spawn", "noop"}
         \/ process # "none"

\* The version is said where the two meet, the exit where it is recorded.
SaidInv ==
  /\ Remote!Said("Version") => Past
  /\ Begun => Remote!Said("Version")
ExitInv ==
  /\ Remote!Said("Exited") => return_code_sent
  /\ ppc = "exit" => return_code /\ ~return_code_sent

TalkInv == SaidInv /\ ExitInv

LEMMA WhatIsSaid ==
  ASSUME TypeOK, Next
  PROVE  \/ sent' = sent
         \/ sent' = Append(sent, Packet("Error", <<>>)) /\ UNCHANGED <<process, return_code>>
         \/ HandleVersion /\ Send("Version", <<>>)
         \/ HandleNoop /\ Send("Noop", <<>>)
         \/ PumpSendStream /\ Send(ppc, chunk)
         \/ PumpSendExit /\ Send("Exited", <<>>)
  <1> USE DEF sessionVars, identityVars, handlerVars, childVars, outputVars,
              bufVars, pumpVars, timerVars, channelVars, envVars, OutsideTerminate
  <1>1. ASSUME NEW error \in BOOLEAN, Terminate(error), UNCHANGED <<process, return_code>>
        PROVE  \/ sent' = sent
               \/ sent' = Append(sent, Packet("Error", <<>>))
                    /\ UNCHANGED <<process, return_code>>
    BY <1>1, TerminateSays DEF ErrorOrNothing
  <1>2. CASE HandlerStep
    <2>1. CASE RejectIdentity \/ HandlerTerminate
      BY <1>1, <2>1 DEF RejectIdentity, HandlerTerminate
    <2>2. CASE Spawn
      BY <1>1, <2>2 DEF Spawn
    <2>3. CASE HandleVersion \/ HandleNoop
      BY <2>3 DEF HandleVersion, VersionReply, HandleNoop, TrySend
    <2>4. CASE AcceptIdentity \/ Dispatch \/ HandleExecute \/ StartCmd \/ HandleStdin
      BY <2>4 DEF AcceptIdentity, Dispatch, HandleExecute, StartCmd, HandleStdin
    <2>5. QED BY <1>2, <2>1, <2>2, <2>3, <2>4 DEF HandlerStep
  <1>3. CASE LoopStep
    <2>1. CASE PumpSendStream \/ PumpSendExit
      BY <2>1 DEF PumpSendStream, PumpSendExit, TrySend
    <2>2. CASE Shutdown
      BY <1>1, <2>2 DEF Shutdown
    <2>3. ASSUME NEW f \in LeftStates, CheckProtocolTimeout(f)
          PROVE  \/ sent' = sent
                 \/ sent' = Append(sent, Packet("Error", <<>>))
                      /\ UNCHANGED <<process, return_code>>
      BY <1>1, <2>3 DEF CheckProtocolTimeout
    <2>4. ASSUME NEW s \in Streams, PumpStream(s) \/ ReadOutput(s) PROVE sent' = sent
      BY <2>4 DEF PumpStream, ReadOutput
    <2>5. CASE PumpExit \/ PollReaps \/ EnsureTerminate \/ Prune
      BY <2>5 DEF PumpExit, PollReaps, EnsureTerminate, Prune
    <2>6. QED BY <1>3, <2>1, <2>2, <2>3, <2>4, <2>5 DEF LoopStep
  <1>4. CASE Environment
    <2>1. CASE LinkClosed
      BY <1>1, <2>1 DEF LinkClosed
    <2>2. QED
      BY <1>4, <2>1 DEF Environment, InitiatorIdentified, HandleMessage, WaiterReaps,
         ChildWrites, ChildExits, Prove, LinkDown
  <1>5. QED BY <1>2, <1>3, <1>4 DEF Next

\* Only saying the version takes a session past it.
LEMMA HandshakeStep ==
  ASSUME TypeOK, SessionInv, Next, ~(HandleVersion /\ Send("Version", <<>>))
  PROVE  (Past => Past') /\ (Begun' => Begun)
  <1> USE DEF Past, Begun, sessionVars, identityVars, handlerVars, childVars, envVars,
              OutsideTerminate, Continue, Return
  <1>1. CASE HandlerStep
    <2>1. CASE AcceptIdentity
      BY <2>1 DEF AcceptIdentity, SetState
    <2>2. CASE RejectIdentity \/ HandlerTerminate
      BY <2>2 DEF RejectIdentity, HandlerTerminate, Terminate
    <2>3. CASE Dispatch
      BY <2>3 DEF Dispatch, HandlerOf, RunningHandler
    <2>4. CASE HandleVersion
      BY <2>4 DEF HandleVersion, VersionReply
    <2>5. CASE HandleExecute
      BY <2>5 DEF HandleExecute, SetState
    <2>6. CASE StartCmd
      BY <2>6 DEF StartCmd, StepAfterChecks
    <2>7. CASE Spawn
      BY <2>7 DEF Spawn, Terminate
    <2>8. CASE HandleStdin \/ HandleNoop
      BY <2>8 DEF HandleStdin, HandleNoop
    <2>9. QED
      BY <1>1, <2>1, <2>2, <2>3, <2>4, <2>5, <2>6, <2>7, <2>8 DEF HandlerStep
  <1>2. CASE LoopStep
    BY <1>2 DEF LoopStep, PumpStream, PumpSendStream, PumpExit, PumpSendExit, ReadOutput,
       PollReaps, EnsureTerminate, CheckProtocolTimeout, Prune, Shutdown, Terminate
  <1>3. CASE Environment
    <2>1. ASSUME NEW i \in Identities, InitiatorIdentified(i)
          PROVE  (Past => Past') /\ (Begun' => Begun)
      BY <2>1 DEF InitiatorIdentified
    <2>2. ASSUME NEW m \in Messages, HandleMessage(m)
          PROVE  (Past => Past') /\ (Begun' => Begun)
      BY <2>2 DEF HandleMessage
    <2>3. CASE LinkClosed
      BY <2>3 DEF LinkClosed, Terminate
    <2>4. CASE WaiterReaps
      BY <2>4 DEF WaiterReaps
    <2>5. CASE ChildExits
      BY <2>5 DEF ChildExits
    <2>6. ASSUME NEW s \in Streams, ChildWrites(s) PROVE UNCHANGED <<state, pc, process>>
      BY <2>6 DEF ChildWrites
    <2>7. CASE Prove
      BY <2>7 DEF Prove
    <2>8. CASE LinkDown
      BY <2>8 DEF LinkDown
    <2>9. QED
      BY <1>3, <2>1, <2>2, <2>3, <2>4, <2>5, <2>6, <2>7, <2>8 DEF Environment
  <1>4. QED BY <1>1, <1>2, <1>3 DEF Next

\* The exit is prepared with a return code that has not been sent; neither is taken back.
ExitKept ==
  /\ return_code => return_code'
  /\ return_code_sent => return_code_sent'
  /\ ppc' = "exit" =>
       /\ ppc = "exit" \/ (return_code /\ ~return_code_sent)
       /\ return_code_sent' = return_code_sent

LEMMA ExitStep ==
  ASSUME TypeOK, Next
  PROVE  ExitKept
  <1> USE DEF childVars, outputVars, bufVars, pumpVars, OutsideTerminate
  <1>a. ASSUME UNCHANGED <<ppc, return_code, return_code_sent>> PROVE ExitKept
    BY <1>a DEF ExitKept
  <1>1. CASE HandlerStep
    <2>1. UNCHANGED <<ppc, return_code, return_code_sent>>
      BY <1>1 DEF HandlerStep, AcceptIdentity, RejectIdentity, Dispatch,
         HandlerTerminate, HandleVersion, HandleExecute, StartCmd, Spawn, HandleStdin,
         HandleNoop
    <2>2. QED BY <1>a, <2>1
  <1>2. CASE LoopStep
    <2>1. ASSUME NEW s \in Streams, PumpStream(s) PROVE ExitKept
      BY <2>1 DEF PumpStream, Streams, ExitKept
    <2>2. CASE PumpSendStream
      BY <2>2 DEF PumpSendStream, ExitKept
    <2>3. CASE PumpExit
      BY <2>3 DEF PumpExit, ExitKept
    <2>4. CASE PumpSendExit
      BY <2>4 DEF PumpSendExit, MarkExitSent, ExitKept
    <2>5. ASSUME NEW s \in Streams, ReadOutput(s) PROVE ExitKept
      BY <1>a, <2>5 DEF ReadOutput
    <2>6. CASE PollReaps
      BY <2>6 DEF PollReaps, LoopIdle, ExitKept
    <2>7. CASE EnsureTerminate
      BY <1>a, <2>7 DEF EnsureTerminate
    <2>8. ASSUME NEW f \in LeftStates, CheckProtocolTimeout(f) PROVE ExitKept
      BY <1>a, <2>8 DEF CheckProtocolTimeout
    <2>9. CASE Prune
      BY <1>a, <2>9 DEF Prune
    <2>10. CASE Shutdown
      BY <1>a, <2>10 DEF Shutdown
    <2>11. QED
      BY <1>2, <2>1, <2>2, <2>3, <2>4, <2>5, <2>6, <2>7, <2>8, <2>9, <2>10 DEF LoopStep
  <1>3. CASE Environment
    <2>1. CASE WaiterReaps
      <3>1. UNCHANGED <<ppc, return_code_sent>>
        BY <2>1 DEF WaiterReaps
      <3>2. return_code => return_code'
        <4>1. return_code' = return_code \/ return_code' = TRUE
          BY <2>1 DEF WaiterReaps
        <4>2. CASE return_code' = return_code
          BY <4>2, Zenon
        <4>3. CASE return_code' = TRUE
          BY <4>3
        <4>4. QED BY <4>1, <4>2, <4>3
      <3>3. QED BY <3>1, <3>2 DEF ExitKept
    <2>2. CASE ~WaiterReaps
      <3>1. UNCHANGED <<ppc, return_code, return_code_sent>>
        BY <1>3, <2>2 DEF Environment, InitiatorIdentified, HandleMessage, LinkClosed,
           ChildWrites, ChildExits, Prove, LinkDown
      <3>2. QED BY <1>a, <3>1
    <2>3. QED BY <2>1, <2>2
  <1>4. QED BY <1>1, <1>2, <1>3 DEF Next

LEMMA NextTalk ==
  ASSUME TypeOK, SessionInv, TalkInv, Next
  PROVE  TalkInv'
  <1>a. "Version" \in SentKinds /\ "Exited" \in SentKinds /\ "Noop" \in SentKinds
          /\ "Error" \in SentKinds /\ <<>> \in Seq(Nat)
    BY DEF SentKinds
  <1>b. \A kind : Remote!Said(kind) => Remote!Said(kind)'
    BY SentStays DEF Remote!Said
  <1>c. ASSUME NEW kind \in {"Version", "Exited"}, Remote!Said(kind)', ~Remote!Said(kind)
        PROVE  \/ kind = "Version" /\ HandleVersion /\ Send("Version", <<>>)
               \/ kind = "Exited" /\ PumpSendExit /\ Send("Exited", <<>>)
    <2>1. sent' # sent
      BY <1>c DEF Remote!Said
    <2>2. ASSUME NEW k \in SentKinds, NEW d \in Seq(Nat),
                 sent' = Append(sent, Packet(k, d))
          PROVE  kind = k
      BY <1>c, <2>2, SaidAfter
    <2>3. CASE sent' = Append(sent, Packet("Error", <<>>))
      BY <1>a, <2>2, <2>3
    <2>4. CASE HandleVersion /\ Send("Version", <<>>)
      BY <1>a, <2>2, <2>4 DEF Send
    <2>5. CASE HandleNoop /\ Send("Noop", <<>>)
      BY <1>a, <2>2, <2>5 DEF Send
    <2>6. CASE PumpSendStream /\ Send(ppc, chunk)
      <3>1. ppc \in Streams /\ ppc \in SentKinds /\ chunk \in Seq(Nat)
        BY <2>6 DEF PumpSendStream, SentKinds, TypeOK
      <3>2. kind = ppc
        BY <2>2, <2>6, <3>1 DEF Send
      <3>3. QED BY <3>1, <3>2 DEF Streams
    <2>7. CASE PumpSendExit /\ Send("Exited", <<>>)
      BY <1>a, <2>2, <2>7 DEF Send
    <2>8. QED BY <2>1, <2>3, <2>4, <2>5, <2>6, <2>7, WhatIsSaid
  <1>1. SaidInv'
    <2>1. CASE HandleVersion /\ Send("Version", <<>>)
      <3>1. Past'
        BY <2>1 DEF HandleVersion, Send, SetState, Return, Continue, Past
      <3>2. Remote!Said("Version")'
        BY <1>a, <2>1, SaidAfter DEF Send
      <3>3. QED BY <3>1, <3>2 DEF SaidInv
    <2>2. CASE ~(HandleVersion /\ Send("Version", <<>>))
      <3>1. (Past => Past') /\ (Begun' => Begun)
        BY <2>2, HandshakeStep
      <3>2. Remote!Said("Version")' => Remote!Said("Version")
        BY <1>c, <2>2
      <3>3. QED BY <1>b, <3>1, <3>2 DEF TalkInv, SaidInv
    <2>3. QED BY <2>1, <2>2
  <1>2. ExitInv'
    <2>1. Remote!Said("Exited")' => return_code_sent'
      <3>1. CASE Remote!Said("Exited")
        BY <3>1, ExitStep DEF ExitKept, TalkInv, ExitInv
      <3>2. CASE PumpSendExit /\ Send("Exited", <<>>)
        BY <3>2 DEF PumpSendExit, Send, MarkExitSent
      <3>3. QED BY <1>c, <3>1, <3>2
    <2>2. ppc' = "exit" => return_code' /\ ~return_code_sent'
      BY ExitStep DEF ExitKept, TalkInv, ExitInv
    <2>3. QED BY <2>1, <2>2 DEF ExitInv
  <1>3. QED BY <1>1, <1>2 DEF TalkInv

LEMMA TalkInvariant == Spec => []TalkInv
  <1>1. Init => TalkInv
    BY DEF Init, TalkInv, SaidInv, ExitInv, Past, Begun, Remote!Said
  <1>2. TypeOK /\ SessionInv /\ TalkInv /\ [Next]_vars => TalkInv'
    <2> SUFFICES ASSUME TypeOK, SessionInv, TalkInv, [Next]_vars PROVE TalkInv'
      OBVIOUS
    <2>1. CASE UNCHANGED vars
      BY <2>1 DEF TalkInv, SaidInv, ExitInv, Past, Begun, Remote!Said, vars, sessionVars,
                  handlerVars, childVars, outputVars, bufVars, pumpVars, channelVars
    <2>2. QED BY <2>1, NextTalk
  <1>3. QED BY <1>1, <1>2, TypeCorrect, SessionInvariant, PTL DEF Spec

\* The command of the session goes from none to running to ended, and no message is
\* sent meanwhile.
CommandStep ==
  \/ Command' = Command
  \/ /\ sent' = sent
     /\ \/ pc = "spawn" /\ Command = "none" /\ Command' = "running"
        \/ Command = "running" /\ Command' = "ended"

LEMMA CommandSteps ==
  ASSUME TypeOK, SessionInv, Next
  PROVE  CommandStep
  <1> USE DEF childVars, channelVars, OutsideTerminate
  <1>a. ASSUME UNCHANGED <<process, return_code>> PROVE CommandStep
    BY <1>a DEF Command, CommandStep
  <1>b. return_code => process # "none"
    BY DEF SessionInv, QuietInv
  <1>c. ASSUME process = "zombie", process' = "gone", sent' = sent,
               return_code' \in {return_code, TRUE}
        PROVE  CommandStep
    <2>1. CASE return_code' = return_code
      BY <1>c, <2>1 DEF Command, CommandStep
    <2>2. CASE return_code' = TRUE
      BY <1>c, <2>2 DEF Command, CommandStep
    <2>3. QED BY <1>c, <2>1, <2>2
  <1>1. CASE HandlerStep
    <2>1. CASE Spawn
      <3>1. CASE process' = "running" /\ UNCHANGED <<return_code, channelVars>>
        <4>1. process = "none" /\ pc = "spawn"
          BY <2>1 DEF Spawn, SessionInv, CommandInv
        <4>2. QED BY <1>b, <3>1, <4>1 DEF Command, CommandStep
      <3>2. CASE UNCHANGED <<process, return_code>>
        BY <1>a, <3>2
      <3>3. QED BY <2>1, <3>1, <3>2 DEF Spawn
    <2>2. CASE ~Spawn
      <3>1. UNCHANGED <<process, return_code>>
        BY <1>1, <2>2 DEF HandlerStep, AcceptIdentity, RejectIdentity, Dispatch,
           HandlerTerminate, HandleVersion, HandleExecute, StartCmd, HandleStdin,
           HandleNoop
      <3>2. QED BY <1>a, <3>1
    <2>3. QED BY <2>1, <2>2
  <1>2. CASE LoopStep
    <2>1. CASE PollReaps
      BY <1>c, <2>1 DEF PollReaps
    <2>2. CASE ~PollReaps
      <3>1. UNCHANGED <<process, return_code>>
        BY <1>2, <2>2 DEF LoopStep, PumpStream, PumpSendStream, PumpExit, PumpSendExit,
           ReadOutput, EnsureTerminate, CheckProtocolTimeout, Prune, Shutdown
      <3>2. QED BY <1>a, <3>1
    <2>3. QED BY <2>1, <2>2
  <1>3. CASE Environment
    <2>1. CASE WaiterReaps
      BY <1>c, <2>1 DEF WaiterReaps
    <2>2. CASE ChildExits
      BY <2>2 DEF ChildExits, Command, CommandStep
    <2>3. CASE ~WaiterReaps /\ ~ChildExits
      <3>1. UNCHANGED <<process, return_code>>
        BY <1>3, <2>3 DEF Environment, InitiatorIdentified, HandleMessage, LinkClosed,
           ChildWrites, Prove, LinkDown
      <3>2. QED BY <1>a, <3>1
    <2>4. QED BY <2>1, <2>2, <2>3
  <1>4. QED BY <1>1, <1>2, <1>3 DEF Next

\* What is said may be said.
LEMMA SpeakStep ==
  ASSUME TypeOK, SessionInv, FlowInv, TalkInv, Next, sent' # sent
  PROVE  Remote!Speak
  <1>a. sent \in Seq(Packets) /\ <<>> \in Seq(Nat)
    BY DEF TypeOK
  <1>1. ASSUME NEW k \in SentKinds, NEW d \in Seq(Nat), sent' = Append(sent, Packet(k, d)),
               Remote!MaySay(Packet(k, d)), Command' = Command
        PROVE  Remote!Speak
    <2>1. Packet(k, d) \in Packets
      BY PacketFields
    <2>2. Len(sent') = Len(sent) + 1 /\ sent'[Len(sent')] = Packet(k, d)
      BY <1>a, <1>1, <2>1, AppendPacket
    <2>3. QED BY <1>1, <2>2 DEF Remote!Speak, Remote!Says
  <1>2. Command' = Command
    BY CommandSteps DEF CommandStep
  <1>3. CASE sent' = Append(sent, Packet("Error", <<>>))
    <2>1. "Error" \in SentKinds
      BY DEF SentKinds
    <2>2. Remote!MaySay(Packet("Error", <<>>))
      BY <1>a, <2>1, PacketFields DEF Remote!MaySay
    <2>3. QED BY <1>1, <1>2, <1>3, <1>a, <2>1, <2>2
  <1>4. CASE HandleVersion /\ Send("Version", <<>>)
    <2>1. "Version" \in SentKinds
      BY DEF SentKinds
    <2>2. Command = "none"
      BY <1>4 DEF HandleVersion, SessionInv, CommandInv, Command
    <2>3. ~Remote!Said("Version")
      BY <1>4 DEF HandleVersion, TalkInv, SaidInv, Past
    <2>4. Remote!MaySay(Packet("Version", <<>>))
      BY <1>a, <2>1, <2>2, <2>3, PacketFields DEF Remote!MaySay
    <2>5. QED BY <1>1, <1>2, <1>4, <1>a, <2>1, <2>4 DEF Send
  <1>5. CASE HandleNoop /\ Send("Noop", <<>>)
    <2>1. "Noop" \in SentKinds
      BY DEF SentKinds
    <2>2. Remote!Said("Version")
      BY <1>5 DEF HandleNoop, TalkInv, SaidInv, Begun
    <2>3. Remote!MaySay(Packet("Noop", <<>>))
      BY <1>a, <2>1, <2>2, PacketFields DEF Remote!MaySay
    <2>4. QED BY <1>1, <1>2, <1>5, <1>a, <2>1, <2>3 DEF Send
  <1>6. CASE PumpSendStream /\ Send(ppc, chunk)
    <2>1. ppc \in Streams /\ ppc \in SentKinds /\ chunk \in Seq(Nat)
      BY <1>6 DEF PumpSendStream, SentKinds, TypeOK
    <2>2. Command # "none" /\ Remote!Said("Version")
      BY <2>1 DEF SessionInv, ProcessInv, TalkInv, SaidInv, Begun, Command
    <2>3. buf[ppc] \in Seq(Nat) /\ Len(buf[ppc]) \in Nat
            /\ Len(chunk) \in Nat /\ Len(rest) \in Nat
      BY <2>1 DEF TypeOK
    <2>4. \A j \in 1..Len(chunk) : j \in 1..Len(buf[ppc]) /\ chunk[j] = buf[ppc][j]
      BY <2>1, <2>3 DEF FlowInv, CutInv
    <2>5. Remote!Increasing(chunk)
      BY <2>1, <2>4 DEF FlowInv, OrderInv, Remote!Increasing
    <2>6. \A i \in 1..Len(sent) : sent[i].kind = ppc => Remote!Before(sent[i].data, chunk)
      BY <2>1, <2>4 DEF FlowInv, OrderInv, Remote!Before
    <2>7. Remote!MaySay(Packet(ppc, chunk))
      <3>1. Packet(ppc, chunk).kind = ppc /\ Packet(ppc, chunk).data = chunk
        BY <2>1, PacketFields
      <3>2. ppc \in Remote!Streams
        BY <2>1 DEF Streams, Remote!Streams
      <3>3. QED BY <2>2, <2>5, <2>6, <3>1, <3>2 DEF Remote!MaySay, Remote!Follows
    <2>8. QED BY <1>1, <1>2, <1>6, <2>1, <2>7 DEF Send
  <1>7. CASE PumpSendExit /\ Send("Exited", <<>>)
    <2>1. "Exited" \in SentKinds
      BY DEF SentKinds
    <2>2. return_code /\ ~return_code_sent
      BY <1>7 DEF PumpSendExit, TalkInv, ExitInv
    <2>3. process # "none" /\ Command = "ended"
      BY <2>2 DEF SessionInv, QuietInv, Command
    <2>4. Remote!Said("Version") /\ ~Remote!Said("Exited")
      BY <2>2, <2>3 DEF TalkInv, SaidInv, ExitInv, Begun
    <2>5. Remote!MaySay(Packet("Exited", <<>>))
      BY <1>a, <2>1, <2>3, <2>4, PacketFields DEF Remote!MaySay
    <2>6. QED BY <1>1, <1>2, <1>7, <1>a, <2>1, <2>5 DEF Send
  <1>8. QED BY <1>3, <1>4, <1>5, <1>6, <1>7, WhatIsSaid

\* Whatever its threads do, the session is a RemoteSession to the initiator: one
\* version first, output only from a command, in order and never twice, the exit
\* once and only of a command that has ended (session.py:250-290, 368-412).
THEOREM ImplementsRemoteHolds == Spec => ImplementsRemote
  <1>1. Init => Remote!Init
    BY DEF Init, Remote!Init, Command
  <1>2. TypeOK /\ SessionInv /\ FlowInv /\ TalkInv /\ [Next]_vars
          => [Remote!Next]_(Remote!remoteVars)
    <2> SUFFICES ASSUME TypeOK, SessionInv, FlowInv, TalkInv, [Next]_vars
                 PROVE  Remote!Next \/ UNCHANGED Remote!remoteVars
      OBVIOUS
    <2>1. CASE UNCHANGED vars
      BY <2>1 DEF vars, childVars, channelVars, Command, Remote!remoteVars
    <2>2. CASE Next /\ sent' # sent
      BY <2>2, SpeakStep DEF Remote!Next
    <2>3. CASE Next /\ sent' = sent
      <3>1. CASE Command' = Command
        BY <2>3, <3>1 DEF Remote!remoteVars
      <3>2. CASE pc = "spawn" /\ Command = "none" /\ Command' = "running"
        <4>1. Remote!Said("Version")
          BY <3>2 DEF TalkInv, SaidInv, Begun
        <4>2. QED BY <2>3, <3>2, <4>1 DEF Remote!Start, Remote!Next
      <3>3. CASE Command = "running" /\ Command' = "ended"
        BY <2>3, <3>3 DEF Remote!End, Remote!Next
      <3>4. QED BY <2>3, <3>1, <3>2, <3>3, CommandSteps DEF CommandStep
    <2>4. QED BY <2>1, <2>2, <2>3
  <1>3. QED
    BY <1>1, <1>2, TypeCorrect, SessionInvariant, FlowInvariant, TalkInvariant, PTL
    DEF Spec, ImplementsRemote, Remote!Spec
=============================================================================
