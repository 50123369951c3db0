---------------------- MODULE CallbackSubprocessProofs ----------------------
(***************************************************************************)
(* Theorems about CallbackSubprocess, for every set of exit codes and of   *)
(* descriptors, with or without reuse of their numbers, and however often  *)
(* its owner calls it.                                                     *)
(***************************************************************************)
EXTENDS CallbackSubprocess, TLAPS

(***************************************************************************)
(* Types.                                                                  *)
(***************************************************************************)
LEMMA StatusByte == \A s \in Statuses \cup {0} : s \in Nat /\ s % 256 \in 0..255
  BY ExitCodeAssumption
  DEF ExitCodeAssumption, Statuses, Signals, HUP, INT, KILL, TERM

\* The helpers change what they change within its type.
LEMMA KillType ==
  ASSUME TypeOK, NEW S \in SUBSET Signals, Kill(S)
  PROVE  signals' \subseteq Signals
  BY DEF Kill, TypeOK

LEMMA DoTerminateType ==
  ASSUME TypeOK, DoTerminate
  PROVE  signals' \subseteq Signals /\ kills' \in Nat /\ waiting' \in Nat
  <1>1. {TERM} \in SUBSET Signals
    BY DEF Signals
  <1>2. signals' \subseteq Signals
    BY <1>1, KillType DEF DoTerminate
  <1>3. QED BY <1>2 DEF DoTerminate, TypeOK

LEMMA CloseType ==
  ASSUME TypeOK, NEW S \in SUBSET Ends, Close(S)
  PROVE  owner' \in [Ends -> {"child", "free", "other"}] /\ misclosed' \in BOOLEAN
  BY DEF Close, ClosedOwner, TypeOK

LEMMA InitType == Init => TypeOK
  <1> SUFFICES ASSUME Init PROVE TypeOK
    OBVIOUS
  <1>1. reported \in Seq(0..255)
    BY DEF Init
  <1>2. owner \in [Ends -> {"child", "free", "other"}]
    BY DEF Init
  <1>3. \A n \in {kills, eof_timers, escalations, waiting, reapers, closers, calls} :
          n \in Nat
    BY DEF Init
  <1>4. return_code \in 0..255
    BY DEF Init
  <1>5. signals \subseteq Signals /\ status \in Statuses \cup {0}
    BY DEF Init
  <1>6. QED BY <1>1, <1>2, <1>3, <1>4, <1>5 DEF Init, TypeOK

LEMMA NextType == TypeOK /\ [Next]_vars => TypeOK'
  <1> SUFFICES ASSUME TypeOK, [Next]_vars PROVE TypeOK'
    OBVIOUS
  <1> USE DEF childVars, pollVars, timerVars, waitVars, pipeVars
  <1>1. CASE Terminate
    <2>1. signals' \subseteq Signals /\ kills' \in Nat /\ waiting' \in Nat
      <3>1. CASE DoTerminate
        BY <3>1, DoTerminateType
      <3>2. CASE UNCHANGED <<signals, kills, waiting>>
        BY <3>2 DEF TypeOK
      <3>3. QED BY <1>1, <3>1, <3>2 DEF Terminate
    <2>2. QED BY <1>1, <2>1 DEF Terminate, Call, TypeOK
  <1>2. CASE CloseStdin
    <2>1. owner' \in [Ends -> {"child", "free", "other"}] /\ misclosed' \in BOOLEAN
      <3>1. {StdinFd} \in SUBSET Ends
        BY EndsAssumption DEF EndsAssumption
      <3>2. QED BY <1>2, <3>1, CloseType DEF CloseStdin, TypeOK
    <2>2. QED BY <1>2, <2>1 DEF CloseStdin, Call, TypeOK
  <1>3. CASE WriteCtrlC
    <2>1. signals' \subseteq Signals
      BY <1>3, KillType DEF WriteCtrlC, Signals
    <2>2. QED BY <1>3, <2>1 DEF WriteCtrlC, Call, TypeOK
  <1>4. CASE PollWait
    <2>1. LowByte(status) \in 0..255
      BY StatusByte DEF LowByte, TypeOK
    <2>2. return_code' \in 0..255
      <3>1. return_code \in 0..255 /\ 0 \in 0..255
        BY DEF TypeOK
      <3>2. return_code' \in {LowByte(status), 0, return_code}
        BY <1>4 DEF PollWait
      <3>3. QED BY <2>1, <3>1, <3>2
    <2>3. child' \in {"running", "zombie", "reaped"}
            /\ pid' \in {"child", "nobody", "other"}
            /\ poll' \in {"armed", "waited", "tested", "off"}
      BY <1>4 DEF PollWait, Reap, TypeOK
    <2>4. QED BY <1>4, <2>2, <2>3 DEF PollWait, TypeOK
  <1>5. CASE PollReport
    <2>1. reported' \in Seq(0..255)
      <3>1. CASE StillThere
        BY <1>5, <3>1 DEF PollReport, TypeOK
      <3>2. CASE ~StillThere
        <4>1. reported \in Seq(0..255) /\ return_code \in 0..255
          BY DEF TypeOK
        <4>2. reported' = Append(reported, return_code)
          BY <1>5, <3>2 DEF PollReport
        <4>3. QED BY <4>1, <4>2
      <3>3. QED BY <3>1, <3>2
    <2>2. QED BY <1>5, <2>1 DEF PollReport, TypeOK
  <1>6. CASE PollNext
    BY <1>6 DEF PollNext, CapturesEnds, TypeOK
  <1>7. CASE KillTimer
    <2>1. LastSignals \in SUBSET Signals
      BY DEF LastSignals, Signals
    <2>2. signals' \subseteq Signals
      BY <1>7, <2>1, KillType DEF KillTimer, TypeOK
    <2>3. QED BY <1>7, <2>2 DEF KillTimer, TypeOK
  <1>8. CASE EnsureTerminate
    <2>1. signals' \subseteq Signals /\ kills' \in Nat /\ waiting' \in Nat
      <3>1. CASE DoTerminate
        BY <3>1, DoTerminateType
      <3>2. CASE UNCHANGED <<signals, kills, waiting>>
        BY <3>2 DEF TypeOK
      <3>3. QED BY <1>8, <3>1, <3>2 DEF EnsureTerminate
    <2>2. QED BY <1>8, <2>1 DEF EnsureTerminate, TypeOK
  <1>9. CASE Escalate
    <2>1. {HUP, TERM} \in SUBSET Signals
      BY DEF Signals
    <2>2. signals' \subseteq Signals
      BY <1>9, <2>1, KillType DEF Escalate, TypeOK
    <2>3. QED BY <1>9, <2>2 DEF Escalate, TypeOK
  <1>10. CASE ClosePipes
    <2>1. owner' \in [Ends -> {"child", "free", "other"}] /\ misclosed' \in BOOLEAN
      BY <1>10, CloseType DEF ClosePipes
    <2>2. closers' \in Nat
      <3>1. closers \in Nat /\ closers > 0 /\ closers' = closers - 1
        BY <1>10 DEF ClosePipes, TypeOK
      <3>2. QED BY <3>1
    <2>3. fields_set' = FALSE
      BY <1>10 DEF ClosePipes
    <2>4. UNCHANGED <<childVars, pollVars, timerVars, waitVars, calls>>
      BY <1>10 DEF ClosePipes
    <2>5. \A n \in {kills', eof_timers', escalations', waiting', reapers', closers',
                  calls'} : n \in Nat
      BY <2>2, <2>4 DEF TypeOK
    <2>6. fields_set' \in BOOLEAN
      BY <2>3
    <2>7. reported' \in Seq(0..255) /\ return_code' \in 0..255
      BY <2>4 DEF TypeOK
    <2>8. child' \in {"running", "zombie", "reaped"}
            /\ status' \in Statuses \cup {0}
            /\ pid' \in {"child", "nobody", "other"}
            /\ signals' \subseteq Signals
            /\ poll' \in {"armed", "waited", "tested", "off"}
      BY <2>4 DEF TypeOK
    <2>9. QED BY <2>1, <2>5, <2>6, <2>7, <2>8 DEF TypeOK
  <1>11. CASE WaiterWait
    <2>1. child' \in {"running", "zombie", "reaped"}
            /\ pid' \in {"child", "nobody", "other"}
      BY <1>11 DEF WaiterWait, Reap, TypeOK
    <2>2. waiting' \in Nat /\ reapers' \in Nat
      BY <1>11 DEF WaiterWait, TypeOK
    <2>3. QED BY <1>11, <2>1, <2>2 DEF WaiterWait, TypeOK
  <1>12. CASE WaiterCloses
    BY <1>12 DEF WaiterCloses, CapturesEnds, TypeOK
  <1>13. CASE ChildExits
    <2>1. status' \in Statuses
      BY <1>13 DEF ChildExits, Statuses
    <2>2. QED BY <1>13, <2>1 DEF ChildExits, TypeOK
  <1>14. ASSUME NEW n \in Signals, SignalDelivered(n) PROVE TypeOK'
    <2>1. n \in Statuses
      BY DEF Statuses
    <2>2. QED BY <1>14, <2>1 DEF SignalDelivered, TypeOK
  <1>15. CASE PidReused
    BY <1>15 DEF PidReused, TypeOK
  <1>16. ASSUME NEW fd \in Ends, FdReused(fd) PROVE TypeOK'
    BY <1>16 DEF FdReused, TypeOK
  <1>17. CASE UNCHANGED vars
    BY <1>17 DEF vars, TypeOK
  <1>18. CASE WriteCtrlD
    <2>1. signals' \subseteq Signals
      BY <1>18, KillType DEF WriteCtrlD, Signals
    <2>2. QED BY <1>18, <2>1 DEF WriteCtrlD, Call, TypeOK
  <1>19. QED
    BY <1>1, <1>2, <1>3, <1>4, <1>5, <1>6, <1>7, <1>8, <1>9, <1>10, <1>11, <1>12,
       <1>13, <1>14, <1>15, <1>16, <1>17, <1>18
    DEF Next, OwnerCalls, Poll, Timers, Waiters, System

\* Every variable of the process object keeps its type (process.py, class
\* CallbackSubprocess): the code reported fits in a byte, counters stay natural.
THEOREM ProcessTypeCorrect == Spec => []TypeOK
  BY InitType, NextType, PTL DEF Spec

(***************************************************************************)
(* The end of the child and its descriptors.                               *)
(***************************************************************************)

\* The pid leaves the child when it is reaped, and not before.  Once the poll has
\* reported, its next waitpid can only fail.
ReportInv ==
  /\ pid = "child" <=> child # "reaped"
  /\ Len(reported) <= 1
  /\ reported # <<>> => child = "reaped" /\ poll # "waited"

LEMMA ReportInvariant == Spec => []ReportInv
  <1>1. Init => ReportInv
    BY DEF Init, ReportInv
  <1>2. TypeOK /\ ReportInv /\ [Next]_vars => ReportInv'
    <2> SUFFICES ASSUME TypeOK, ReportInv, [Next]_vars PROVE ReportInv'
      OBVIOUS
    <2> USE DEF ReportInv, childVars, pollVars, timerVars, waitVars, pipeVars
    <2>1. CASE OwnerCalls
      BY <2>1 DEF OwnerCalls, Terminate, CloseStdin, WriteCtrlC, WriteCtrlD
    <2>2. CASE PollWait
      BY <2>2 DEF PollWait, Reap
    <2>3. CASE PollReport
      <3>1. reported = <<>>
        BY <2>3 DEF PollReport
      <3>2. CASE StillThere
        BY <2>3, <3>2 DEF PollReport
      <3>3. CASE ~StillThere
        <4>1. child = "reaped"
          BY <3>3 DEF StillThere, ProcessExists, TypeOK
        <4>2. Len(reported') = 1
          BY <2>3, <3>1, <3>3 DEF PollReport, TypeOK
        <4>3. QED BY <2>3, <4>1, <4>2 DEF PollReport
      <3>4. QED BY <3>2, <3>3
    <2>4. CASE PollNext
      BY <2>4 DEF PollNext
    <2>5. CASE Timers
      BY <2>5 DEF Timers, KillTimer, EnsureTerminate, Escalate, ClosePipes
    <2>6. CASE Waiters
      BY <2>6 DEF Waiters, WaiterWait, WaiterCloses, Reap
    <2>7. CASE System
      BY <2>7 DEF System, ChildExits, SignalDelivered, PidReused, FdReused
    <2>8. CASE UNCHANGED vars
      BY <2>8 DEF vars
    <2>9. QED
      BY <2>1, <2>2, <2>3, <2>4, <2>5, <2>6, <2>7, <2>8 DEF Next, Poll
  <1>3. QED BY <1>1, <1>2, ProcessTypeCorrect, PTL DEF Spec

\* The terminated callback is called at most once and only for a child that has
\* been reaped, whichever of the poll and the waiter threads reaps it, and even if
\* the pid is given away between two tests of the poll (process.py:704-719).
THEOREM ReportOnceHolds == Spec => []ReportOnce
  <1>1. ReportInv => ReportOnce
    BY DEF ReportInv, ReportOnce
  <1>2. QED BY <1>1, ReportInvariant, PTL

(***************************************************************************)
(* The descriptors of a child that is left alone.                          *)
(***************************************************************************)

\* Without a call no timer but the poll's is ever armed and no waiter runs.  The poll
\* has the ends captured once, as it goes off, and they are the child's until then.
AloneInv ==
  calls = 0 =>
    /\ kills = 0 /\ eof_timers = 0 /\ waiting = 0 /\ reapers = 0
    /\ closers \in {0, 1}
    /\ poll # "off" => closers = 0
    /\ poll # "off" \/ closers = 1 => \A fd \in Ends : owner[fd] = "child"
    /\ ~misclosed

LEMMA AloneInvariant == Spec => []AloneInv
  <1>1. Init => AloneInv
    BY DEF Init, AloneInv
  <1>2. TypeOK /\ AloneInv /\ [Next]_vars => AloneInv'
    <2> SUFFICES ASSUME TypeOK, AloneInv, [Next]_vars PROVE AloneInv'
      OBVIOUS
    <2> USE DEF AloneInv, childVars, pollVars, timerVars, waitVars, pipeVars
    <2>1. CASE OwnerCalls
      <3>1. calls' # 0
        BY <2>1 DEF OwnerCalls, Terminate, CloseStdin, WriteCtrlC, WriteCtrlD, Call, TypeOK
      <3>2. QED BY <3>1
    <2>2. CASE PollWait
      BY <2>2 DEF PollWait
    <2>3. CASE PollReport
      BY <2>3 DEF PollReport
    <2>4. CASE PollNext
      BY <2>4 DEF PollNext, CapturesEnds
    <2>5. CASE KillTimer
      BY <2>5 DEF KillTimer
    <2>6. CASE EnsureTerminate
      BY <2>6 DEF EnsureTerminate
    <2>7. CASE Escalate
      BY <2>7 DEF Escalate
    <2>8. CASE ClosePipes
      <3> SUFFICES ASSUME calls = 0 PROVE AloneInv'
        BY <2>8 DEF ClosePipes
      <3>1. poll = "off" /\ closers = 1 /\ closers' = 0
        BY <2>8 DEF ClosePipes
      <3>2. ~misclosed'
        BY <2>8, <3>1 DEF ClosePipes, Close
      <3>3. QED BY <2>8, <3>1, <3>2 DEF ClosePipes
    <2>9. CASE Waiters
      BY <2>9 DEF Waiters, WaiterWait, WaiterCloses
    <2>10. CASE ChildExits
      BY <2>10 DEF ChildExits
    <2>11. ASSUME NEW n \in Signals, SignalDelivered(n) PROVE AloneInv'
      BY <2>11 DEF SignalDelivered
    <2>12. CASE PidReused
      BY <2>12 DEF PidReused
    <2>13. ASSUME NEW fd \in Ends, FdReused(fd) PROVE AloneInv'
      BY <2>13 DEF FdReused
    <2>14. CASE UNCHANGED vars
      BY <2>14 DEF vars
    <2>15. QED
      BY <2>1, <2>2, <2>3, <2>4, <2>5, <2>6, <2>7, <2>8, <2>9, <2>10, <2>11, <2>12,
         <2>13, <2>14
      DEF Next, Poll, Timers, System
  <1>3. QED BY <1>1, <1>2, ProcessTypeCorrect, PTL DEF Spec

\* A child that is left alone has only its own descriptors closed, however soon the
\* system hands the freed numbers out again (process.py:490-514, 720).
THEOREM ClosesOnlyOwnHolds == Spec => []ClosesOnlyOwn
  <1>1. AloneInv => ClosesOnlyOwn
    BY DEF AloneInv, ClosesOnlyOwn
  <1>2. QED BY <1>1, AloneInvariant, PTL
=============================================================================
