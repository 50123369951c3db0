------------------------- MODULE CallbackSubprocess -------------------------
(***************************************************************************)
(* The command of a session: class CallbackSubprocess of                   *)
(* src/rnsh/process.py, from the return of start().                        *)
(*                                                                         *)
(* The object follows its child through three channels that do not know    *)
(* of each other: a poll on the event loop (waitpid with WNOHANG, then two *)
(* tests that the pid exists), one waiter thread for every call of         *)
(* terminate() (a blocking waitpid), and timers that send signals to the   *)
(* pid or close captured descriptors.  Each may find another was first.    *)
(* Timers have no clock: one that is armed may fire at any later moment.   *)
(* The kernel's part is external: signals, zombies, and the reuse of pids  *)
(* and descriptor numbers by the rest of the system.                       *)
(***************************************************************************)
EXTENDS Naturals, Sequences

CONSTANTS
  ExitCodes,     \* codes with which the command may exit by itself
  Ends,          \* descriptors of the parent's ends; a single one on a pty
  StdinFd,       \* the one that leads to the child's stdin
  Reuse,         \* whether the system reuses freed pids and descriptors
  MaxCalls       \* bound: calls of terminate, close_stdin and write

ASSUME ExitCodeAssumption == ExitCodes \subseteq 0..255
ASSUME EndsAssumption == StdinFd \in Ends
ASSUME ReuseAssumption == Reuse \in BOOLEAN /\ MaxCalls \in Nat

HUP == 1   INT == 2   KILL == 9   TERM == 15
Signals  == {HUP, INT, KILL, TERM}
Statuses == {c * 256 : c \in ExitCodes} \cup Signals   \* of wait(2), 16 bits

VARIABLES
  child,         \* "running", "zombie" or "reaped"
  status,        \* its wait status once it has ended, 0 before
  pid,           \* whose the number _pid is: "child", "nobody" or "other"
  signals,       \* signals on their way to the child
  poll,          \* where the poll is: "armed", "waited", "tested" or "off"
  return_code,   \* _return_code as the poll's last waitpid left it
  reported,      \* codes given to the terminated callback
  kills, eof_timers, escalations,   \* armed timers
  waiting,       \* waiter threads inside waitpid
  reapers,       \* waiter threads past it
  fields_set,    \* whether _child_stdin, _child_stdout, _child_stderr are set
  closers,       \* armed timers that will close the ends they captured
  owner,         \* whose each of those descriptor numbers is
  calls,         \* calls made so far, against MaxCalls
  misclosed      \* whether a descriptor of somebody else has been closed

childVars == <<child, status, pid, signals>>
pollVars  == <<poll, return_code, reported>>
timerVars == <<kills, eof_timers, escalations>>
waitVars  == <<waiting, reapers>>
pipeVars  == <<fields_set, closers, owner>>

vars == <<childVars, pollVars, timerVars, waitVars, pipeVars, calls, misclosed>>

TypeOK ==
  /\ child \in {"running", "zombie", "reaped"}
  /\ status \in Statuses \cup {0}
  /\ pid \in {"child", "nobody", "other"}
  /\ signals \subseteq Signals
  /\ poll \in {"armed", "waited", "tested", "off"}
  /\ return_code \in 0..255
  /\ reported \in Seq(0..255)
  /\ \A n \in {kills, eof_timers, escalations, waiting, reapers, closers, calls} :
       n \in Nat
  /\ fields_set \in BOOLEAN
  /\ owner \in [Ends -> {"child", "free", "other"}]
  /\ misclosed \in BOOLEAN

Init ==
  /\ child = "running" /\ status = 0 /\ pid = "child" /\ signals = {}
  /\ poll = "armed" /\ return_code = 0 /\ reported = <<>>
  /\ kills = 0 /\ eof_timers = 0 /\ escalations = 0
  /\ waiting = 0 /\ reapers = 0
  /\ fields_set = TRUE /\ closers = 0 /\ owner = [fd \in Ends |-> "child"]
  /\ calls = 0 /\ misclosed = FALSE

-----------------------------------------------------------------------------
(***************************************************************************)
(* Helpers of process.py.                                                  *)
(***************************************************************************)

\* process_exists, and running: kill(pid, 0) succeeds for a zombie and for
\* whatever process has the number.
ProcessExists == pid # "nobody"
AlwaysGone == FALSE
AlwaysThere == TRUE
StillThere == ProcessExists
PollWhileRunning == child = "running"
PollAgain == ProcessExists

\* os.kill(_pid, ...) with errors suppressed.
Kill(S) ==
  signals' = IF child = "running" THEN signals \cup S ELSE signals

\* What kill() sends when the delay of terminate() is over.
PoliteSignals == {HUP}
LastSignals   == {HUP, KILL}

\* terminate(), once it has found the process running.
DoTerminate ==
  /\ Kill({TERM})
  /\ kills' = kills + 1
  /\ waiting' = waiting + 1

\* os.close with errors suppressed.
ClosedOwner(S) == [fd \in Ends |-> IF fd \in S THEN "free" ELSE owner[fd]]
Close(S) ==
  /\ owner' = ClosedOwner(S)
  /\ misclosed' = (misclosed \/ \E fd \in S : owner[fd] = "other")

\* _ensure_pipes_closed captures the descriptors and arms the close timer.
CapturesNothing == closers
CapturesTwice == closers + 2
CapturesEnds == IF fields_set THEN closers + 1 ELSE closers

\* Reaping leaves the pid to the system.
Reap == child' = "reaped" /\ pid' = "nobody"

\* The code the poll makes of a wait status.
WholeStatus(s) == s
LowByte(s) == s % 256

-----------------------------------------------------------------------------
(***************************************************************************)
(* Calls of the owner of the object, from any of its threads.              *)
(***************************************************************************)
Call == calls < MaxCalls /\ calls' = calls + 1

Terminate ==
  /\ Call
  /\ IF ProcessExists
       THEN DoTerminate
       ELSE UNCHANGED <<signals, kills, waiting>>
  /\ UNCHANGED <<child, status, pid, pollVars, eof_timers, escalations, reapers,
                 pipeVars, misclosed>>

\* close_stdin closes the descriptor and leaves the field as it is.
CloseStdin ==
  /\ Call
  /\ IF fields_set THEN Close({StdinFd}) ELSE UNCHANGED <<owner, misclosed>>
  /\ eof_timers' = eof_timers + 1
  /\ UNCHANGED <<childVars, pollVars, kills, escalations, waitVars, fields_set,
                 closers>>

\* write(CTRL_C) interrupts the command and arms _escalate.
WriteCtrlC ==
  /\ Call
  /\ ProcessExists
  /\ Kill({INT})
  /\ escalations' = escalations + 1
  /\ UNCHANGED <<child, status, pid, pollVars, kills, eof_timers, waitVars,
                 pipeVars, misclosed>>

\* write(CTRL_D) hangs the command up.  The code does so on a pseudo terminal only.
WriteCtrlD ==
  /\ Call
  /\ ProcessExists
  /\ Kill({HUP})
  /\ UNCHANGED <<child, status, pid, pollVars, timerVars, waitVars, pipeVars, misclosed>>

-----------------------------------------------------------------------------
(***************************************************************************)
(* The event loop: the poll in its three steps, and the timers.            *)
(***************************************************************************)
LoopFree == poll \in {"armed", "off"}

\* os.waitpid(_pid, WNOHANG).  If another thread has reaped the child it raises
\* ECHILD, which ends the poll.
PollWait ==
  /\ poll = "armed"
  /\ \/ /\ child = "zombie"
        /\ Reap
        /\ return_code' = LowByte(status)
        /\ poll' = "waited"
     \/ /\ child = "running"
        /\ return_code' = 0
        /\ poll' = "waited"
        /\ UNCHANGED <<child, pid>>
     \/ /\ child = "reaped"
        /\ poll' = "off"
        /\ UNCHANGED <<child, pid, return_code>>
  /\ UNCHANGED <<status, signals, reported, timerVars, waitVars, pipeVars, calls,
                 misclosed>>

\* The callback gets the code unless the process still exists.
PollReport ==
  /\ poll = "waited"
  /\ poll' = "tested"
  /\ reported' = IF StillThere THEN reported ELSE Append(reported, return_code)
  /\ UNCHANGED <<childVars, return_code, timerVars, waitVars, pipeVars, calls,
                 misclosed>>

\* The poll goes on while the process exists, and else has the ends closed.
PollNext ==
  /\ poll = "tested"
  /\ \/ PollAgain /\ poll' = "armed" /\ UNCHANGED closers
     \/ ~PollAgain /\ poll' = "off" /\ closers' = CapturesEnds
  /\ UNCHANGED <<childVars, return_code, reported, timerVars, waitVars,
                 fields_set, owner, calls, misclosed>>

\* The kill timer of terminate().
KillTimer ==
  /\ LoopFree /\ kills > 0
  /\ kills' = kills - 1
  /\ IF ProcessExists THEN Kill(LastSignals) ELSE UNCHANGED signals
  /\ UNCHANGED <<child, status, pid, pollVars, eof_timers, escalations, waitVars,
                 pipeVars, calls, misclosed>>

\* The timer of close_stdin.
NeverLingers == FALSE
Linger == ProcessExists
EnsureTerminate ==
  /\ LoopFree /\ eof_timers > 0
  /\ eof_timers' = eof_timers - 1
  /\ IF Linger
       THEN DoTerminate
       ELSE UNCHANGED <<signals, kills, waiting>>
  /\ UNCHANGED <<child, status, pid, pollVars, escalations, reapers, pipeVars,
                 calls, misclosed>>

\* The timer of write(CTRL_C).
Escalate ==
  /\ LoopFree /\ escalations > 0
  /\ escalations' = escalations - 1
  /\ IF ProcessExists THEN Kill({HUP, TERM}) ELSE UNCHANGED signals
  /\ UNCHANGED <<child, status, pid, pollVars, kills, eof_timers, waitVars,
                 pipeVars, calls, misclosed>>

\* ensure_pipes_closed_inner closes what was captured and clears the fields.
ClosePipes ==
  /\ LoopFree /\ closers > 0
  /\ closers' = closers - 1
  /\ Close(Ends)
  /\ fields_set' = FALSE
  /\ UNCHANGED <<childVars, pollVars, timerVars, waitVars, calls>>

-----------------------------------------------------------------------------
(***************************************************************************)
(* The waiter threads of terminate().                                      *)
(***************************************************************************)

\* os.waitpid(_pid, 0) reaps the child or raises ECHILD, which is suppressed.
WaiterWait ==
  /\ waiting > 0
  /\ child # "running"
  /\ waiting' = waiting - 1
  /\ reapers' = reapers + 1
  /\ IF child = "zombie" THEN Reap ELSE UNCHANGED <<child, pid>>
  /\ UNCHANGED <<status, signals, pollVars, timerVars, pipeVars, calls, misclosed>>

WaiterCloses ==
  /\ reapers > 0
  /\ reapers' = reapers - 1
  /\ closers' = CapturesEnds
  /\ UNCHANGED <<childVars, pollVars, timerVars, waiting, fields_set, owner,
                 calls, misclosed>>

-----------------------------------------------------------------------------
(***************************************************************************)
(* The child and the system.                                               *)
(***************************************************************************)
ChildExits ==
  /\ child = "running"
  /\ child' = "zombie"
  /\ \E c \in ExitCodes : status' = c * 256
  /\ UNCHANGED <<pid, signals, pollVars, timerVars, waitVars, pipeVars, calls,
                 misclosed>>

\* A signal ends the child; all but SIGKILL may be caught and ignored.
SignalDelivered(n) ==
  /\ child = "running" /\ n \in signals
  /\ signals' = signals \ {n}
  /\ \/ child' = "zombie" /\ status' = n
     \/ n # KILL /\ UNCHANGED <<child, status>>
  /\ UNCHANGED <<pid, pollVars, timerVars, waitVars, pipeVars, calls, misclosed>>

PidReused ==
  /\ Reuse /\ pid = "nobody"
  /\ pid' = "other"
  /\ UNCHANGED <<child, status, signals, pollVars, timerVars, waitVars, pipeVars,
                 calls, misclosed>>

FdReused(fd) ==
  /\ Reuse /\ owner[fd] = "free"
  /\ owner' = [owner EXCEPT ![fd] = "other"]
  /\ UNCHANGED <<childVars, pollVars, timerVars, waitVars, fields_set, closers,
                 calls, misclosed>>

-----------------------------------------------------------------------------
OwnerCalls == Terminate \/ CloseStdin \/ WriteCtrlC \/ WriteCtrlD
Poll       == PollWait \/ PollReport \/ PollNext
Timers     == KillTimer \/ EnsureTerminate \/ Escalate \/ ClosePipes
Waiters    == WaiterWait \/ WaiterCloses
System     == \/ ChildExits
              \/ \E n \in Signals : SignalDelivered(n)
              \/ PidReused
              \/ \E fd \in Ends : FdReused(fd)

Next == OwnerCalls \/ Poll \/ Timers \/ Waiters \/ System

Spec == Init /\ [][Next]_vars

\* The loop serves the poll and every armed timer, the waiter threads run, and
\* the kernel delivers signals.  A timer cannot fire inside the poll, which comes
\* back again and again, so its fairness is strong: asyncio runs what is due in
\* order.  The command need not end by itself.
Fairness ==
  /\ WF_vars(Poll)
  /\ SF_vars(KillTimer) /\ SF_vars(EnsureTerminate) /\ SF_vars(ClosePipes)
  /\ WF_vars(Waiters)
  /\ \A n \in Signals : WF_vars(SignalDelivered(n))

FairSpec == Spec /\ Fairness

-----------------------------------------------------------------------------
(***************************************************************************)
(* Properties.                                                             *)
(***************************************************************************)

\* The terminated callback is called at most once, and never for a child that
\* still runs or waits to be reaped, whoever reaps it (process.py:704-719).
ReportOnce == Len(reported) <= 1 /\ (reported # <<>> => child = "reaped")

\* A child that ends without terminate() or a timer that calls it has its code
\* reported: the poll is then the only one to reap it.  It cannot tell a process
\* that was given the number since (process.py:201-212, 710).
Undisturbed == waiting = 0 /\ reapers = 0 /\ kills = 0 /\ eof_timers = 0
EndReported ==
  child = "zombie" /\ Undisturbed
    ~> reported # <<>> \/ ~Undisturbed \/ pid = "other"

\* terminate() ends any command, also one that ignores SIGTERM (process.py:519),
\* and a command that lingers after close_stdin is ended (process.py:550).
EndsWhenAsked == waiting > 0 \/ eof_timers > 0 ~> child # "running"

\* An ended child does not stay a zombie: the poll or a waiter reaps it, and whoever
\* does, its descriptors are closed and forgotten in the end, unless another process
\* has got its number before the poll looked (process.py:497-514, 538-545, 704-721).
CleanedUp ==
  child # "running" ~>
    /\ child = "reaped"
    /\ \/ pid = "other"
       \/ ~fields_set /\ \A fd \in Ends : owner[fd] # "child"

\* A child that is left alone has only its own descriptors closed, although the
\* numbers may be in use elsewhere as soon as they are free (process.py:490-514).
\* After close_stdin, which does not clear its field, and after terminate(), whose
\* waiter may queue a second close, this is not so.
ClosesOnlyOwn == calls = 0 => ~misclosed

-----------------------------------------------------------------------------
(***************************************************************************)
(* What the documents say and the code does not do.                        *)
(***************************************************************************)

\* "Client returns with code of remote process" (args.py:50): the code reported
\* for a command that exits by itself is its exit code.  The poll masks the wait
\* status, whose low byte is the signal number.
ExitCodeReported ==
  reported # <<>> /\ status % 256 = 0 => reported[1] = status \div 256
=============================================================================
