# A formal model of rnsh

rnsh runs a shell command on a remote machine over a Reticulum link.  A
*listener* waits for links; an *initiator* opens one, identifies itself, agrees on
a protocol version, asks for a command and then exchanges its standard streams.
This directory holds TLA+ modules translated from `src/rnsh`, the TLC
configurations that check them on small instances, and proofs for the TLA+ proof
system of what must hold for every instance.

| file | contents |
|------|----------|
| `RemoteSession.tla` | what a session promises the initiator about its messages (abstract) |
| `Pipe.tla` | what a stream through the network promises (abstract) |
| `ListenerSession.tla` | one session of the listener (`session.py`); implements `RemoteSession` |
| `Initiator.tla` | the initiator (`initiator.py`) with a session that keeps `RemoteSession`; implements `Pipe` for its input and for its output |
| `StdinFilter.tla` | the keys of the initiator's terminal: escape sequences and line mode |
| `CallbackSubprocess.tla` | the command of a session (`process.py`) |
| `Listener.tla` | the listener's main loop and its list of sessions |
| `SharedConfig.tla` | what sessions share: allow file and default command (`listener.py`, `session.py`) |
| `RetryThread.tla` | the timer thread of `retry.py` |
| `MC*.tla`, `*.cfg` | small instances for TLC, named after the module or the run |
| `*Proofs.tla` | theorems about a module, for every value of its constants |
| `PROJECT.json` | index: components, runs, map to the source, hazards, findings, theorems |

Run `tlc -config session_run.cfg MCListenerSession.tla` to check an instance and
`tlapm ListenerSessionProofs.tla` to check the proofs.  All runs are exhaustive.

## The system

| component | source | state | operations | hard about it |
|-----------|--------|-------|------------|---------------|
| Listener session | `session.py` `ListenerSession` | protocol state, `authenticated`, `terminated`, the process, output buffers, return code | identification, message handler, start of the command, pump, timers, terminate, prune | three threads and no lock; state read again after another thread may have moved it |
| Child process | `process.py` `CallbackSubprocess` | pid, descriptors, return code | start, write, close_stdin, terminate, poll, waiter threads, timers | poll and waiters race for the zombie; pid and descriptor numbers outlive what they name |
| Listener | `listener.py`, class variables of `ListenerSession` | allow lists, list of sessions, default command | link established, reload of the allow file, pump loop, shutdown | the list changes while it is iterated; a list is emptied and refilled under readers |
| Initiator | `initiator.py` | own protocol state, message queue, input buffers, `_finished` | link set-up, handshake, main loop, escape sequences | link closed before `_finished` exists; messages queued when the loop stops |
| Retry thread | `retry.py` | list of pending tries, run flag | begin, complete, complete_all, close, the timer thread | decisions on a snapshot; a tag used again |
| Protocol messages | `protocol.py` | none | packing, unpacking | header bit fields |
| Helpers, logging, entry, options | `helpers.py`, `exception.py`, `loop.py`, `rnslogging.py`, `testlogging.py`, `rnsh.py`, `args.py`, `docopt.py` | little | pure functions, I/O | - |
| Reticulum | external | links, channels | identify, send, prove, close | its threads call into the session at any time |

How they interact.  Reticulum calls the listener for a new link; that constructs a
session, which registers itself in the class-wide list and sets three callbacks: for
the initiator's identity, for messages, and for the end of the link.  The first two
run on Reticulum's delivery thread, the third on its watchdog thread (or inside
`Link.teardown`).  The listener's asyncio loop calls `pump` on every session in turn,
and runs the session's timers.  The session owns a `CallbackSubprocess`, which calls
back from the loop with output and a return code, and from the delivery thread with
input it echoes itself.  The two ends talk only through the messages of `protocol.py`
over a channel with a window of unproved messages: `is_ready_to_send` says whether
there is room, and `send` raises when there is none.

What makes each component correct:

- *Session*: no command without an accepted identity; one command; output complete, in
  order and once; the messages in the protocol's order; a dead session begins nothing, says
  nothing but errors and what is under way, and is destroyed; a command does not survive it.
- *Child process*: the end is reported once, only when it is over, with the right code;
  a command told to end ends; zombies are reaped; its descriptors are closed, and no
  others.
- *Listener*: every registered session is pumped and, at shutdown, terminated; a
  reload of the allow file neither admits who was taken off it nor locks out who is on it;
  sessions do not influence each other's command line.
- *Initiator*: prints the output it was sent before it returns the code; returns when the
  link is gone; sends its input once, in order, then the end of it.
- *Retry thread*: tries at most the limit; one timeout per status; nothing after
  completion; every begun status ends.

## ListenerSession

One action per handler, callback or timer; a handler that reads the shared state, and
acts on it after the other threads may have run, is cut into steps there.

| thread | actions | code |
|--------|---------|------|
| delivery | `InitiatorIdentified`, then `AcceptIdentity`, `RejectIdentity` or `HandlerTerminate` | `_initiator_identified` 185-204 |
| delivery | `HandleMessage` (first guard), `Dispatch` (the tests after it), then `HandleVersion`, `HandleExecute`, `StartCmd`, `Spawn`, `HandleStdin`, `HandleNoop` or `HandlerTerminate` | `_handle_message` 367-414, `_start_cmd` 298-351, `_received_stdin` 361-365 |
| loop | `PumpStream` / `PumpExit` (tests and the cut of the buffer), `PumpSendStream` / `PumpSendExit` (send) | `pump` 224-291 |
| loop | `ReadOutput`, `PollReaps` | callbacks of the child 118, 329-333 |
| loop | `CheckProtocolTimeout`, `Prune`, `EnsureTerminate` | timers 126-128, 158-173, `process.py` 551-555 |
| loop | `Shutdown` | `terminate_all` 214-219 |
| watchdog | `LinkClosed` | `_link_closed` 175-183 |
| waiter | `WaiterReaps` | `process.py` 538-545 |
| outside | `ChildWrites`, `ChildExits`, `Prove`, `LinkDown` | the command, the peer, the link |

`pc` and `arg` are the place of the delivery thread in a handler and what it handles;
`ppc`, `chunk` and `rest` are those of the loop in `pump`.  `terminate()` is one
operator, `Terminate`, used by all its callers.  `prunes` counts armed prune timers,
`checks[s]` the timers of `_check_protocol_timeout` armed when the session *left* state
`s`: that is what their condition compares with.  `registered` is membership in
`sessions`.  `process` is `"zombie"` between the exit of the command and its reaping,
when `running` is still true in the code.  `killing` is true once `process.terminate()`
was called on a running command.  `shutdown` is true once the listener's main loop has
ended: the session is terminated and pumped no more.

`Terminate` is one step although `terminate()` sends, sets two fields, signals the
command and arms a timer.  What another thread could see in between is a dead session
that is not yet quite dead; the windows that matter, those inside the handlers and the
pump that run against it, are modelled.  A handler or a pump that was under way at the
death goes on: `QuietAfterTermination` says that each sends one message at most, that
neither is begun again, and that all else is errors.

Abstractions.  A chunk of output is a number that counts what the command has written
to that stream; the text is left out, and compression becomes the choice of any
non-empty prefix.  `Echo` is a chunk that the process object echoes itself.  Messages
are kinds: what a field can change about the control is a kind of its own
(`BadVersion`, `ExecuteCmd` for a command line, `StdinEof`, `BadStream`).  Timers
carry no time: an armed timer may fire at any moment, so every order the delays allow
is among those checked.  `send_eof` of `pump` can never be true (it asks for an empty
chunk of a buffer that is not empty) and is left out.

Two facts about the surroundings are assumed and marked external: Reticulum delivers
messages and identifications of one link one at a time, and calls the link-closed
callback that is set when the link ends.

`RemoteSession` is the abstract specification of what appears on the channel: the version
once and first, output only after it, of a command that has been started once, in the
order in which the command wrote it and each chunk at most once, the exit once and only of
a command that has ended; an error at any time.  `ImplementsRemote` is the refinement:
`sent` is mapped to itself, and the abstract command has ended when the return code is
known.  `Initiator` takes the same specification for its listener.

### What the runs show

| run | instance | shows |
|-----|----------|-------|
| `session_life` | authentication, `-C`, a listed and an unlisted identity, 4 inputs with the end of stdin among them, window 1, a command without output, fair | `AuthGate`, `OneCommand`, `DestroyScheduled`, `DeadDestroyed`, `ExitReported`, `TypeOK` |
| `session_run` | `--no-auth`, 3 inputs, window 1, two chunks of stdout and one of stderr | `ImplementsRemote`, `OutputConserved`, `ProcessDereferenceSafe`, `QuietAfterTermination` |
| `session_orphan` | | refutes `NoOrphan` |
| `session_timeouts` | fair | refutes `HandshakeTimesOut` |

Bounds.  `MaxInputs` bounds the messages and identifications of one session.  Four
reach every state with one input to spare (identity, version, command, and one message
in RUNNING or after the session died), and any earlier deviation leaves several more
for a dead session.  A window of one is the hardest case for the pump, since every
message in flight makes the channel unready.  Two chunks of a stream are the fewest that
can be reordered, doubled or lost in part; the second stream is there to be interleaved.  Counters of timers need no bound: every
timer is armed by an input, by one of two calls of `terminate` or by another timer.

Fairness (`Fairness`).  The threads take their steps, the loop serves every callback
that is due and every timer fires: asyncio runs ready callbacks in order and `pump_all`
comes round to every session.  `Settle` says that a message on the link is proved in
the end or the link given up, which is Reticulum's retransmission.  Nothing is assumed
of the initiator's messages or of the command.  Nothing is expected after `shutdown`
either: the program ends a second later, before the prune timers.

### Disagreements with the documents

- `NoOrphan` (README 281-282).  `terminate()` on the watchdog thread between the checks of
  `_start_cmd` and the fork finds no process.  The command then runs on after its
  session is destroyed.
- `HandshakeTimesOut` (`session.py` 145).  The timer's condition is that the state is still
  the one that was *left*; so no stalled handshake times out.
- The exit may overtake output.  The return code is polled and the output read by a
  callback, so `CommandExitedMessage` may go first; the initiator stops there, although
  `tests/test_rnsh.py` 201 expects the whole output.  `RemoteSession` therefore allows
  output after the exit.
- The end of a command may stay unreported (README 283).  After the end of stdin the timer of
  `close_stdin` terminates a command that is already a zombie; the thread this starts may
  reap it before the poll does, and no return code is ever known.  `ExitReported` is about
  return codes that are known, `CallbackSubprocess!EndReported` about undisturbed ends.
- Not checked, since it is plain from the text: README 271-272 promises a
  `CommandExitedMessage` when the command cannot be started; `_start_cmd` sends an
  `ErrorMessage`.

## CallbackSubprocess

| where | actions | code |
|-------|---------|------|
| owner | `Terminate`, `CloseStdin`, `WriteCtrlC`, `WriteCtrlD` | 516-545, 547-555, 571-591, 609-615 |
| loop | `PollWait`, `PollReport`, `PollNext` (the poll, cut where a waiter may reap) | 704-721 |
| loop | `KillTimer`, `EnsureTerminate`, `Escalate`, `ClosePipes` | 529-536, 551-555, 584-591, 497-514 |
| waiter threads | `WaiterWait`, `WaiterCloses` | 538-545 |
| outside | `ChildExits`, `SignalDelivered`, `PidReused`, `FdReused` | kernel |

`status` is the 16-bit wait status: the exit code times 256, or the number of a signal.
`pid` and `owner` say whose the numbers are by now; the code's own tests (`kill(pid, 0)`,
`close(fd)`) see only the numbers.  Any signal but SIGKILL may be ignored by the command.

| run | instance | shows |
|-----|----------|-------|
| `process` | three pipes, 2 calls, pid and descriptor numbers reused, fair | `ReportOnce`, `ClosesOnlyOwn`, `EndReported`, `EndsWhenAsked`, `CleanedUp`, `TypeOK` |
| `process_exit_code` | no calls | refutes `ExitCodeReported` |

Two calls let each of terminate, close_stdin, CTRL-C and CTRL-D meet another, or one of them meet
itself, and give up to two waiter threads and four timers.  With the pid in other hands
`running` stays true and nothing about the end of the command can be expected: the
liveness properties except that case (`pid = "other"`).  Fairness of the timers is strong because
the model forbids a timer inside the three steps of the poll, which recur for ever;
asyncio runs a timer that is due before the next poll, so it cannot be starved.

- `ExitCodeReported` (`args.py` 50).  The poll keeps the low byte of the wait status, which
  is 0 for every command that exits by itself.
- `close_stdin` closes its descriptor but keeps the number, and `terminate()` and the poll
  both queue a close of the numbers they captured: a number closed twice may by then name
  another descriptor.  `ClosesOnlyOwn` is therefore about a child that is left alone
  (`calls = 0`), and fails without that condition.

Output is not in this module: the session module has it as chunks.  Writing to the
command is a system call whose result the code ignores; `_launch_child`, window size and
terminal attributes are system calls.

## Listener

The sessions are here no more than live or terminated; what they do inside is the subject
of `ListenerSession`.  The question is what becomes of the list they are on.

| thread | actions | code |
|--------|---------|------|
| delivery | `LinkUp`, `SetCallbacks`, `Register` (link_established and the constructor, cut where a callback it has just set may run) | `listener.py` 208-211, `session.py` 78-116 |
| watchdog | `LinkDown`, `LinkClosed` | Reticulum, `session.py` 175-183 |
| delivery, loop | `ProtocolError` | `session.py` 141-156 |
| loop | `Prune` (with the link-closed callback that its teardown calls) | `session.py` 158-164 |
| loop | `CheckFinished`, `PumpNext`, `TerminateNext`, `ListLinks`, `TearDownNext`, `Exit` (the main coroutine, cut at each await) | `listener.py` 230-249, `session.py` 206-219 |
| signal | `Interrupt` | `listener.py` 82-89 |

`sessions` is the list in its order and `next` the index that the `for` statement over it
will look at: Python iterates by index, so a session removed at or before it shifts the
others under the iteration, and one that is appended is met by the same iteration.

Run `listener`: three links, each established at most once; nothing else is bounded.
Three is the fewest with a session before, at and after the index.  It shows that a
session passed over by one iteration is pumped by a later one (`PumpedAgain`), that dead
sessions leave the list although each may be terminated and pruned several times
(`DeadPruned`), that shutdown ends although links go on arriving (`ShutdownEnds`) and
that it reaches every session that was there in time (`ShutdownReachesAll`).  Links are
finite in number, so `PumpedAgain` and `ShutdownEnds` say nothing of an endless stream of
new ones.  The three are written with `[]<>` and not with `~>`, which says the same of them
(a terminated session stays so while it is on the list, the interrupt is not taken
back) and is checked several times faster.

The shutdown lists the links that are open (`ListLinks`, `links_still_active`) and tears
them down one by one, giving up control after each.  `served` records the sessions that got
on the list with an open link before that.  Each of them is dead in the end or is being
told: `terminate_all` may pass over one, and one may come while it sleeps, but then its
link is among those listed, unless it has closed by itself.  A session that is established
during the turns of the teardown is in neither list and outlives the listener with an open
link, until the program ends and the other side notices.

`prune_armed` says that a prune timer of the session runs.  There may be several; the
first that is due does everything, and the others find nothing to do unless the session
was terminated again, so that a Boolean stands for any number.

`link` is `"closing"` from the moment Reticulum marks the link closed until it calls the
callback, if one is set by then.  A session whose link closes while it is under
construction may be told too early, and is set live again by the constructor; one whose
link closed before the callback was set is never told.  The first keeps its prune timer
(except right after line 84, when it has no loop to arm one on), the second stays on the
list until shutdown.  So README 281-282, a session is destroyed when its link is torn
down, is not stated here: `DeadPruned` is about terminated sessions.  Prune timers are
assumed to take longer (6 seconds at least) than the constructor.

## SharedConfig

A reload of the allow file is cut where it can fail and where a lookup by another thread
sees a difference: open, rebind of the module's name to an empty list (`NewList`), read,
each append, rebind of the class's name (`Bind`).  A list is named by the link whose
reload made it, since what matters is which list the two names are bound to.
Nothing keeps the reloads of two links apart, and the model does not either: an append
goes to whatever list the module's name is bound to by then.

`listed_since[l]` holds the identities that were in the file at some time since the link was
up, or since a reload began that was under way at that moment; `kept_since[l]` those that
were in it all the time since the link was up.  Nothing else may be accepted on the link
(`OnlyListed`), and all of these have to be (`AlwaysListed`), with these exceptions, all of
them from `listener.py` 98-116:

- A link whose own reload cannot open the file (`opened[l]` stays false) gets the list that was
  loaded last, however old.  The failed open of another link's reload changes nothing.
- A reload that fails to read has already bound the name to an empty list: every identity
  of the file is locked out, for all sessions, until a later one opens it (`unread`).
- While two reloads overlap, the earlier may append to the later one's list, and either may
  hand out a list that is still being filled: identities are missing for a while.  Once
  no reload is under way the list that was opened last is complete, whoever appended to
  it, and the class has it.

Reloads that come one by one and can read the file leave no such while (`undisturbed[l]`): the
sessions see the old list until the new one is complete.

`StartCmd` and
`Spawn` are the parts of `_start_cmd` that choose and use the command line: with `-A` the
list bound to `cmdline` *is* `default_command`, and is read again at the fork.

| run | instance | shows |
|-----|----------|-------|
| `config` | three links, two identities, one edit of the file, command lines of none or one word, every combination of `-A` and `-C`; symmetry of links and of identities | `OnlyListed`, `AlwaysListed`, `CommandLine`, `TypeOK` |
| `config_args` | the same, no edits | refutes `OwnArguments` |

Three reloads are the fewest in which two spoil the list and one repairs it, or one appends
to the list that a second is handing out to a third.  Two identities are the fewest of which
one may be missing.  Options `-a` and `--no-auth` only add to what is accepted (`Listed`).

- `OwnArguments` (README 201-202).  With `-A` the second session's command line contains
  the first one's arguments.  What does hold, `CommandLine`, is that it begins with the
  listener's command and has its own arguments in one piece behind; those of other
  sessions may stand before them, and after them too if they came before the fork.

## Initiator

`initiate()` is a coroutine; `pc` is its place.  The reader callback of stdin and a
cancellation run only where it suspends (`Suspended`): `_pq.get` blocks the whole loop.

| who | actions | code |
|-----|---------|------|
| coroutine | `ConnectFails`, `Connected`, `SendVersion`, `GetVersion`, `NoVersion`, `SendExecute`, `CreateFinished` | `initiate` 228-277, 396-418, `_initiate_link` 160-216 |
| coroutine | `LoopTop`, `NoMessage`, `TakeOutput`, `TakeError`, `TakeExited`, `CutStdin`, `SkipStdin`, `SendStdin`, `SendWinch`, `Raised` | main loop 419-513 |
| loop | `ReadStdin`, `EscapeQuit`, `Cancelled`, `Winch` | `stdin` 315-374, `handle_escape` 301-303, 281-283 |
| signal | `Interrupt` | `_sigint_handler` 79-86 |
| Reticulum | `LinkUp`, `LinkDown`, `LinkClosed`, `Hear`, `ListenerSays` | `_client_link_closed` 144-147, `_client_message_handler` 150-152 |
| listener | `ListenerSays`, `CommandRuns` | `RemoteSession` |

`said` is what the initiator has sent, `heard` how much of it has been proved, `fed` the
input it has sent; `sent` is what the listener has said and `taken` how much of it has
left the queue `_pq`.  A byte of input is its position.  The listener says anything that
`RemoteSession` allows, as far as it has heard the messages that call for it.  `spoken` is a
history variable, the messages of output that were said before the exit.  Input and
output are each a `Pipe` (`StdinKept`, `OutputKept`): the refinement mappings take
`stdin_read` and `fed`, and `spoken` and `printed`.

Run `initiator`: window 1, together two bytes of input and messages of output, one change of the
window's size, input from a terminal or a pipe, a link that may be lost and an interrupt that
may come at any step.  Two bytes are the fewest that can be cut in two sends; two messages
can be reordered.  Fairness (`Fairness`): the coroutine takes its steps, its time limits
pass, and Reticulum proves a message or gives the link up and then reports it.

- A link that is lost before `_finished` exists (`initiator.py` 144-147, 411) leaves the main
  loop spinning: the callback found nothing to set, `is_ready_to_send` stays false and the
  queue empty.  `LoopEnds` excepts the case.
- An interrupt that arrives in the blocking part of the handshake is only acted on at the
  next suspension; the command may have been sent by then.
- A resize whose message meets a full window, or whose terminal cannot tell its size at that
  moment, is forgotten (`initiator.py` 501-504).

## StdinFilter

The callback `stdin()` key by key; `EndRead` is what follows its loop over the keys of one
read.  `Meant` says what a sequence of keys means from their places alone, without the
flags that the code carries from key to key, and `KeysKept` compares the two; it adds up
the meanings of the keys by a recursive function, one key after the other.  Run
`filter`: every six keys of seven kinds, in reads of one or two, with a terminal and
without.  Six keys enter line mode, type, send a line and leave it again.
`ScreenMatches` holds without exception; `KeysKept` excepts two cases, in which the code
does something else (each exception is needed: TLC refutes the property without it):

- An escape character followed by a newline (or in line mode by an editing key) leaves the
  sequence open: the `~` is not sent, and a later character completes it.  After
  newline, `~`, newline, a `.` ends the session, although the help (line 299) says that
  sequences are recognized immediately after newline only.
- Several keys in one read (a paste, a slow loop): a backspace removes from the line of
  earlier reads and not from the keys before it, text after a newline is sent with the
  line, and text before `~L` is treated by the new mode; with a line held back and
  newline and `~L` in one read the line stays behind and is sent later.

## RetryThread

The thread's pass over its copy of the list is cut at each status, and between the test of
`completed` and the callback; a callback may take any time.  Calls from other threads
come between.  `due[o]` is true once the delay of a status is over.  A status is the
number of the call of `begin()` that made it: the code appends to its list and never
moves anything in it, so a set of numbers is the list in its order, and its least member
with a tag the first that the code would find.  `begin()` is one action: its first try
runs before anything else, and the rest of it under the lock.

Run `retry`: three calls of `begin()`, two tags, two tries each, every outcome of a callback,
`close` in both forms.  Two calls with one tag and one with another are the fewest in
which a prune or a completion can hit the wrong status.  Fairness: the thread runs and delays end.
It shows `OnePerTag`, `LeavesOver` and `EveryStatusEnds`.

- A status whose callback asks to stop is completed *by its tag* (line 128): if `begin()` has
  given the tag to a new status meanwhile, the new one is completed.  `LeavesOver` counts
  that as a completion.
- A second `close(loop)`, or one after `close()`, waits for a future that nothing sets.

## Proofs

`ListenerSessionProofs.tla` proves, with the assumptions that the module states about
its constants and nothing else:

| theorem | property |
|---------|----------|
| `TypeCorrect` | `TypeOK` |
| `AuthGateHolds` | `AuthGate` |
| `OneCommandHolds` | `OneCommand` |
| `DestroyScheduledHolds` | `DestroyScheduled` |
| `ProcessDereferenceSafeHolds` | `ProcessDereferenceSafe` |
| `QuietAfterTerminationHolds` | `QuietAfterTermination` |

But for the types, none of these is inductive.  The invariant that is, `SessionInv`, has five parts.
`AuthInv`: `authenticated` implies that a command may be run for the present identity,
and a handler past the gate has passed it.  `CommandInv`: handlers that lead to a command are under way only
while there is none.  `DestroyInv`: death, the prune timers and destruction go
together.  `ProcessInv`: with no command, a session in RUNNING is dead or still
starting one, no handler is about to write to it, the pump holds no chunk and the
buffers are empty.  The last is needed because `HandleExecute` sets the state to RUNNING
even if the watchdog has just terminated the session.  `QuietInv`: a dead
session that has a command, or whose handler is at a point where the state is read again,
is in a dead state, and only a command has a return code.  TLC checked `SessionInv` on the
instances above before it was proved.  `QuietAfterTermination` follows from
it step by step: `QuietInv` keeps the handlers and the pump from starting anew.

`SessionOutputProofs.tla` extends it with `OutputConservedHolds` (`OutputConserved`) and
the refinement `ImplementsRemoteHolds` (`ImplementsRemote`), for any window, any cut of a
chunk and any interleaving.  They need four more invariants.  `OrderInv`: a buffer is in
order, holds what has been delivered, and comes after what was sent of the stream;
`CutInv`: while the pump is about to send, its chunk and the rest are the buffer but for
input echoed meanwhile.  From these two, what the pump sends is in order and new.
`RoomInv`: the window that the pump found open stays open until its send, as long as no
keepalive is answered, so that the send cannot fail and cost the chunk; this and `CutInv`
give `OutputConserved`.  `SaidInv` and `ExitInv` place the version and the exit in the
protocol.  Each step is then shown to be one of `RemoteSession` or to leave it alone: lemma
`WhatIsSaid` lists what a step can add to the channel, and there is one lemma for each.

`CallbackSubprocessProofs.tla` proves `ProcessTypeCorrect` (`TypeOK`), `ReportOnceHolds`
(`ReportOnce`) and `ClosesOnlyOwnHolds` (`ClosesOnlyOwn`), for any exit codes and descriptors, any number of calls, with or
without reuse.  `ReportOnce` rests on `ReportInv`: the pid
leaves the child exactly when it is reaped, and after a report the poll never stands
between its waitpid and its test again, since waitpid of a reaped child fails.
`ClosesOnlyOwn` rests on `AloneInv`: without a
call only the poll ever arms a close of the descriptors, once, as it goes off, and
until then they are the child's.

`ListenerProofs.tla` proves `ListenerTypeCorrect` (`TypeOK`) and `ShutdownReachesAllHolds`
(`ShutdownReachesAll`) for any set of links.  `CallbackInv`: a constructed session whose
link is open has its callback for a closed link set.  `ServedInv`: a served session is
dead or will hear of the end of its link, and from the moment at which the links are listed
a live one with an open link is among those still to be torn down, of which none are
left at the end.  Lemma `RemoveFirstKeeps` (what is left of a list was on it before) takes
the existence of the least index from the well-foundedness of the naturals.

`InitiatorProofs.tla` proves `InitiatorTypeCorrect` (`TypeOK`),
`ExecuteAfterVersionHolds` (`ExecuteAfterVersion`) and the refinements `StdinKeptHolds`
(`StdinKept`) and `OutputKeptHolds` (`OutputKept`), for any window and any amount of
input and output.  `HandshakeInv` adds to `ExecuteAfterVersion` what each place of
`initiate()` says of the versions.  `StdinKept` rests on `StdinInv`: as long as the link
may carry it, what was read is what was sent, the chunk on its way and the buffer;
nothing fills the window between the cut and the send, so a send can only fail, and the
chunk be lost, with the link; and the end is on its way only when nothing else is.
Under it cutting a chunk leaves `Pipe` alone, `SendStdin` is its `Read` or `End`,
`ReadStdin` its `Write`.  `OutputKept` rests on `OutputInv`, which ties the queue, where
output is mixed with other messages, to `spoken` and `printed` without counting or
filtering: the k-th message of output bears the number k, every one of them is somewhere
on the channel and in the same order (`SpokenInv`), and a message of output has been
taken from the queue exactly when its number is one of those printed (`TakenInv`).  So
the next one taken is the next to print, and when the exit is taken, all that was said
before it has been printed (`CodeInv`).

`SharedConfigProofs.tla` proves `ConfigTypeCorrect` (`TypeOK`), `OnlyListedHolds`,
`AlwaysListedHolds` and `CommandLineHolds`, for any links, identities, command lines and
edits and any overlap of the reloads.  `NamesInv`: neither name is bound to the list of a
link whose reload has not opened the file.  `EraInv`: a reload under way holds and appends
nothing that was not in the file in the time of every link that is up, which is why
`listed_since` has to reach back to the reloads under way when the link came up.
`KeptInv` is about reloads that come one by one: the list that is being filled is the
reload's own, and with what is still to be appended it serves every link.  `SettledInv` is
about those that overlap: the list that was opened last is filled by its own reload, whatever
others add, and the class gets it.  `CommandInv` adds to `CommandLine` that the shared list
begins with the listener's words and, while a session is about to fork, has its words in one
piece behind them; two lemmas say that extending a list puts words there and
takes none away.

`StdinFilterProofs.tla` proves `FilterTypeCorrect` (`TypeOK`) and `ScreenMatchesHolds`
(`ScreenMatches`) for any number of keys and any reads.  The two are inductive only together:
the count cannot pass zero because it is the length of the line.  `KeysKeptHolds`
(`KeysKept`) rests on `KeyInv`, two statements about the keys typed so far.  `FlagInv`: each
flag says of the places what it stands for (`esc`, the last key begins a sequence;
`line_mode`, an odd number of `~L`; and so on).  `BufferInv`: what has been passed on, what is
held back and what the run of `stdin()` still keeps are together what the keys mean; it says
in which order for each mode, and that with a line due the keys kept end it.  Both are kept
key by key, since one more key adds its meaning to `Meant` and changes none before it
(`MeantOfAppend`).  This last needs that two computations of `Meant` agree on the keys they
share; in place of an induction the proof takes the least place at which they would differ.

`RetryThreadProofs.tla` proves `RetryTypeCorrect` (`TypeOK`), `OnePerTagHolds`
(`OnePerTag`) and `LeavesOverHolds` (`LeavesOver`), for any number of calls, any tags and
any limit.  `RetryInv` adds to `OnePerTag` that between two passes nothing waits to be pruned
and that a status which has not been made is not over: one that `begin()` lists is not yet
completed.  `LeavesOver` needs the types only.

Only model-checked: the properties under fairness (`DeadDestroyed`, `ExitReported`,
`EndReported`, `EndsWhenAsked`, `CleanedUp`, `PumpedAgain`, `DeadPruned`, `ShutdownEnds`,
`LoopEnds`, `EofDelivered`, `EveryStatusEnds`).  Liveness under fairness and ENABLED are outside what the
installed prover handles.

## Not modelled

The components that `PROJECT.json` lists as `not_modelled` or `partly`: serialisation,
options, logging, start-up and terminal calls have no state that the protocol depends on;
`compress_adaptive` depends on bz2, and the modules take any non-empty prefix for what
it returns.  `event_wait_any` names the first event whichever fired, but is only used
with one.  The announcements of the listener are timed sends without state.  The memory
held by the output and input buffers has no limit in the code, so none is stated.  A
write to the command or to the terminal is taken to be whole: the code ignores the
count.

## Plan

1. The composition of `ListenerSession` with `CallbackSubprocess` in place of the chunks and
   the coarse `process` of the session, for the end of a command and of its input.
2. Descriptors of `_launch_child` and of the reader callbacks of `process.py`.
3. Proofs about what is added; `ReportOnce` carries over from the process
   object by refinement.
