------------------------------- MODULE Listener -------------------------------
(***************************************************************************)
(* The listening side of rnsh: listen() of src/rnsh/listener.py and the    *)
(* class-wide list ListenerSession.sessions of src/rnsh/session.py, which  *)
(* its main loop iterates over while other code changes it.                *)
(*                                                                         *)
(* The main loop runs on the asyncio loop and gives up control after every *)
(* session it has pumped or terminated and after every link it has torn    *)
(* down; the prune timers run there.  The threads of Reticulum construct   *)
(* sessions and report closed links at any moment.  What a session does    *)
(* inside is the subject of ListenerSession; here it is only live or       *)
(* terminated.                                                             *)
(***************************************************************************)
EXTENDS Naturals, Sequences, SequencesExt

CONSTANT Links     \* links that initiators may establish, one session each

VARIABLES
  link,            \* "none", "active", "closing" (the callback is due) or "closed"
  construct,       \* where link_established is: "none", "reload", "fields", "done"
  link_closed_cb,  \* whether the session's callback for a closed link is set
  terminated,      \* whether its session is terminated
  prune_armed,     \* whether prune timers of its session run; the second one that
                   \* is due finds nothing left to do
  sessions,        \* the list
  main,            \* where the main loop is
  next,            \* the index that its for statement will look at
  links_still_active,  \* links that the shutdown has still to tear down
  finished,        \* the event that SIGINT sets
  served           \* history: the sessions on the list that got there with an open
                   \* link before the shutdown listed the links

linkVars == <<link, construct, link_closed_cb>>
deadVars == <<terminated, prune_armed>>
loopVars == <<main, next, links_still_active>>

vars == <<linkVars, deadVars, sessions, loopVars, finished, served>>

MainLoop == {"check", "pump", "terminate", "sleep", "teardown", "exited"}

TypeOK ==
  /\ link \in [Links -> {"none", "active", "closing", "closed"}]
  /\ construct \in [Links -> {"none", "reload", "fields", "done"}]
  /\ link_closed_cb \in [Links -> BOOLEAN]
  /\ terminated \in [Links -> BOOLEAN]
  /\ prune_armed \in [Links -> BOOLEAN]
  /\ sessions \in Seq(Links)
  /\ main \in MainLoop
  /\ next \in Nat \ {0}
  /\ links_still_active \subseteq Links
  /\ finished \in BOOLEAN
  /\ served \subseteq Links

Init ==
  /\ link = [l \in Links |-> "none"]
  /\ construct = [l \in Links |-> "none"]
  /\ link_closed_cb = [l \in Links |-> FALSE]
  /\ terminated = [l \in Links |-> FALSE]
  /\ prune_armed = [l \in Links |-> FALSE]
  /\ sessions = <<>>
  /\ main = "check" /\ next = 1 /\ links_still_active = {}
  /\ finished = FALSE
  /\ served = {}

Running == main # "exited"

Registered(l) == l \in ToSet(sessions)

-----------------------------------------------------------------------------
(***************************************************************************)
(* Threads of Reticulum.                                                   *)
(***************************************************************************)

\* An initiator establishes a link.
LinkUp(l) ==
  /\ Running
  /\ link[l] = "none"
  /\ link' = [link EXCEPT ![l] = "active"]
  /\ construct' = [construct EXCEPT ![l] = "reload"]
  /\ UNCHANGED <<link_closed_cb, deadVars, sessions, loopVars, finished, served>>

\* link_established reloads the allow file and enters the constructor, which
\* sets the callbacks first.
SetCallbacks(l) ==
  /\ Running
  /\ construct[l] = "reload"
  /\ construct' = [construct EXCEPT ![l] = "fields"]
  /\ link_closed_cb' = [link_closed_cb EXCEPT ![l] = TRUE]
  /\ UNCHANGED <<link, deadVars, sessions, loopVars, finished, served>>

\* The rest of the constructor: the fields, whatever a callback has set, and
\* the list.
Register(l) ==
  /\ Running
  /\ construct[l] = "fields"
  /\ construct' = [construct EXCEPT ![l] = "done"]
  /\ terminated' = [terminated EXCEPT ![l] = FALSE]
  /\ sessions' = Append(sessions, l)
  /\ served' = IF main # "teardown" /\ link[l] = "active" THEN served \cup {l} ELSE served
  /\ UNCHANGED <<link, link_closed_cb, prune_armed, loopVars, finished>>

LinkDown(l) ==
  /\ Running
  /\ link[l] = "active"
  /\ link' = [link EXCEPT ![l] = "closing"]
  /\ UNCHANGED <<construct, link_closed_cb, deadVars, sessions, loopVars, finished, served>>

\* terminate(): dead, with a prune timer.
NoTimer(l) == prune_armed
PruneTimer(l) == [prune_armed EXCEPT ![l] = TRUE]
Terminate(l) ==
  /\ terminated' = [terminated EXCEPT ![l] = TRUE]
  /\ prune_armed' = PruneTimer(l)

\* The callback for a closed link unsets itself and terminates the session.  One
\* that is set later is never called.  Right after it is set the session has no
\* loop yet, and the error of arming the timer is suppressed.
TellClosed(l) ==
  /\ link_closed_cb' = [link_closed_cb EXCEPT ![l] = FALSE]
  /\ \/ link_closed_cb[l] /\ Terminate(l)
     \/ /\ link_closed_cb[l] /\ construct[l] = "fields"
        /\ terminated' = [terminated EXCEPT ![l] = TRUE]
        /\ UNCHANGED prune_armed
     \/ ~link_closed_cb[l] /\ UNCHANGED deadVars

LinkClosed(l) ==
  /\ Running
  /\ link[l] = "closing"
  /\ link' = [link EXCEPT ![l] = "closed"]
  /\ TellClosed(l)
  /\ UNCHANGED <<construct, sessions, loopVars, finished, served>>

\* A session terminates itself, dead or not: a refused identity, a message out of
\* place, an idle check.
ProtocolError(l) ==
  /\ Running
  /\ construct[l] = "done" /\ link[l] = "active"
  /\ Terminate(l)
  /\ UNCHANGED <<linkVars, sessions, loopVars, finished, served>>

-----------------------------------------------------------------------------
(***************************************************************************)
(* The asyncio loop: prune timers and the main loop.                       *)
(***************************************************************************)

\* _prune: off the list, and the link torn down, which reports it closed if the
\* callback is still set.  Its delay is longer than the constructor takes.
Prune(l) ==
  /\ Running
  /\ prune_armed[l] /\ construct[l] = "done"
  /\ sessions' = RemoveFirst(sessions, l)
  /\ served' = served \ {l}
  /\ link' = [link EXCEPT ![l] = "closed"]
  /\ link_closed_cb' = [link_closed_cb EXCEPT ![l] = FALSE]
  /\ terminated' = [terminated EXCEPT ![l] = @ \/ link_closed_cb[l]]
  /\ prune_armed' = [prune_armed EXCEPT ![l] = link_closed_cb[l]]
  /\ UNCHANGED <<construct, loopVars, finished>>

\* while not await _check_finished(): pump all sessions, or shut down.
DrainFirst ==
  IF sessions # <<>> THEN "pump" ELSE IF finished THEN "terminate" ELSE "check"
AfterCheck ==
  IF finished THEN "terminate" ELSE IF sessions # <<>> THEN "pump" ELSE "check"

\* Where a for statement over the list starts, and goes from there.
BeforeFirst == 0
FirstIndex == 1
IndexAfterNext == next + 2
NextIndex == next + 1

CheckFinished ==
  /\ main = "check"
  /\ main' = AfterCheck
  /\ next' = FirstIndex
  /\ UNCHANGED <<linkVars, deadVars, sessions, links_still_active, finished, served>>

PumpingNow(l) == main = "pump" /\ next <= Len(sessions) /\ sessions[next] = l

\* One turn of pump_all.
PumpNext ==
  /\ main = "pump"
  /\ IF next <= Len(sessions)
       THEN next' = NextIndex /\ UNCHANGED main
       ELSE main' = "check" /\ next' = FirstIndex
  /\ UNCHANGED <<linkVars, deadVars, sessions, links_still_active, finished, served>>

\* One turn of terminate_all.
TerminateNext ==
  /\ main = "terminate"
  /\ IF next <= Len(sessions)
       THEN next' = NextIndex /\ Terminate(sessions[next]) /\ UNCHANGED main
       ELSE main' = "sleep" /\ next' = FirstIndex /\ UNCHANGED deadVars
  /\ UNCHANGED <<linkVars, sessions, links_still_active, finished,
                 served>>

\* A second later the links that are not closed are listed, once.
OnlyTerminated == {l \in Links : link[l] = "active" /\ terminated[l]}
StillActive == {l \in Links : link[l] = "active"}
ListLinks ==
  /\ main = "sleep"
  /\ main' = "teardown"
  /\ links_still_active' = StillActive
  /\ UNCHANGED <<linkVars, deadVars, sessions, next, finished, served>>

\* One turn of the loop over that list: teardown reports an open link closed, and
\* other code runs before the next turn.
TearDownNext(l) ==
  /\ main = "teardown" /\ l \in links_still_active
  /\ links_still_active' = links_still_active \ {l}
  /\ IF link[l] = "active"
       THEN link' = [link EXCEPT ![l] = "closed"] /\ TellClosed(l)
       ELSE UNCHANGED <<link, link_closed_cb, deadVars>>
  /\ UNCHANGED <<construct, sessions, main, next, finished, served>>

\* The coroutine ends and the program with it.
Exit ==
  /\ main = "teardown" /\ links_still_active = {}
  /\ main' = "exited"
  /\ UNCHANGED <<linkVars, deadVars, sessions, next, links_still_active, finished, served>>

\* SIGINT.
Interrupt ==
  /\ Running
  /\ ~finished
  /\ finished' = TRUE
  /\ UNCHANGED <<linkVars, deadVars, sessions, loopVars, served>>

-----------------------------------------------------------------------------
MainStep ==
  \/ CheckFinished \/ PumpNext \/ TerminateNext
  \/ ListLinks \/ (\E l \in Links : TearDownNext(l)) \/ Exit
LinkStep(l) ==
  \/ LinkUp(l) \/ SetCallbacks(l) \/ Register(l) \/ LinkDown(l) \/ LinkClosed(l)
  \/ ProtocolError(l) \/ Prune(l)

Next == MainStep \/ Interrupt \/ \E l \in Links : LinkStep(l)

Spec == Init /\ [][Next]_vars

\* The loop runs the main coroutine and the timers that are due; the threads of
\* Reticulum finish their handlers and report closed links.  Which link's turn it is
\* need not be said: a link is constructed and closed once and pruned a few times.
Fairness ==
  /\ WF_vars(MainStep)
  /\ WF_vars(\E l \in Links : Prune(l))
  /\ WF_vars(\E l \in Links : SetCallbacks(l) \/ Register(l))
  /\ WF_vars(\E l \in Links : LinkClosed(l))

FairSpec == Spec /\ Fairness

-----------------------------------------------------------------------------
(***************************************************************************)
(* Properties.                                                             *)
(***************************************************************************)

\* Every session on the list is pumped again and again, although a session that
\* is pruned during pump_all shifts the rest of the list under the iteration, so
\* that the next one is passed over (session.py:206-212).
PumpedAgain ==
  \A l \in Links : []<>(PumpingNow(l) \/ ~Registered(l) \/ finished)

\* A terminated session leaves the list, however often it is terminated
\* (session.py:156-164), unless the program ends before.
DeadPruned ==
  \A l \in Links : []<>(~(Registered(l) /\ terminated[l]) \/ ~Running)

\* terminate_all comes to an end, although sessions are still appended to the
\* list it iterates over (listener.py:241-248).
ShutdownEnds == []<>(finished => ~Running)

\* A session that got on the list with an open link before the shutdown listed the
\* links is dead at the end, or the callback that tells it so is under way: also one
\* that terminate_all passes over or that comes while it sleeps, and although links
\* close between the turns of the teardown (listener.py:243-249).  A session that is
\* established during those turns is in no list and outlives the shutdown.
ShutdownReachesAll ==
  main = "exited" => \A l \in served : terminated[l] \/ link[l] = "closing"
=============================================================================
