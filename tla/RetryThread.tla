----------------------------- MODULE RetryThread -----------------------------
(***************************************************************************)
(* RetryThread of src/rnsh/retry.py: a thread that repeats a try until it  *)
(* is completed, by its callback or by a call of complete(), or times out. *)
(*                                                                         *)
(* begin(), complete(), complete_all() and close() are called from other   *)
(* threads.  The lock protects the list only: the thread decides on a copy *)
(* of it and calls the callbacks without the lock.  Statuses are put at    *)
(* the end of the list only, so that, numbered as they are made, a set of  *)
(* them stands for the list and its least element for the first.           *)
(***************************************************************************)
EXTENDS Naturals, FiniteSetsExt

CONSTANTS
  MaxBegins,  \* bound: calls of begin() that make a status
  Tags,       \* tags that first tries return
  NoTag,      \* of a status that has not been made
  TryLimit    \* try_limit

ASSUME TagAssumption == NoTag \notin Tags
ASSUME LimitAssumption == TryLimit \in Nat \ {0} /\ MaxBegins \in Nat

VARIABLES
  tag, tries, completed, due,     \* fields of the statuses; due: wait_delay is over
  begun,                          \* how many statuses have been made
  statuses,                       \* the list
  at, ready, prune,               \* the thread: its place and its local lists
  run, finished                   \* _run and the future _finished

fieldVars  == <<tag, tries, completed, due>>
listVars   == <<begun, statuses>>
threadVars == <<at, ready, prune>>
closeVars  == <<run, finished>>

vars == <<fieldVars, listVars, threadVars, closeVars>>

\* RetryStatus objects, one for each call.
Statuses == 1..MaxBegins

TypeOK ==
  /\ tag \in [Statuses -> Tags \cup {NoTag}]
  /\ tries \in [Statuses -> 1..TryLimit]
  /\ completed \in [Statuses -> BOOLEAN]
  /\ due \in [Statuses -> BOOLEAN]
  /\ begun \in 0..MaxBegins
  /\ statuses \in SUBSET (1..begun)
  /\ at \in {"test", "examine", "chosen", "callback", "ending", "ended"}
  /\ ready \in SUBSET (1..begun)
  /\ prune \in SUBSET (1..begun)
  /\ at \in {"chosen", "callback"} => ready # {}
  /\ run \in BOOLEAN
  /\ finished \in {"none", "pending", "done"}

Init ==
  /\ tag = [o \in Statuses |-> NoTag]
  /\ tries = [o \in Statuses |-> 1]
  /\ completed = [o \in Statuses |-> FALSE]
  /\ due = [o \in Statuses |-> FALSE]
  /\ begun = 0 /\ statuses = {}
  /\ at = "test" /\ ready = {} /\ prune = {}
  /\ run = TRUE /\ finished = "none"

-----------------------------------------------------------------------------
(***************************************************************************)
(* begin, complete, complete_all, close.                                   *)
(***************************************************************************)
\* complete(tag): the first status of the list with the tag.
Tagged(t) == {o \in statuses : tag[o] = t}
FirstTagged(t) == IF Tagged(t) = {} THEN {} ELSE {Min(Tagged(t))}

Mark(S) == completed' = [o \in Statuses |-> completed[o] \/ o \in S]

\* begin() completes an older status of the tag; the first would forget that.
ReplaceNone(t) == {}
Replaced(t) == FirstTagged(t)

\* begin() calls its first try without the lock and before anything else, so that
\* the tag may be any by the time it is used; a try that returns nothing ends it.
Begin(t) ==
  /\ begun < MaxBegins
  /\ begun' = begun + 1
  /\ tag' = [tag EXCEPT ![begun + 1] = t]
  /\ Mark(Replaced(t))
  /\ statuses' = (statuses \ Replaced(t)) \cup {begun + 1}
  /\ UNCHANGED <<tries, due, threadVars, closeVars>>

Complete(t) ==
  /\ FirstTagged(t) # {}
  /\ Mark(FirstTagged(t))
  /\ statuses' = statuses \ FirstTagged(t)
  /\ UNCHANGED <<tag, tries, due, begun, threadVars, closeVars>>

CompleteAll ==
  /\ statuses # {}
  /\ Mark(statuses)
  /\ statuses' = {}
  /\ UNCHANGED <<tag, tries, due, begun, threadVars, closeVars>>

\* close() without a loop, which then waits for the thread.
Close ==
  /\ run' = FALSE
  /\ UNCHANGED <<fieldVars, listVars, threadVars, finished>>

\* close(loop) makes a new future; its result is set only by a thread that has not
\* ended yet.
CloseLoop ==
  /\ finished' = "pending"
  /\ UNCHANGED <<fieldVars, listVars, threadVars, run>>

\* Time matters to listed statuses only.
Elapse(o) ==
  /\ o \in statuses /\ ~due[o]
  /\ due' = [due EXCEPT ![o] = TRUE]
  /\ UNCHANGED <<tag, tries, completed, listVars, threadVars, closeVars>>

-----------------------------------------------------------------------------
(***************************************************************************)
(* _thread_run.                                                            *)
(***************************************************************************)
Goto(l) == at' = l
Current == Min(ready)
NextStatus == ready' = ready \ {Current} /\ Goto("examine")

Ends == ~run \/ finished # "none"

LoopEnds ==
  /\ at = "test" /\ Ends
  /\ Goto("ending")
  /\ UNCHANGED <<fieldVars, listVars, ready, prune, closeVars>>

\* After the test the thread sleeps; nothing it then does depends on the test.
Snapshot ==
  /\ at = "test" /\ ~Ends
  /\ ready' = {o \in statuses : due[o]}
  /\ prune' = {}
  /\ Goto("examine")
  /\ UNCHANGED <<fieldVars, listVars, closeVars>>

\* if not retry.completed
Examine ==
  /\ at = "examine" /\ ready # {}
  /\ IF completed[Current] THEN NextStatus ELSE Goto("chosen") /\ UNCHANGED ready
  /\ UNCHANGED <<fieldVars, listVars, prune, closeVars>>

\* What RetryStatus.timed_out compares; the first allows a try too many.
Exceeded(o) == tries[o] > TryLimit
Exhausted(o) == tries[o] >= TryLimit

\* Statuses to prune after a time-out; the first would leave it on the list.
KeepsTimedOut(o) == prune
PrunesTimedOut(o) == prune \cup {o}

\* The callback may raise: the status is pruned either way.
TimeOut ==
  /\ at = "chosen" /\ due[Current] /\ Exhausted(Current)
  /\ Mark({Current})
  /\ prune' = PrunesTimedOut(Current)
  /\ NextStatus
  /\ UNCHANGED <<tag, tries, due, listVars, closeVars>>

Retry ==
  /\ at = "chosen" /\ due[Current] /\ ~Exhausted(Current)
  /\ tries' = [tries EXCEPT ![Current] = @ + 1]
  /\ due' = [due EXCEPT ![Current] = FALSE]
  /\ Goto("callback")
  /\ UNCHANGED <<tag, completed, listVars, ready, prune, closeVars>>

CallbackContinues ==
  /\ at = "callback"
  /\ NextStatus
  /\ UNCHANGED <<fieldVars, listVars, prune, closeVars>>

\* The status is completed by its tag, which may be another's by now.
CallbackStops ==
  /\ at = "callback"
  /\ Mark(FirstTagged(tag[Current]))
  /\ statuses' = statuses \ FirstTagged(tag[Current])
  /\ NextStatus
  /\ UNCHANGED <<tag, tries, due, begun, prune, closeVars>>

CallbackRaises ==
  /\ at = "callback"
  /\ prune' = prune \cup {Current}
  /\ NextStatus
  /\ UNCHANGED <<fieldVars, listVars, closeVars>>

\* list.remove of each object, if it is still there; the first goes by the tag.
PrunedByTag  == UNION {Tagged(tag[o]) : o \in prune}
PrunedItself == prune

Prune ==
  /\ at = "examine" /\ ready = {}
  /\ statuses' = statuses \ PrunedItself
  /\ prune' = {}
  /\ Goto("test")
  /\ UNCHANGED <<fieldVars, begun, ready, closeVars>>

End ==
  /\ at = "ending"
  /\ Goto("ended")
  /\ finished' = IF finished = "pending" THEN "done" ELSE finished
  /\ UNCHANGED <<fieldVars, listVars, ready, prune, run>>

-----------------------------------------------------------------------------
ThreadStep ==
  \/ LoopEnds \/ Snapshot \/ Examine \/ TimeOut \/ Retry \/ CallbackContinues
  \/ CallbackStops \/ CallbackRaises \/ Prune \/ End

Next ==
  \/ ThreadStep
  \/ \E o \in Statuses : Elapse(o)
  \/ \E t \in Tags : Begin(t) \/ Complete(t)
  \/ CompleteAll \/ Close \/ CloseLoop

Spec == Init /\ [][Next]_vars

\* The thread runs and time passes.
Fairness == WF_vars(ThreadStep) /\ \A o \in Statuses : WF_vars(Elapse(o))

FairSpec == Spec /\ Fairness

-----------------------------------------------------------------------------
(***************************************************************************)
(* Properties.                                                             *)
(***************************************************************************)

\* A tag names one status at most, although begin() makes its first try before it
\* takes the lock (retry.py:152-168), and a status that is over stays on the list only
\* until the thread's next prune, so that wait() returns (retry.py:98-107).
OnePerTag ==
  /\ \A o, p \in statuses : tag[o] = tag[p] => o = p
  /\ \A o \in statuses : completed[o] => o \in prune

\* No status leaves the list without being over or having failed itself, whichever
\* status of the same tag ends meanwhile: a prune works on a copy that is out of date
\* (retry.py:115-137).
LeavesOver ==
  [][\A o \in statuses \ statuses' : completed'[o] \/ o \in prune]_vars

\* Every status comes to an end, by completion or time-out, while the thread lives.
EveryStatusEnds ==
  \A o \in Statuses : o \in statuses ~> o \notin statuses \/ at = "ended"
=============================================================================
