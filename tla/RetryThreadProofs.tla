-------------------------- MODULE RetryThreadProofs --------------------------
(***************************************************************************)
(* Theorems about RetryThread, for any number of calls of begin(), every   *)
(* set of tags and every limit of tries.                                   *)
(***************************************************************************)
EXTENDS RetryThread, WellFoundedInduction, TLAPS

(***************************************************************************)
(* The first of some statuses.                                             *)
(***************************************************************************)
LEMMA MinIsMember ==
  ASSUME NEW I \in SUBSET Nat, I # {}
  PROVE  Min(I) \in I
  <1> DEFINE Below == {p \in Nat \X Nat : p[1] < p[2]}
  <1>1. IsWellFoundedOn(Below, Nat)
    BY NatLessThanWellFounded, Zenon DEF OpToRel
  <1> HIDE DEF Below
  <1>2. PICK x \in I : \A y \in I : ~ (<<y, x>> \in Below)
    BY <1>1, WFMin, Zenon
  <1>3. \A y \in I : x =< y
    <2>1. \A m, n \in Nat : m < n => <<m, n>> \in Below
      BY Zenon DEF Below
    <2>2. \A y \in I : ~(y < x)
      BY <1>2, <2>1
    <2>3. QED BY <2>2
  <1>4. QED BY <1>3 DEF Min

\* Statuses of the list have been made.
LEMMA ListedAreMade ==
  ASSUME TypeOK
  PROVE  /\ begun \in Nat /\ begun + 1 > begun
         /\ \A o \in statuses : o \in Statuses /\ o \in Nat /\ o <= begun
  <1>1. begun \in Nat /\ begun <= MaxBegins /\ MaxBegins \in Nat
    BY LimitAssumption DEF TypeOK, LimitAssumption
  <1>2. \A o \in statuses : o \in 1..begun
    BY DEF TypeOK
  <1>3. QED BY <1>1, <1>2 DEF Statuses

\* complete() finds a status of the list that has the tag, if there is one.
LEMMA FirstTaggedIsTagged ==
  ASSUME TypeOK, NEW t
  PROVE  /\ FirstTagged(t) \subseteq Tagged(t)
         /\ FirstTagged(t) = {} => Tagged(t) = {}
  <1>1. CASE Tagged(t) = {}
    BY <1>1 DEF FirstTagged
  <1>2. CASE Tagged(t) # {}
    <2>1. Tagged(t) \in SUBSET Nat
      BY ListedAreMade DEF Tagged
    <2>2. Min(Tagged(t)) \in Tagged(t)
      BY <1>2, <2>1, MinIsMember
    <2>3. QED BY <1>2, <2>2 DEF FirstTagged
  <1>3. QED BY <1>1, <1>2

\* So it leaves none, as long as a tag names one status at most.
LEMMA FirstTaggedIsAll ==
  ASSUME TypeOK, OnePerTag, NEW t
  PROVE  Tagged(t) = FirstTagged(t)
  BY FirstTaggedIsTagged DEF Tagged, OnePerTag

\* The thread works on a status of its copy.
LEMMA CurrentIsReady ==
  ASSUME TypeOK, ready # {}
  PROVE  Current \in ready /\ Current \in 1..begun /\ Current \in Statuses
  <1>1. ready \in SUBSET Nat
    BY DEF TypeOK
  <1>2. Current \in ready
    BY <1>1, MinIsMember DEF Current
  <1>3. 1..begun \subseteq Statuses
    BY LimitAssumption DEF TypeOK, Statuses, LimitAssumption
  <1>4. QED BY <1>2, <1>3 DEF TypeOK

(***************************************************************************)
(* Types.                                                                  *)
(***************************************************************************)
LEMMA MarkType ==
  ASSUME TypeOK, NEW S, Mark(S)
  PROVE  completed' \in [Statuses -> BOOLEAN]
  BY DEF Mark, TypeOK

LEMMA InitType == Init => TypeOK
  BY LimitAssumption DEF Init, TypeOK, LimitAssumption

LEMMA NextType == TypeOK /\ [Next]_vars => TypeOK'
  <1> SUFFICES ASSUME TypeOK, [Next]_vars PROVE TypeOK'
    OBVIOUS
  <1> USE DEF fieldVars, listVars, threadVars, closeVars, Goto
  <1>1. ASSUME NEW t \in Tags, Begin(t) PROVE TypeOK'
    <2>1. begun' \in 0..MaxBegins /\ begun' = begun + 1
      BY <1>1, LimitAssumption DEF Begin, TypeOK, LimitAssumption
    <2>2. 1..begun' = (1..begun) \cup {begun + 1}
      BY <2>1 DEF TypeOK
    <2>3. tag' \in [Statuses -> Tags \cup {NoTag}]
      BY <1>1 DEF Begin, TypeOK
    <2>4. statuses' \in SUBSET (1..begun')
      BY <1>1, <2>2 DEF Begin, TypeOK
    <2>5. completed' \in [Statuses -> BOOLEAN]
      BY <1>1, MarkType DEF Begin
    <2>6. ready' \in SUBSET (1..begun') /\ prune' \in SUBSET (1..begun')
      BY <1>1, <2>2 DEF Begin, TypeOK
    <2>7. QED BY <1>1, <2>1, <2>3, <2>4, <2>5, <2>6 DEF Begin, TypeOK
  <1>2. ASSUME NEW t \in Tags, Complete(t) PROVE TypeOK'
    BY <1>2, MarkType DEF Complete, TypeOK
  <1>3. CASE CompleteAll
    BY <1>3, MarkType DEF CompleteAll, TypeOK
  <1>4. CASE Close
    BY <1>4 DEF Close, TypeOK
  <1>5. CASE CloseLoop
    BY <1>5 DEF CloseLoop, TypeOK
  <1>6. ASSUME NEW o \in Statuses, Elapse(o) PROVE TypeOK'
    BY <1>6 DEF Elapse, TypeOK
  <1>7. CASE LoopEnds
    BY <1>7 DEF LoopEnds, TypeOK
  <1>8. CASE Snapshot
    BY <1>8 DEF Snapshot, TypeOK
  <1>9. CASE Examine
    BY <1>9 DEF Examine, NextStatus, TypeOK
  <1>10. CASE TimeOut
    <2>1. Current \in 1..begun
      BY <1>10, CurrentIsReady DEF TimeOut, TypeOK
    <2>2. completed' \in [Statuses -> BOOLEAN]
      BY <1>10, MarkType DEF TimeOut
    <2>3. QED BY <1>10, <2>1, <2>2 DEF TimeOut, NextStatus, PrunesTimedOut, TypeOK
  <1>11. CASE Retry
    <2>1. Current \in Statuses
      BY <1>11, CurrentIsReady DEF Retry, TypeOK
    <2>2. tries[Current] + 1 \in 1..TryLimit
      BY <1>11, <2>1, LimitAssumption DEF Retry, Exhausted, TypeOK, LimitAssumption
    <2>3. tries' \in [Statuses -> 1..TryLimit]
      BY <1>11, <2>2 DEF Retry, TypeOK
    <2>4. due' \in [Statuses -> BOOLEAN]
      BY <1>11 DEF Retry, TypeOK
    <2>5. QED BY <1>11, <2>3, <2>4 DEF Retry, TypeOK
  <1>12. CASE CallbackContinues
    BY <1>12 DEF CallbackContinues, NextStatus, TypeOK
  <1>13. CASE CallbackStops
    BY <1>13, MarkType DEF CallbackStops, NextStatus, TypeOK
  <1>14. CASE CallbackRaises
    <2>1. Current \in 1..begun
      BY <1>14, CurrentIsReady DEF CallbackRaises, TypeOK
    <2>2. QED BY <1>14, <2>1 DEF CallbackRaises, NextStatus, TypeOK
  <1>15. CASE Prune
    BY <1>15 DEF Prune, TypeOK
  <1>16. CASE End
    BY <1>16 DEF End, TypeOK
  <1>17. CASE UNCHANGED vars
    BY <1>17 DEF vars, TypeOK
  <1>18. QED
    BY <1>1, <1>2, <1>3, <1>4, <1>5, <1>6, <1>7, <1>8, <1>9, <1>10, <1>11, <1>12,
       <1>13, <1>14, <1>15, <1>16, <1>17
    DEF Next, ThreadStep

\* No status is tried more often than its limit, and the thread's copies hold only
\* statuses that exist (retry.py:59-70, 110-137).
THEOREM RetryTypeCorrect == Spec => []TypeOK
  BY InitType, NextType, PTL DEF Spec

(***************************************************************************)
(* One status for a tag.                                                   *)
(***************************************************************************)

\* What is over and still listed is on the thread's list to prune, which is empty
\* between two passes; a status that has not been made is not over.
RetryInv ==
  /\ OnePerTag
  /\ at \in {"test", "ending", "ended"} => prune = {}
  /\ \A o \in Statuses : o > begun => ~completed[o]

\* Marking statuses that exist, and taking them off the list, disturbs nothing.
LEMMA RemovalKeeps ==
  ASSUME TypeOK, RetryInv, NEW S \in SUBSET statuses, Mark(S),
         statuses' = statuses \ S, UNCHANGED <<tag, begun, prune>>
  PROVE  OnePerTag' /\ \A o \in Statuses : o > begun' => ~completed'[o]
  <1>1. \A o \in Statuses : o > begun => o \notin S
    BY ListedAreMade
  <1>2. statuses \subseteq Statuses
    BY ListedAreMade
  <1>3. QED BY <1>1, <1>2 DEF RetryInv, OnePerTag, Mark

LEMMA RetryInvariant == Spec => []RetryInv
  <1>1. Init => RetryInv
    BY DEF Init, RetryInv, OnePerTag
  <1>2. TypeOK /\ RetryInv /\ [Next]_vars => RetryInv'
    <2> SUFFICES ASSUME TypeOK, RetryInv, [Next]_vars PROVE RetryInv'
      OBVIOUS
    <2> USE DEF fieldVars, listVars, threadVars, closeVars, Goto
    <2>a. \A o \in statuses : o \in Statuses /\ o \in Nat /\ o <= begun
      BY ListedAreMade
    <2>1. ASSUME NEW t \in Tags, Begin(t) PROVE RetryInv'
      <3> DEFINE new == begun + 1
      <3>1. new \in Statuses /\ new \notin statuses /\ begun' = new
        BY <2>1, LimitAssumption DEF Begin, TypeOK, Statuses, LimitAssumption
      <3>2. Replaced(t) = Tagged(t) /\ Tagged(t) \subseteq statuses
        BY FirstTaggedIsAll DEF Replaced, RetryInv, Tagged
      <3>3. \A o \in statuses' : o = new \/ (o \in statuses /\ tag[o] # t)
        BY <2>1, <3>2 DEF Begin, Tagged
      <3>4. tag'[new] = t /\ \A o \in statuses : tag'[o] = tag[o]
        BY <2>1, <2>a, <3>1 DEF Begin, TypeOK
      <3>5. \A o \in Statuses : o > begun => ~completed'[o]
        <4>1. \A o \in Statuses : o > begun => o \notin Replaced(t)
          BY <3>2, ListedAreMade
        <4>2. QED BY <2>1, <4>1 DEF Begin, Mark, RetryInv
      <3>6. \A o, p \in statuses' : tag'[o] = tag'[p] => o = p
        BY <3>3, <3>4 DEF RetryInv, OnePerTag
      <3>7. \A o \in statuses' : completed'[o] => o \in prune'
        <4>1. ~completed'[new]
          BY <3>1, <3>5 DEF TypeOK
        <4>2. \A o \in statuses : tag[o] # t => (completed'[o] <=> completed[o])
          BY <2>1, <2>a, <3>2 DEF Begin, Mark, Tagged, TypeOK
        <4>3. QED BY <2>1, <3>3, <4>1, <4>2 DEF Begin, RetryInv, OnePerTag
      <3>8. \A o \in Statuses : o > begun' => ~completed'[o]
        BY <3>1, <3>5 DEF TypeOK, Statuses
      <3>9. QED BY <2>1, <3>6, <3>7, <3>8 DEF Begin, RetryInv, OnePerTag
    <2>2. ASSUME NEW t \in Tags, Complete(t) PROVE RetryInv'
      <3>1. FirstTagged(t) \in SUBSET statuses
        BY FirstTaggedIsTagged DEF Tagged
      <3>2. OnePerTag' /\ \A o \in Statuses : o > begun' => ~completed'[o]
        BY <2>2, <3>1, RemovalKeeps DEF Complete
      <3>3. QED BY <2>2, <3>2 DEF Complete, RetryInv
    <2>3. CASE CompleteAll
      <3>1. OnePerTag' /\ \A o \in Statuses : o > begun' => ~completed'[o]
        <4>1. statuses' = statuses \ statuses
          BY <2>3 DEF CompleteAll
        <4>2. QED BY <2>3, <4>1, RemovalKeeps DEF CompleteAll
      <3>2. QED BY <2>3, <3>1 DEF CompleteAll, RetryInv
    <2>4. CASE Close
      BY <2>4 DEF Close, RetryInv, OnePerTag
    <2>5. CASE CloseLoop
      BY <2>5 DEF CloseLoop, RetryInv, OnePerTag
    <2>6. ASSUME NEW o \in Statuses, Elapse(o) PROVE RetryInv'
      BY <2>6 DEF Elapse, RetryInv, OnePerTag
    <2>7. CASE LoopEnds
      BY <2>7 DEF LoopEnds, RetryInv, OnePerTag
    <2>8. CASE Snapshot
      BY <2>8 DEF Snapshot, RetryInv, OnePerTag
    <2>9. CASE Examine
      BY <2>9 DEF Examine, NextStatus, RetryInv, OnePerTag
    <2>10. CASE TimeOut
      <3>1. Current \in 1..begun
        BY <2>10, CurrentIsReady DEF TimeOut, TypeOK
      <3>2. \A o \in Statuses : completed'[o] <=> completed[o] \/ o = Current
        BY <2>10 DEF TimeOut, Mark, TypeOK
      <3>3. prune' = prune \cup {Current}
        BY <2>10 DEF TimeOut, PrunesTimedOut
      <3>4. OnePerTag'
        BY <2>10, <2>a, <3>2, <3>3 DEF TimeOut, RetryInv, OnePerTag
      <3>5. \A o \in Statuses : o > begun' => ~completed'[o]
        BY <2>10, <3>1, <3>2 DEF TimeOut, RetryInv, TypeOK
      <3>6. QED BY <2>10, <3>4, <3>5 DEF TimeOut, NextStatus, RetryInv
    <2>11. CASE Retry
      BY <2>11 DEF Retry, RetryInv, OnePerTag
    <2>12. CASE CallbackContinues
      BY <2>12 DEF CallbackContinues, NextStatus, RetryInv, OnePerTag
    <2>13. CASE CallbackStops
      <3>1. FirstTagged(tag[Current]) \in SUBSET statuses
        BY FirstTaggedIsTagged DEF Tagged
      <3>2. OnePerTag' /\ \A o \in Statuses : o > begun' => ~completed'[o]
        BY <2>13, <3>1, RemovalKeeps DEF CallbackStops
      <3>3. QED BY <2>13, <3>2 DEF CallbackStops, NextStatus, RetryInv
    <2>14. CASE CallbackRaises
      BY <2>14 DEF CallbackRaises, NextStatus, RetryInv, OnePerTag
    <2>15. CASE Prune
      BY <2>15 DEF Prune, PrunedItself, RetryInv, OnePerTag
    <2>16. CASE End
      BY <2>16 DEF End, RetryInv, OnePerTag
    <2>17. CASE UNCHANGED vars
      BY <2>17 DEF vars, RetryInv, OnePerTag
    <2>18. QED
      BY <2>1, <2>2, <2>3, <2>4, <2>5, <2>6, <2>7, <2>8, <2>9, <2>10, <2>11, <2>12,
         <2>13, <2>14, <2>15, <2>16, <2>17
      DEF Next, ThreadStep
  <1>3. QED BY <1>1, <1>2, RetryTypeCorrect, PTL DEF Spec

\* A tag names one status of the list at most, and what is over is listed only until
\* the thread's next prune, however calls of begin() and complete() fall between the
\* thread's copy of the list and its callbacks (retry.py:110-180).
THEOREM OnePerTagHolds == Spec => []OnePerTag
  <1>1. RetryInv => OnePerTag
    BY DEF RetryInv
  <1>2. QED BY <1>1, RetryInvariant, PTL

\* A status leaves the list only when it is over or has failed itself: the prune of
\* an outdated copy never takes the status that replaced one of its tag
\* (retry.py:133-137, 160).
THEOREM LeavesOverHolds == Spec => LeavesOver
  <1> DEFINE Over == \A o \in statuses \ statuses' : completed'[o] \/ o \in prune
  <1>1. TypeOK /\ [Next]_vars => [Over]_vars
    <2> SUFFICES ASSUME TypeOK, Next PROVE Over
      OBVIOUS
    <2> USE DEF fieldVars, listVars, threadVars, closeVars, Goto
    <2>a. \A o \in statuses : o \in Statuses
      BY ListedAreMade
    <2>1. ASSUME NEW S, Mark(S), statuses \ statuses' \subseteq S PROVE Over
      BY <2>a, <2>1 DEF Mark
    <2>2. ASSUME NEW t \in Tags, Begin(t) PROVE Over
      BY <2>1, <2>2 DEF Begin
    <2>3. ASSUME NEW t \in Tags, Complete(t) PROVE Over
      BY <2>1, <2>3 DEF Complete
    <2>4. CASE CompleteAll
      BY <2>1, <2>4 DEF CompleteAll
    <2>5. CASE CallbackStops
      BY <2>1, <2>5 DEF CallbackStops
    <2>6. CASE Prune
      BY <2>6 DEF Prune, PrunedItself
    <2>7. CASE \/ LoopEnds \/ Snapshot \/ Examine \/ TimeOut \/ Retry
               \/ CallbackContinues \/ CallbackRaises \/ End \/ Close \/ CloseLoop
               \/ \E o \in Statuses : Elapse(o)
      <3>1. statuses' = statuses
        BY <2>7
        DEF LoopEnds, Snapshot, Examine, TimeOut, Retry, CallbackContinues,
            CallbackRaises, End, Close, CloseLoop, Elapse
      <3>2. QED BY <3>1
    <2>8. QED BY <2>2, <2>3, <2>4, <2>5, <2>6, <2>7 DEF Next, ThreadStep
  <1>2. QED BY <1>1, RetryTypeCorrect, PTL DEF Spec, LeavesOver
=============================================================================
