---------------------------- MODULE ListenerProofs ----------------------------
(***************************************************************************)
(* Theorems about Listener, for every set of links.                        *)
(***************************************************************************)
EXTENDS Listener, SequenceTheorems, WellFoundedInduction, TLAPS

(***************************************************************************)
(* The list.                                                               *)
(***************************************************************************)
LEMMA MinIsMember ==
  ASSUME NEW I \in SUBSET Nat, I # {}
  PROVE  Min(I) \in I
  <1> DEFINE Below == {p \in Nat \X Nat : p[1] < p[2]}
  <1>1. IsWellFoundedOn(Below, Nat)
    BY NatLessThanWellFounded, Zenon DEF OpToRel
  <1> HIDE DEF Below
  <1>2. PICK x \in I : \A y \in I : ~ (<<y, x>> \in Below)
    BY <1>1, WFMin, Zenon
  <1>3. \A y \in I : x =< y
    <2>1. \A m, n \in Nat : m < n => <<m, n>> \in Below
      BY Zenon DEF Below
    <2>2. \A y \in I : ~(y < x)
      BY <1>2, <2>1
    <2>3. QED BY <2>2
  <1>4. QED BY <1>3 DEF Min

\* What is left of a list after a removal was on it before.
LEMMA RemoveFirstKeeps ==
  ASSUME NEW S, NEW s \in Seq(S), NEW e
  PROVE  RemoveFirst(s, e) \in Seq(S) /\ ToSet(RemoveFirst(s, e)) \subseteq ToSet(s)
  <1> DEFINE I == {i \in 1..Len(s) : s[i] = e}
  <1>1. CASE I = {}
    BY <1>1 DEF RemoveFirst
  <1>2. CASE I # {}
    <2>1. Min(I) \in 1..Len(s)
      <3>1. I \in SUBSET Nat
        OBVIOUS
      <3>2. Min(I) \in I
        BY <1>2, <3>1, MinIsMember
      <3>3. QED BY <3>2
    <2>2. PICK k \in 1..Len(s) : RemoveFirst(s, e) = RemoveAt(s, k)
      <3>1. SelectInSeq(s, LAMBDA v : v = e) = Min(I)
        BY <1>2 DEF SelectInSeq
      <3>2. RemoveFirst(s, e) = RemoveAt(s, Min(I))
        BY <1>2, <3>1 DEF RemoveFirst
      <3>3. QED BY <2>1, <3>2
    <2> DEFINE front == SubSeq(s, 1, k - 1)
               back  == SubSeq(s, k + 1, Len(s))
    <2>3. front \in Seq(ToSet(s)) /\ back \in Seq(ToSet(s))
      <3>1. \A i \in 1..(k - 1) : s[i] \in ToSet(s)
        BY DEF ToSet
      <3>2. \A i \in (k + 1)..Len(s) : s[i] \in ToSet(s)
        BY DEF ToSet
      <3>3. k - 1 \in Int /\ k + 1 \in Int /\ Len(s) \in Int /\ 1 \in Int
        OBVIOUS
      <3>4. front \in Seq(ToSet(s))
        BY <3>1, <3>3, SubSeqProperties
      <3>5. back \in Seq(ToSet(s))
        BY <3>2, <3>3, SubSeqProperties
      <3>6. QED BY <3>4, <3>5
    <2>4. RemoveFirst(s, e) \in Seq(ToSet(s))
      BY <2>2, <2>3, ConcatProperties DEF RemoveAt
    <2>5. ToSet(RemoveFirst(s, e)) \subseteq ToSet(s)
      BY <2>4 DEF ToSet
    <2>6. ToSet(s) \subseteq S
      BY DEF ToSet
    <2>7. RemoveFirst(s, e) \in Seq(S)
      BY <2>4, <2>6
    <2>8. QED BY <2>5, <2>7
  <1>3. QED BY <1>1, <1>2

LEMMA AppendAdds ==
  ASSUME NEW S, NEW s \in Seq(S), NEW e \in S
  PROVE  Append(s, e) \in Seq(S) /\ ToSet(Append(s, e)) = ToSet(s) \cup {e}
  <1>1. Append(s, e) \in Seq(S)
    BY AppendProperties
  <1>2. ToSet(Append(s, e)) \subseteq ToSet(s) \cup {e}
    BY AppendProperties DEF ToSet
  <1>3. ToSet(s) \subseteq ToSet(Append(s, e))
    BY AppendProperties DEF ToSet
  <1>4. e \in ToSet(Append(s, e))
    BY AppendProperties DEF ToSet
  <1>5. QED BY <1>1, <1>2, <1>3, <1>4

(***************************************************************************)
(* Types.                                                                  *)
(***************************************************************************)
LEMMA TerminateType ==
  ASSUME TypeOK, NEW l \in Links, Terminate(l)
  PROVE  terminated' \in [Links -> BOOLEAN] /\ prune_armed' \in [Links -> BOOLEAN]
  BY DEF Terminate, PruneTimer, TypeOK

LEMMA TellClosedType ==
  ASSUME TypeOK, NEW l \in Links, TellClosed(l)
  PROVE  /\ link_closed_cb' \in [Links -> BOOLEAN]
         /\ terminated' \in [Links -> BOOLEAN] /\ prune_armed' \in [Links -> BOOLEAN]
  <1>1. CASE Terminate(l)
    BY <1>1, TerminateType DEF TellClosed, TypeOK
  <1>2. CASE terminated' = [terminated EXCEPT ![l] = TRUE] /\ UNCHANGED prune_armed
    BY <1>2 DEF TellClosed, TypeOK
  <1>3. CASE UNCHANGED deadVars
    BY <1>3 DEF TellClosed, TypeOK, deadVars
  <1>4. QED BY <1>1, <1>2, <1>3 DEF TellClosed

LEMMA InitType == Init => TypeOK
  <1> SUFFICES ASSUME Init PROVE TypeOK
    OBVIOUS
  <1>1. prune_armed \in [Links -> BOOLEAN] /\ sessions \in Seq(Links)
    BY DEF Init
  <1>2. next \in Nat \ {0} /\ main \in MainLoop
    BY DEF Init, MainLoop
  <1>3. QED BY <1>1, <1>2 DEF Init, TypeOK

LEMMA NextType == TypeOK /\ [Next]_vars => TypeOK'
  <1> SUFFICES ASSUME TypeOK, [Next]_vars PROVE TypeOK'
    OBVIOUS
  <1> USE DEF linkVars, deadVars, loopVars
  <1>1. ASSUME NEW l \in Links, LinkUp(l) PROVE TypeOK'
    BY <1>1 DEF LinkUp, TypeOK
  <1>2. ASSUME NEW l \in Links, SetCallbacks(l) PROVE TypeOK'
    BY <1>2 DEF SetCallbacks, TypeOK
  <1>3. ASSUME NEW l \in Links, Register(l) PROVE TypeOK'
    <2>1. sessions' \in Seq(Links)
      BY <1>3, AppendAdds DEF Register, TypeOK
    <2>2. QED BY <1>3, <2>1 DEF Register, TypeOK
  <1>4. ASSUME NEW l \in Links, LinkDown(l) PROVE TypeOK'
    BY <1>4 DEF LinkDown, TypeOK
  <1>5. ASSUME NEW l \in Links, LinkClosed(l) PROVE TypeOK'
    BY <1>5, TellClosedType DEF LinkClosed, TypeOK
  <1>6. ASSUME NEW l \in Links, ProtocolError(l) PROVE TypeOK'
    BY <1>6, TerminateType DEF ProtocolError, TypeOK
  <1>7. ASSUME NEW l \in Links, Prune(l) PROVE TypeOK'
    <2>1. sessions' \in Seq(Links)
      BY <1>7, RemoveFirstKeeps DEF Prune, TypeOK
    <2>2. prune_armed' \in [Links -> BOOLEAN]
      BY <1>7 DEF Prune, TypeOK
    <2>3. QED BY <1>7, <2>1, <2>2 DEF Prune, TypeOK
  <1>8. CASE CheckFinished
    BY <1>8 DEF CheckFinished, AfterCheck, FirstIndex, MainLoop, TypeOK
  <1>9. CASE PumpNext
    BY <1>9 DEF PumpNext, FirstIndex, NextIndex, MainLoop, TypeOK
  <1>10. CASE TerminateNext
    <2>1. terminated' \in [Links -> BOOLEAN] /\ prune_armed' \in [Links -> BOOLEAN]
      <3>1. CASE next <= Len(sessions)
        <4>1. sessions[next] \in Links
          BY <3>1 DEF TypeOK
        <4>2. QED BY <1>10, <3>1, <4>1, TerminateType DEF TerminateNext
      <3>2. CASE ~(next <= Len(sessions))
        BY <1>10, <3>2 DEF TerminateNext, TypeOK
      <3>3. QED BY <3>1, <3>2
    <2>2. main' \in MainLoop /\ next' \in Nat \ {0}
      BY <1>10 DEF TerminateNext, FirstIndex, NextIndex, MainLoop, TypeOK
    <2>3. QED BY <1>10, <2>1, <2>2 DEF TerminateNext, TypeOK
  <1>11. ASSUME NEW l \in Links, TearDownNext(l) PROVE TypeOK'
    <2>1. CASE link[l] = "active"
      BY <1>11, <2>1, TellClosedType DEF TearDownNext, TypeOK
    <2>2. CASE link[l] # "active"
      BY <1>11, <2>2 DEF TearDownNext, TypeOK
    <2>3. QED BY <2>1, <2>2
  <1>12. CASE ListLinks \/ Exit
    BY <1>12 DEF ListLinks, StillActive, Exit, MainLoop, TypeOK
  <1>13. CASE Interrupt
    BY <1>13 DEF Interrupt, TypeOK
  <1>14. CASE UNCHANGED vars
    BY <1>14 DEF vars, TypeOK
  <1>15. QED
    BY <1>1, <1>2, <1>3, <1>4, <1>5, <1>6, <1>7, <1>8, <1>9, <1>10, <1>11, <1>12, <1>13,
       <1>14
    DEF Next, MainStep, LinkStep

\* Every variable of the listener keeps its type: the list (session.py:110, 162)
\* holds sessions, and the iteration over it (session.py:209, 216) starts inside it.
THEOREM ListenerTypeCorrect == Spec => []TypeOK
  BY InitType, NextType, PTL DEF Spec

(***************************************************************************)
(* Shutdown.                                                               *)
(***************************************************************************)

\* From the moment its callbacks are set a session hears of the end of an open link.
CallbackInv ==
  /\ \A l \in Links : link[l] = "none" => construct[l] = "none"
  /\ \A l \in Links :
       construct[l] \in {"fields", "done"} /\ link[l] = "active" => link_closed_cb[l]

\* A served session is dead or will hear of the end of its link; once the links are
\* listed, a live one with an open link is on that list.
Due(l) == terminated[l] \/ (link[l] \in {"active", "closing"} /\ link_closed_cb[l])
Reached(l) == link[l] = "active" => terminated[l] \/ l \in links_still_active

ServedInv ==
  /\ \A l \in served : construct[l] = "done" /\ Due(l)
  /\ main \in {"teardown", "exited"} => \A l \in served : Reached(l)
  /\ main = "exited" => links_still_active = {}

LEMMA CallbackInvariant == Spec => []CallbackInv
  <1>1. Init => CallbackInv
    BY DEF Init, CallbackInv
  <1>2. TypeOK /\ CallbackInv /\ [Next]_vars => CallbackInv'
    <2> SUFFICES ASSUME TypeOK, CallbackInv, [Next]_vars PROVE CallbackInv'
      OBVIOUS
    <2> USE DEF CallbackInv, linkVars, deadVars, loopVars
    <2>1. ASSUME NEW l \in Links, LinkUp(l) PROVE CallbackInv'
      BY <2>1 DEF LinkUp, TypeOK
    <2>2. ASSUME NEW l \in Links, SetCallbacks(l) PROVE CallbackInv'
      BY <2>2 DEF SetCallbacks, TypeOK
    <2>3. ASSUME NEW l \in Links, Register(l) PROVE CallbackInv'
      BY <2>3 DEF Register, TypeOK
    <2>4. ASSUME NEW l \in Links, LinkDown(l) PROVE CallbackInv'
      BY <2>4 DEF LinkDown, TypeOK
    <2>5. ASSUME NEW l \in Links, LinkClosed(l) PROVE CallbackInv'
      BY <2>5 DEF LinkClosed, TellClosed, TypeOK
    <2>6. ASSUME NEW l \in Links, Prune(l) PROVE CallbackInv'
      BY <2>6 DEF Prune, TypeOK
    <2>7. ASSUME NEW l \in Links, TearDownNext(l) PROVE CallbackInv'
      <3>1. CASE link[l] = "active"
        BY <2>7, <3>1 DEF TearDownNext, TellClosed, TypeOK
      <3>2. CASE link[l] # "active"
        BY <2>7, <3>2 DEF TearDownNext
      <3>3. QED BY <3>1, <3>2
    <2>8. ASSUME UNCHANGED linkVars PROVE CallbackInv'
      BY <2>8
    <2>9. ASSUME NEW l \in Links, ProtocolError(l) PROVE CallbackInv'
      BY <2>8, <2>9 DEF ProtocolError
    <2>10. CASE CheckFinished \/ PumpNext \/ TerminateNext \/ ListLinks \/ Exit \/ Interrupt
      BY <2>8, <2>10 DEF CheckFinished, PumpNext, TerminateNext, ListLinks, Exit, Interrupt
    <2>11. CASE UNCHANGED vars
      BY <2>8, <2>11 DEF vars
    <2>12. QED
      BY <2>1, <2>2, <2>3, <2>4, <2>5, <2>6, <2>7, <2>9, <2>10, <2>11
      DEF Next, MainStep, LinkStep
  <1>3. QED BY <1>1, <1>2, ListenerTypeCorrect, PTL DEF Spec

LEMMA ServedInvariant == Spec => []ServedInv
  <1>1. Init => ServedInv
    BY DEF Init, ServedInv
  <1>2. TypeOK /\ CallbackInv /\ ServedInv /\ [Next]_vars => ServedInv'
    <2> SUFFICES ASSUME TypeOK, CallbackInv, ServedInv, [Next]_vars PROVE ServedInv'
      OBVIOUS
    <2> USE DEF ServedInv, Due, Reached, linkVars, deadVars, loopVars
    <2>0. served \subseteq Links
      BY DEF TypeOK
    <2>1. ASSUME NEW l \in Links, LinkUp(l) PROVE ServedInv'
      BY <2>1, <2>0 DEF LinkUp, CallbackInv, TypeOK
    <2>2. ASSUME NEW l \in Links, SetCallbacks(l) PROVE ServedInv'
      BY <2>2, <2>0 DEF SetCallbacks, TypeOK
    <2>3. ASSUME NEW l \in Links, Register(l) PROVE ServedInv'
      BY <2>3, <2>0 DEF Register, Running, CallbackInv, TypeOK
    <2>4. ASSUME NEW l \in Links, LinkDown(l) PROVE ServedInv'
      BY <2>4, <2>0 DEF LinkDown, TypeOK
    <2>5. ASSUME NEW l \in Links, LinkClosed(l) PROVE ServedInv'
      <3>1. /\ \A k \in Links \ {l} : /\ terminated'[k] = terminated[k] /\ link'[k] = link[k]
                                      /\ link_closed_cb'[k] = link_closed_cb[k]
            /\ link'[l] = "closed" /\ terminated'[l] = (terminated[l] \/ link_closed_cb[l])
            /\ UNCHANGED <<construct, main, links_still_active, served>>
        BY <2>5 DEF LinkClosed, TellClosed, Terminate, TypeOK
      <3>2. QED BY <2>0, <3>1
    <2>6. ASSUME NEW l \in Links, ProtocolError(l) PROVE ServedInv'
      BY <2>6, <2>0 DEF ProtocolError, Terminate, TypeOK
    <2>7. ASSUME NEW l \in Links, Prune(l) PROVE ServedInv'
      BY <2>7, <2>0 DEF Prune, TypeOK
    <2>8. CASE CheckFinished \/ PumpNext
      BY <2>8 DEF CheckFinished, AfterCheck, PumpNext
    <2>9. CASE TerminateNext
      <3>1. /\ main' \notin {"teardown", "exited"}
            /\ \A k \in Links : terminated[k] => terminated'[k]
            /\ UNCHANGED <<link, link_closed_cb, construct, served>>
        BY <2>9 DEF TerminateNext, Terminate, TypeOK
      <3>2. QED BY <2>0, <3>1
    <2>10. CASE ListLinks
      BY <2>10, <2>0 DEF ListLinks, StillActive
    <2>11. ASSUME NEW l \in Links, TearDownNext(l) PROVE ServedInv'
      <3>1. CASE link[l] = "active"
        <4>1. /\ \A k \in Links \ {l} : /\ terminated'[k] = terminated[k] /\ link'[k] = link[k]
                                        /\ link_closed_cb'[k] = link_closed_cb[k]
              /\ link'[l] = "closed"
              /\ terminated'[l] = (terminated[l] \/ link_closed_cb[l])
              /\ links_still_active' = links_still_active \ {l}
              /\ main = "teardown" /\ UNCHANGED <<construct, main, served>>
          BY <2>11, <3>1 DEF TearDownNext, TellClosed, Terminate, TypeOK
        <4>2. QED BY <2>0, <4>1
      <3>2. CASE link[l] # "active"
        BY <2>11, <3>2 DEF TearDownNext
      <3>3. QED BY <3>1, <3>2
    <2>12. CASE Exit
      BY <2>12 DEF Exit
    <2>13. CASE Interrupt
      BY <2>13 DEF Interrupt
    <2>14. CASE UNCHANGED vars
      BY <2>14 DEF vars
    <2>15. QED
      BY <2>1, <2>2, <2>3, <2>4, <2>5, <2>6, <2>7, <2>8, <2>9, <2>10, <2>11, <2>12, <2>13,
         <2>14
      DEF Next, MainStep, LinkStep
  <1>3. QED BY <1>1, <1>2, CallbackInvariant, ListenerTypeCorrect, PTL DEF Spec

\* No session that got on the list with an open link before the shutdown listed the
\* links outlives the listener unheard of, whatever sessions arrive or leave while
\* terminate_all iterates over the list, and whatever links open or close between the
\* turns of the teardown (listener.py:243-249, session.py:214-219).
THEOREM ShutdownReachesAllHolds == Spec => []ShutdownReachesAll
  <1>1. ServedInv => ShutdownReachesAll
    BY DEF ServedInv, Due, Reached, ShutdownReachesAll
  <1>2. QED BY <1>1, ServedInvariant, PTL
=============================================================================
