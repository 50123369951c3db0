-------------------------- MODULE SharedConfigProofs --------------------------
(***************************************************************************)
(* Theorems about SharedConfig, for any links, identities and command      *)
(* lines, any number of changes of the file and any overlap of the reloads.*)
(***************************************************************************)
EXTENDS SharedConfig, SequenceTheorems, TLAPS

(***************************************************************************)
(* Types.                                                                  *)
(***************************************************************************)
LEMMA InitType == Init => TypeOK
  <1> SUFFICES ASSUME Init PROVE TypeOK
    OBVIOUS
  <1>1. /\ lists \in [Links \cup {Start} -> SUBSET Identities]
        /\ at \in [Links -> Places]
    BY DEF Init, Places
  <1>2. /\ default_command \in Seq(Words) /\ asked \in [Links -> CommandLines]
        /\ executed \in [Links -> Seq(Words)]
    BY CommandAssumption DEF Init
  <1>3. QED BY <1>1, <1>2 DEF Init, TypeOK

LEMMA GoType ==
  ASSUME TypeOK, NEW l \in Links, NEW p \in Places, Go(l, p)
  PROVE  at' \in [Links -> Places]
  BY DEF Go, TypeOK

LEMMA PlaceTypes ==
  {"open", "read", "append", "bind", "session", "start", "started", "refused"} \subseteq Places
  BY DEF Places

LEMMA NextType == TypeOK /\ [Next]_vars => TypeOK'
  <1> SUFFICES ASSUME TypeOK, [Next]_vars PROVE TypeOK'
    OBVIOUS
  <1> USE DEF listVars, sinceVars, reloadVars, optionVars, commandVars
  <1>1. ASSUME NEW l \in Links, LinkEstablished(l) PROVE TypeOK'
    <2>1. at' \in [Links -> Places]
      BY <1>1, GoType, PlaceTypes DEF LinkEstablished
    <2>2. undisturbed' \in [Links -> BOOLEAN]
      <3>1. \A k \in Links : (Reloading = {} /\ (undisturbed[k] \/ k = l)) \in BOOLEAN
        BY Zenon
      <3>2. QED BY <1>1, <3>1 DEF LinkEstablished
    <2>3. listed_since' \in [Links -> SUBSET Identities]
      <3>1. file \cup UNION {listed_since[k] : k \in Reloading} \in SUBSET Identities
        BY DEF TypeOK, Reloading
      <3>2. QED BY <1>1, <3>1 DEF LinkEstablished, TypeOK
    <2>4. QED BY <1>1, <2>1, <2>2, <2>3 DEF LinkEstablished, TypeOK
  <1>2. ASSUME NEW l \in Links, OpenFails(l) PROVE TypeOK'
    <2>1. at' \in [Links -> Places]
      BY <1>2, GoType, PlaceTypes DEF OpenFails
    <2>2. QED BY <1>2, <2>1 DEF OpenFails, TypeOK
  <1>3. ASSUME NEW l \in Links, Open(l) PROVE TypeOK'
    <2>1. at' \in [Links -> Places]
      BY <1>3, GoType, PlaceTypes DEF Open
    <2>2. QED BY <1>3, <2>1 DEF Open, NewList, TypeOK
  <1>4. ASSUME NEW l \in Links, Read(l) PROVE TypeOK'
    <2>1. at' \in [Links -> Places]
      BY <1>4, GoType, PlaceTypes DEF Read
    <2>2. QED BY <1>4, <2>1 DEF Read, TypeOK
  <1>5. ASSUME NEW l \in Links, ReadFails(l) PROVE TypeOK'
    <2>1. at' \in [Links -> Places]
      BY <1>5, GoType, PlaceTypes DEF ReadFails
    <2>2. unread' \in BOOLEAN
      <3>1. (unread \/ file_list = l) \in BOOLEAN
        BY Zenon
      <3>2. QED BY <1>5, <3>1 DEF ReadFails
    <2>3. QED BY <1>5, <2>1, <2>2 DEF ReadFails, TypeOK
  <1>6. ASSUME NEW l \in Links, AppendIdentity(l) PROVE TypeOK'
    <2>1. PICK i \in to_append[l] :
            /\ lists' = [lists EXCEPT ![file_list] = @ \cup {i}]
            /\ to_append' = [to_append EXCEPT ![l] = @ \ {i}]
      BY <1>6 DEF AppendIdentity
    <2>2. i \in Identities
      BY <2>1 DEF TypeOK
    <2>3. QED BY <1>6, <2>1, <2>2 DEF AppendIdentity, TypeOK
  <1>7. ASSUME NEW l \in Links, Loaded(l) PROVE TypeOK'
    <2>1. at' \in [Links -> Places]
      BY <1>7, GoType, PlaceTypes DEF Loaded
    <2>2. QED BY <1>7, <2>1 DEF Loaded, TypeOK
  <1>8. ASSUME NEW l \in Links, Bind(l) PROVE TypeOK'
    <2>1. at' \in [Links -> Places]
      BY <1>8, GoType, PlaceTypes DEF Bind
    <2>2. QED BY <1>8, <2>1 DEF Bind, TypeOK
  <1>9. ASSUME NEW l \in Links, Spawn(l) PROVE TypeOK'
    <2>1. at' \in [Links -> Places]
      BY <1>9, GoType, PlaceTypes DEF Spawn
    <2>2. executed' \in [Links -> Seq(Words)]
      <3>1. asked[l] \in Seq(Words) /\ default_command \in Seq(Words)
        BY CommandAssumption DEF TypeOK
      <3>2. QED BY <1>9, <3>1 DEF Spawn, TypeOK
    <2>3. QED BY <1>9, <2>1, <2>2 DEF Spawn, TypeOK
  <1>10. ASSUME NEW l \in Links, NEW c \in CommandLines, StartCmd(l, c) PROVE TypeOK'
    <2>1. at' \in [Links -> Places]
      BY <1>10, GoType, PlaceTypes DEF StartCmd
    <2>2. default_command' \in Seq(Words)
      <3>1. c \in Seq(Words) /\ default_command \in Seq(Words)
        BY CommandAssumption DEF TypeOK
      <3>2. ExtendCommand(c) \in Seq(Words)
        BY <3>1 DEF ExtendCommand
      <3>3. QED BY <1>10, <3>1, <3>2 DEF StartCmd
    <2>3. QED BY <1>10, <2>1, <2>2 DEF StartCmd, TypeOK
  <1>11. ASSUME NEW S \in SUBSET Identities, EditFile(S) PROVE TypeOK'
    BY <1>11 DEF EditFile, TypeOK
  <1>12. CASE UNCHANGED vars
    BY <1>12 DEF vars, TypeOK
  <1>13. QED
    BY <1>1, <1>2, <1>3, <1>4, <1>5, <1>6, <1>7, <1>8, <1>9, <1>10, <1>11, <1>12
    DEF Next, Reload

\* The shared variables keep their types; in particular the default command line
\* stays a list of words however often it is extended (session.py:313-319).
THEOREM ConfigTypeCorrect == Spec => []TypeOK
  BY InitType, NextType, PTL DEF Spec

(***************************************************************************)
(* The list of identities.                                                 *)
(***************************************************************************)
Up(l)      == at[l] # "none"
Loading(l) == at[l] \in {"read", "append"}

\* A name is bound to a link's list only once its reload has opened the file.
NamesInv ==
  /\ \A n \in Links : n \in {file_list, class_list} => opened[n]
  /\ \A l \in Links : at[l] \in {"none", "open"} => ~opened[l]

\* A reload under way has nothing to append that another link should not accept: what
\* the file held since it began is part of what it held since that link was up, or since
\* a reload began that was under way then.
EraInv ==
  /\ \A l \in Links : Up(l) => file \subseteq listed_since[l]
  /\ \A k \in Reloading, l \in Links : Up(l) => listed_since[k] \subseteq listed_since[l]
  /\ \A k \in Links : at[k] = "append" => to_append[k] \subseteq listed_since[k]
  /\ \A l \in Links : opened[l] => lists[file_list] \subseteq listed_since[l]
  /\ \A l \in Links : HasSession(l) /\ opened[l] => lists[class_list] \subseteq listed_since[l]

\* What a link may count on: its own reload has opened the file, and none has spoilt
\* the list since.
Served(l) == opened[l] /\ undisturbed[l]

\* A reload that spoils nothing is alone, so that the list that it fills is its own and
\* the one that the next Bind takes.
KeptInv ==
  /\ \A l \in Links : Up(l) => kept_since[l] \subseteq file
  /\ \A l \in Links : undisturbed[l] => Up(l)
  /\ \A l \in Links : undisturbed[l] => \A j, k \in Reloading : j = k
  /\ \A l, k \in Links : Served(l) /\ Loading(k) => file_list = k
  /\ \A l, k \in Links : Served(l) /\ at[k] = "append" =>
       kept_since[l] \subseteq lists[file_list] \cup to_append[k]
  /\ \A l \in Links : Served(l) /\ (\A k \in Links : ~Loading(k)) =>
       kept_since[l] \subseteq lists[file_list]
  /\ \A l \in Links : HasSession(l) /\ Served(l) => kept_since[l] \subseteq lists[class_list]

\* The list bound last is its own reload's to fill, whoever else appends to it: in the
\* end it holds all that the file held since then, and the class has it.
SettledInv ==
  /\ \A l \in Links : opened[l] => file_list \in Links
  /\ class_list = file_list \/ file_list \in Reloading
  /\ \A l \in Links : opened[l] /\ at[file_list] = "append" =>
       kept_since[l] \subseteq lists[file_list] \cup to_append[file_list]
  /\ \A l \in Links : opened[l] /\ ~Loading(file_list) /\ ~unread =>
       kept_since[l] \subseteq lists[file_list]

LEMMA InitLists == Init => NamesInv /\ EraInv /\ KeptInv /\ SettledInv
  <1> SUFFICES ASSUME Init PROVE NamesInv /\ EraInv /\ KeptInv /\ SettledInv
    OBVIOUS
  <1>1. \A l \in Links : /\ at[l] = "none" /\ ~opened[l] /\ ~undisturbed[l]
                         /\ file_list # l /\ class_list # l
    BY NameAssumption DEF Init
  <1>2. NamesInv
    BY <1>1 DEF NamesInv
  <1>3. EraInv
    BY <1>1 DEF EraInv, Up, Reloading, HasSession
  <1>4. KeptInv
    BY <1>1 DEF KeptInv, Up, Served, HasSession
  <1>5. SettledInv
    BY <1>1 DEF SettledInv, Init
  <1>6. QED BY <1>2, <1>3, <1>4, <1>5

LEMMA NextNames ==
  ASSUME TypeOK, NamesInv, [Next]_vars
  PROVE  NamesInv'
  <1> USE DEF listVars, sinceVars, reloadVars, optionVars, commandVars
  <1>1. ASSUME NEW l \in Links, Reload(l) \/ Spawn(l) PROVE NamesInv'
    <2>1. CASE LinkEstablished(l)
      BY <2>1 DEF LinkEstablished, Go, NamesInv, TypeOK
    <2>2. CASE OpenFails(l)
      BY <2>2 DEF OpenFails, Go, NamesInv, TypeOK
    <2>3. CASE Open(l)
      BY <2>3 DEF Open, NewList, Go, NamesInv, TypeOK
    <2>4. CASE Read(l)
      BY <2>4 DEF Read, Go, NamesInv, TypeOK
    <2>5. CASE ReadFails(l)
      BY <2>5 DEF ReadFails, Go, NamesInv, TypeOK
    <2>6. CASE AppendIdentity(l)
      BY <2>6 DEF AppendIdentity, NamesInv
    <2>7. CASE Loaded(l)
      BY <2>7 DEF Loaded, Go, NamesInv, TypeOK
    <2>8. CASE Bind(l)
      BY <2>8 DEF Bind, Go, NamesInv, TypeOK
    <2>9. CASE Spawn(l)
      BY <2>9 DEF Spawn, Go, NamesInv, TypeOK
    <2>10. QED
      BY <1>1, <2>1, <2>2, <2>3, <2>4, <2>5, <2>6, <2>7, <2>8, <2>9 DEF Reload
  <1>2. ASSUME NEW l \in Links, NEW c \in CommandLines, StartCmd(l, c) PROVE NamesInv'
    BY <1>2 DEF StartCmd, Go, NamesInv, TypeOK
  <1>3. ASSUME NEW S \in SUBSET Identities, EditFile(S) PROVE NamesInv'
    BY <1>3 DEF EditFile, NamesInv
  <1>4. ASSUME UNCHANGED vars PROVE NamesInv'
    BY <1>4 DEF vars, NamesInv
  <1>5. QED BY <1>1, <1>2, <1>3, <1>4 DEF Next

LEMMA NextEra ==
  ASSUME TypeOK, NamesInv, EraInv, [Next]_vars
  PROVE  EraInv'
  <1> USE DEF listVars, sinceVars, reloadVars, optionVars, commandVars
  \* A step of a link that is up and reloads nothing anew.
  <1>1. ASSUME NEW l \in Links, NEW p \in Places \ {"none", "open"}, Go(l, p), Up(l),
               p \in {"read", "append", "bind"} => l \in Reloading,
               p = "append" => at[l] = "append",
               p \in {"session", "start", "started", "refused"} => HasSession(l),
               UNCHANGED <<file, listVars, sinceVars, reloadVars>>
        PROVE  EraInv'
    <2>1. \A k \in Links : /\ Up(k)' <=> Up(k)
                           /\ k \in Reloading' => k \in Reloading
                           /\ at'[k] = "append" => at[k] = "append"
                           /\ HasSession(k)' => HasSession(k)
      BY <1>1 DEF Go, Up, Reloading, HasSession, TypeOK
    <2>2. QED BY <1>1, <2>1 DEF EraInv, Reloading
  <1>2. ASSUME NEW l \in Links, Reload(l) \/ Spawn(l) PROVE EraInv'
    <2>1. CASE LinkEstablished(l)
      <3>1. /\ \A k \in Links \ {l} : at'[k] = at[k] /\ listed_since'[k] = listed_since[k]
            /\ at[l] = "none" /\ at'[l] = "open" /\ ~opened[l]
            /\ listed_since'[l] = file \cup UNION {listed_since[k] : k \in Reloading}
            /\ UNCHANGED <<file, lists, file_list, class_list, to_append, opened>>
        BY <2>1 DEF LinkEstablished, Go, NamesInv, TypeOK
      <3>2. l \notin Reloading /\ Reloading' = Reloading \cup {l}
        BY <3>1 DEF Reloading
      <3>3. \A k \in Links : Up(k)' => k = l \/ Up(k)
        BY <3>1 DEF Up
      <3>4. \A k \in Reloading' : Up(l)' => listed_since'[k] \subseteq listed_since'[l]
        BY <3>1, <3>2 DEF Reloading
      <3>5. \A j \in Links : Up(j) => listed_since'[l] \subseteq listed_since[j]
        BY <3>1 DEF EraInv
      <3>6. \A k \in Reloading', j \in Links :
              Up(j)' => listed_since'[k] \subseteq listed_since'[j]
        BY <3>1, <3>2, <3>3, <3>4, <3>5 DEF EraInv, Reloading
      <3>7. \A j \in Links : Up(j)' => file' \subseteq listed_since'[j]
        BY <3>1, <3>3 DEF EraInv
      <3>8. \A k \in Links : at'[k] = "append" => to_append'[k] \subseteq listed_since'[k]
        BY <3>1 DEF EraInv
      <3>9. /\ \A j \in Links : opened'[j] => lists'[file_list'] \subseteq listed_since'[j]
            /\ \A j \in Links : HasSession(j)' /\ opened'[j] =>
                 lists'[class_list'] \subseteq listed_since'[j]
        BY <3>1 DEF EraInv, HasSession
      <3>10. QED BY <3>6, <3>7, <3>8, <3>9 DEF EraInv
    <2>2. CASE OpenFails(l)
      BY <2>2, <1>1 DEF OpenFails, Up, Reloading, Places
    <2>3. CASE Open(l)
      <3>1. /\ \A k \in Links \ {l} : at'[k] = at[k] /\ opened'[k] = opened[k]
            /\ at[l] = "open" /\ at'[l] = "read" /\ opened'[l] /\ ~opened[l]
            /\ file_list' = l /\ lists'[l] = {} /\ class_list # l
            /\ \A n \in Links \cup {Start} : n # l => lists'[n] = lists[n]
            /\ UNCHANGED <<file, class_list, to_append, listed_since>>
        BY <2>3 DEF Open, NewList, Go, NamesInv, TypeOK
      <3>2. Reloading' = Reloading /\ \A k \in Links : Up(k)' <=> Up(k)
        BY <3>1 DEF Reloading, Up
      <3>3. \A k \in Links : HasSession(k)' => HasSession(k) /\ k # l
        BY <3>1 DEF HasSession
      <3>4. class_list \in Links \cup {Start} /\ lists'[class_list'] = lists[class_list]
        BY <3>1 DEF TypeOK
      <3>5. /\ \A k \in Links : Up(k)' => file' \subseteq listed_since'[k]
            /\ \A k \in Reloading', j \in Links :
                 Up(j)' => listed_since'[k] \subseteq listed_since'[j]
            /\ \A k \in Links : at'[k] = "append" => to_append'[k] \subseteq listed_since'[k]
        BY <3>1, <3>2 DEF EraInv
      <3>6. /\ \A j \in Links : opened'[j] => lists'[file_list'] \subseteq listed_since'[j]
            /\ \A j \in Links : HasSession(j)' /\ opened'[j] =>
                 lists'[class_list'] \subseteq listed_since'[j]
        BY <3>1, <3>3, <3>4 DEF EraInv
      <3>7. QED BY <3>5, <3>6 DEF EraInv
    <2>4. CASE Read(l)
      <3>1. /\ \A k \in Links \ {l} : at'[k] = at[k] /\ to_append'[k] = to_append[k]
            /\ at[l] = "read" /\ at'[l] = "append" /\ to_append'[l] = file
            /\ UNCHANGED <<file, lists, file_list, class_list, listed_since, opened>>
        BY <2>4 DEF Read, Go, TypeOK
      <3>2. /\ Reloading' = Reloading
            /\ \A k \in Links : (Up(k)' <=> Up(k)) /\ (HasSession(k)' <=> HasSession(k))
        BY <3>1 DEF Reloading, Up, HasSession
      <3>3. file \subseteq listed_since[l]
        BY <3>1 DEF EraInv, Up
      <3>4. \A k \in Links : at'[k] = "append" => to_append'[k] \subseteq listed_since'[k]
        BY <3>1, <3>3 DEF EraInv
      <3>5. QED BY <3>1, <3>2, <3>4 DEF EraInv
    <2>5. CASE ReadFails(l)
      <3>1. /\ \A k \in Links \ {l} : at'[k] = at[k]
            /\ at[l] = "read" /\ at'[l] = "bind"
            /\ UNCHANGED <<file, listVars, listed_since, opened>>
        BY <2>5 DEF ReadFails, Go, TypeOK
      <3>2. /\ Reloading' = Reloading
            /\ \A k \in Links : (Up(k)' <=> Up(k)) /\ (HasSession(k)' <=> HasSession(k))
        BY <3>1 DEF Reloading, Up, HasSession
      <3>3. QED BY <3>1, <3>2 DEF EraInv
    <2>6. CASE AppendIdentity(l)
      <3>1. PICK i \in to_append[l] :
              /\ lists' = [lists EXCEPT ![file_list] = @ \cup {i}]
              /\ to_append' = [to_append EXCEPT ![l] = @ \ {i}]
        BY <2>6 DEF AppendIdentity
      <3>2. at[l] = "append" /\ UNCHANGED <<file, at, file_list, class_list, listed_since, opened>>
        BY <2>6 DEF AppendIdentity
      <3>3. l \in Reloading /\ i \in listed_since[l]
        BY <3>1, <3>2 DEF EraInv, Reloading
      <3>4. \A j \in Links : Up(j) => i \in listed_since[j]
        BY <3>3 DEF EraInv
      <3>5. \A j \in Links : opened[j] => Up(j)
        BY DEF NamesInv, Up
      <3>6. \A n \in Links \cup {Start} : /\ lists'[n] \subseteq lists[n] \cup {i}
        BY <3>1 DEF TypeOK
      <3>7. \A k \in Links : to_append'[k] \subseteq to_append[k]
        BY <3>1 DEF TypeOK
      <3>8. /\ \A j \in Links : opened'[j] => lists'[file_list'] \subseteq listed_since'[j]
            /\ \A j \in Links : HasSession(j)' /\ opened'[j] =>
                 lists'[class_list'] \subseteq listed_since'[j]
        BY <3>2, <3>4, <3>5, <3>6 DEF EraInv, HasSession, TypeOK
      <3>9. /\ Reloading' = Reloading /\ \A k \in Links : Up(k)' <=> Up(k)
            /\ \A k \in Links : at'[k] = "append" => to_append'[k] \subseteq listed_since'[k]
        BY <3>2, <3>7 DEF EraInv, Reloading, Up
      <3>10. QED BY <3>2, <3>8, <3>9 DEF EraInv
    <2>7. CASE Loaded(l)
      BY <2>7, <1>1 DEF Loaded, Up, Reloading, Places
    <2>8. CASE Bind(l)
      <3>1. /\ \A k \in Links \ {l} : at'[k] = at[k]
            /\ at[l] = "bind" /\ at'[l] = "session" /\ class_list' = file_list
            /\ UNCHANGED <<file, lists, file_list, to_append, listed_since, opened>>
        BY <2>8 DEF Bind, Go, TypeOK
      <3>2. Reloading' \subseteq Reloading /\ \A k \in Links : Up(k)' <=> Up(k)
        BY <3>1 DEF Reloading, Up
      <3>3. QED BY <3>1, <3>2 DEF EraInv
    <2>9. CASE Spawn(l)
      BY <2>9, <1>1 DEF Spawn, Up, HasSession, Places
    <2>10. QED
      BY <1>2, <2>1, <2>2, <2>3, <2>4, <2>5, <2>6, <2>7, <2>8, <2>9 DEF Reload
  <1>3. ASSUME NEW l \in Links, NEW c \in CommandLines, StartCmd(l, c) PROVE EraInv'
    <2>1. \E p \in {"start", "refused"} : Go(l, p)
      BY <1>3 DEF StartCmd
    <2>2. QED BY <1>3, <2>1, <1>1 DEF StartCmd, Up, HasSession, Places
  <1>4. ASSUME NEW S \in SUBSET Identities, EditFile(S) PROVE EraInv'
    <2>1. /\ \A k \in Links : listed_since'[k] = listed_since[k] \cup S
          /\ file' = S /\ UNCHANGED <<listVars, at, opened>>
      BY <1>4 DEF EditFile
    <2>2. /\ Reloading' = Reloading
          /\ \A k \in Links : (Up(k)' <=> Up(k)) /\ (HasSession(k)' <=> HasSession(k))
      BY <2>1 DEF Reloading, Up, HasSession
    <2>3. QED BY <2>1, <2>2 DEF EraInv, Reloading
  <1>5. ASSUME UNCHANGED vars PROVE EraInv'
    BY <1>5 DEF vars, EraInv, Reloading, Up, HasSession
  <1>6. QED BY <1>2, <1>3, <1>4, <1>5 DEF Next

LEMMA NextKept ==
  ASSUME TypeOK, NamesInv, KeptInv, [Next]_vars
  PROVE  KeptInv'
  <1> USE DEF listVars, sinceVars, reloadVars, optionVars, commandVars
  \* A step of a link that is up and has begun or ended no reload.
  <1>1. ASSUME NEW l \in Links, NEW p \in Places, Go(l, p), Up(l), ~Loading(l),
               p \in {"bind", "start", "started", "refused"},
               p = "bind" => l \in Reloading, p # "bind" => HasSession(l),
               UNCHANGED <<file, listVars, sinceVars, reloadVars>>
        PROVE  KeptInv'
    <2>1. \A k \in Links : /\ Up(k)' <=> Up(k)
                           /\ k \in Reloading' => k \in Reloading
                           /\ Loading(k)' <=> Loading(k)
                           /\ at'[k] = "append" => at[k] = "append"
                           /\ HasSession(k)' => HasSession(k)
      BY <1>1 DEF Go, Up, Reloading, Loading, HasSession, TypeOK
    <2>2. \A k \in Links : Served(k)' <=> Served(k)
      BY <1>1 DEF Served
    <2>3. QED BY <1>1, <2>1, <2>2 DEF KeptInv, Reloading
  <1>2. ASSUME NEW l \in Links, Reload(l) \/ Spawn(l) PROVE KeptInv'
    <2>1. CASE LinkEstablished(l)
      <3>1. /\ \A k \in Links \ {l} : at'[k] = at[k] /\ kept_since'[k] = kept_since[k]
            /\ at[l] = "none" /\ at'[l] = "open" /\ ~opened[l] /\ kept_since'[l] = file
            /\ UNCHANGED <<file, lists, file_list, class_list, to_append, opened>>
        BY <2>1 DEF LinkEstablished, Go, NamesInv, TypeOK
      <3>2. /\ \A k \in Links : undisturbed'[k] => Reloading = {} /\ (undisturbed[k] \/ k = l)
            /\ \A k \in Links : Served(k)' => Served(k) /\ k # l
        BY <2>1, <3>1 DEF LinkEstablished, Served
      <3>3. /\ Reloading' = Reloading \cup {l}
            /\ \A k \in Links : Up(k)' => k = l \/ Up(k)
            /\ \A k \in Links : (Loading(k)' <=> Loading(k)) /\ (HasSession(k)' <=> HasSession(k))
            /\ \A k \in Links : at'[k] = "append" => at[k] = "append"
        BY <3>1 DEF Reloading, Up, Loading, HasSession
      <3>4. /\ \A k \in Links : Up(k)' => kept_since'[k] \subseteq file'
            /\ \A k \in Links : undisturbed'[k] => Up(k)'
            /\ \A k \in Links : undisturbed'[k] => \A i, j \in Reloading' : i = j
        BY <3>1, <3>2, <3>3 DEF KeptInv, Up
      <3>5. /\ \A j, k \in Links : Served(j)' /\ Loading(k)' => file_list' = k
            /\ \A j, k \in Links : Served(j)' /\ at'[k] = "append" =>
                 kept_since'[j] \subseteq lists'[file_list'] \cup to_append'[k]
            /\ \A j \in Links : Served(j)' /\ (\A k \in Links : ~Loading(k)') =>
                 kept_since'[j] \subseteq lists'[file_list']
            /\ \A j \in Links : HasSession(j)' /\ Served(j)' =>
                 kept_since'[j] \subseteq lists'[class_list']
        BY <3>1, <3>2, <3>3 DEF KeptInv
      <3>6. QED BY <3>4, <3>5 DEF KeptInv
    <2>2. CASE OpenFails(l)
      BY <2>2, <1>1 DEF OpenFails, Up, Loading, Reloading, Places
    <2>3. CASE Open(l)
      <3>1. /\ \A k \in Links \ {l} : at'[k] = at[k]
            /\ at[l] = "open" /\ at'[l] = "read"
            /\ file_list' = l /\ lists'[l] = {} /\ class_list # l
            /\ \A n \in Links \cup {Start} : n # l => lists'[n] = lists[n]
            /\ \A k \in Links \ {l} : Served(k)' <=> Served(k)
            /\ UNCHANGED <<file, class_list, kept_since, undisturbed>>
        BY <2>3 DEF Open, NewList, Go, NamesInv, Served, TypeOK
      <3>2. /\ Reloading' = Reloading /\ l \in Reloading
            /\ \A k \in Links : Up(k)' <=> Up(k)
            /\ \A k \in Links : HasSession(k)' => HasSession(k) /\ k # l
            /\ \A k \in Links : Loading(k)' => k \in Reloading
            /\ Loading(l)'
        BY <3>1 DEF Reloading, Up, HasSession, Loading
      <3>3. class_list \in Links \cup {Start} /\ lists'[class_list'] = lists[class_list]
        BY <3>1 DEF TypeOK
      <3>4. \A j, k \in Links : Served(j)' /\ Loading(k)' => k = l
        BY <3>1, <3>2 DEF KeptInv, Served
      <3>5. QED BY <3>1, <3>2, <3>3, <3>4 DEF KeptInv, Loading
    <2>4. CASE Read(l)
      <3>1. /\ \A k \in Links \ {l} : at'[k] = at[k] /\ to_append'[k] = to_append[k]
            /\ at[l] = "read" /\ at'[l] = "append" /\ to_append'[l] = file
            /\ UNCHANGED <<file, lists, file_list, class_list, kept_since, opened, undisturbed>>
        BY <2>4 DEF Read, Go, TypeOK
      <3>2. /\ Reloading' = Reloading /\ Loading(l)'
            /\ \A k \in Links : /\ (Up(k)' <=> Up(k)) /\ (HasSession(k)' <=> HasSession(k))
                                /\ (Loading(k)' <=> Loading(k)) /\ (Served(k)' <=> Served(k))
        BY <3>1 DEF Reloading, Up, HasSession, Loading, Served
      <3>3. \A j, k \in Links : Served(j)' /\ at'[k] = "append" =>
              kept_since'[j] \subseteq lists'[file_list'] \cup to_append'[k]
        BY <3>1, <3>2 DEF KeptInv, Served
      <3>4. QED BY <3>1, <3>2, <3>3 DEF KeptInv
    <2>5. CASE ReadFails(l)
      <3>1. /\ \A k \in Links : ~undisturbed'[k] /\ ~Served(k)'
            /\ UNCHANGED <<file, kept_since>>
        BY <2>5 DEF ReadFails, Served
      <3>2. \A k \in Links : Up(k)' <=> Up(k)
        BY <2>5 DEF ReadFails, Go, Up, TypeOK
      <3>3. QED BY <3>1, <3>2 DEF KeptInv
    <2>6. CASE AppendIdentity(l)
      <3>1. PICK i \in to_append[l] :
              /\ lists' = [lists EXCEPT ![file_list] = @ \cup {i}]
              /\ to_append' = [to_append EXCEPT ![l] = @ \ {i}]
        BY <2>6 DEF AppendIdentity
      <3>2. /\ at[l] = "append"
            /\ UNCHANGED <<file, at, file_list, class_list, kept_since, opened, undisturbed>>
        BY <2>6 DEF AppendIdentity
      <3>3. /\ Reloading' = Reloading
            /\ \A k \in Links : /\ (Up(k)' <=> Up(k)) /\ (HasSession(k)' <=> HasSession(k))
                                /\ (Loading(k)' <=> Loading(k)) /\ (Served(k)' <=> Served(k))
        BY <3>2 DEF Reloading, Up, HasSession, Loading, Served
      <3>4. /\ \A n \in Links \cup {Start} : lists[n] \subseteq lists'[n]
            /\ lists'[file_list] = lists[file_list] \cup {i}
            /\ to_append'[l] = to_append[l] \ {i}
            /\ \A k \in Links \ {l} : to_append'[k] = to_append[k]
        BY <3>1 DEF TypeOK
      <3>5. lists'[file_list] \cup to_append'[l] = lists[file_list] \cup to_append[l]
        BY <3>1, <3>4
      <3>6. \A j, k \in Links : Served(j)' /\ at'[k] = "append" =>
              kept_since'[j] \subseteq lists'[file_list'] \cup to_append'[k]
        <4> SUFFICES ASSUME NEW j \in Links, NEW k \in Links, Served(j), at[k] = "append"
                     PROVE  kept_since[j] \subseteq lists'[file_list] \cup to_append'[k]
          BY <3>2, <3>3
        <4>1. kept_since[j] \subseteq lists[file_list] \cup to_append[k]
          BY DEF KeptInv
        <4>2. file_list \in Links \cup {Start}
          BY DEF TypeOK
        <4>3. QED BY <3>4, <3>5, <4>1, <4>2
      <3>7. \A j \in Links : HasSession(j)' /\ Served(j)' =>
              kept_since'[j] \subseteq lists'[class_list']
        BY <3>2, <3>3, <3>4 DEF KeptInv, TypeOK
      <3>8. Loading(l)
        BY <3>2 DEF Loading
      <3>9. QED BY <3>2, <3>3, <3>6, <3>7, <3>8 DEF KeptInv
    <2>7. CASE Loaded(l)
      <3>1. /\ \A k \in Links \ {l} : at'[k] = at[k]
            /\ at[l] = "append" /\ at'[l] = "bind" /\ to_append[l] = {}
            /\ UNCHANGED <<file, listVars, kept_since, opened, undisturbed>>
        BY <2>7 DEF Loaded, Go, TypeOK
      <3>2. /\ Reloading' = Reloading
            /\ \A k \in Links : /\ (Up(k)' <=> Up(k)) /\ (HasSession(k)' <=> HasSession(k))
                                /\ (Loading(k)' => Loading(k)) /\ (Served(k)' <=> Served(k))
        BY <3>1 DEF Reloading, Up, HasSession, Loading, Served
      <3>3. \A j \in Links : Served(j) => kept_since[j] \subseteq lists[file_list]
        BY <3>1 DEF KeptInv
      <3>4. QED BY <3>1, <3>2, <3>3 DEF KeptInv
    <2>8. CASE Bind(l)
      <3>1. /\ \A k \in Links \ {l} : at'[k] = at[k]
            /\ at[l] = "bind" /\ at'[l] = "session" /\ class_list' = file_list
            /\ UNCHANGED <<file, lists, file_list, to_append, kept_since, opened, undisturbed>>
        BY <2>8 DEF Bind, Go, TypeOK
      <3>2. /\ Reloading' \subseteq Reloading /\ l \in Reloading /\ ~Loading(l)
            /\ \A k \in Links : /\ (Up(k)' <=> Up(k)) /\ (Loading(k)' <=> Loading(k))
                                /\ (Served(k)' <=> Served(k)) /\ (Loading(k) => k \in Reloading)
        BY <3>1 DEF Reloading, Up, Loading, Served
      <3>3. \A j \in Links : Served(j) => \A k \in Links : ~Loading(k)
        BY <3>2 DEF KeptInv, Served
      <3>4. \A j \in Links : Served(j) => kept_since[j] \subseteq lists[file_list]
        BY <3>3 DEF KeptInv
      <3>5. QED BY <3>1, <3>2, <3>4 DEF KeptInv
    <2>9. CASE Spawn(l)
      BY <2>9, <1>1 DEF Spawn, Up, Loading, HasSession, Places
    <2>10. QED
      BY <1>2, <2>1, <2>2, <2>3, <2>4, <2>5, <2>6, <2>7, <2>8, <2>9 DEF Reload
  <1>3. ASSUME NEW l \in Links, NEW c \in CommandLines, StartCmd(l, c) PROVE KeptInv'
    <2>1. \E p \in {"start", "refused"} : Go(l, p)
      BY <1>3 DEF StartCmd
    <2>2. QED BY <1>3, <2>1, <1>1 DEF StartCmd, Up, Loading, HasSession, Places
  <1>4. ASSUME NEW S \in SUBSET Identities, EditFile(S) PROVE KeptInv'
    <2>1. /\ \A k \in Links : kept_since'[k] = kept_since[k] \cap S
          /\ file' = S /\ UNCHANGED <<listVars, at, opened, undisturbed>>
      BY <1>4 DEF EditFile
    <2>2. /\ Reloading' = Reloading
          /\ \A k \in Links : /\ (Up(k)' <=> Up(k)) /\ (HasSession(k)' <=> HasSession(k))
                              /\ (Loading(k)' <=> Loading(k)) /\ (Served(k)' <=> Served(k))
      BY <2>1 DEF Reloading, Up, HasSession, Loading, Served
    <2>3. QED BY <2>1, <2>2 DEF KeptInv
  <1>5. ASSUME UNCHANGED vars PROVE KeptInv'
    BY <1>5 DEF vars, KeptInv, Reloading, Up, HasSession, Loading, Served
  <1>6. QED BY <1>2, <1>3, <1>4, <1>5 DEF Next

LEMMA NextSettled ==
  ASSUME TypeOK, NamesInv, KeptInv, SettledInv, [Next]_vars
  PROVE  SettledInv'
  <1> USE DEF listVars, sinceVars, reloadVars, optionVars, commandVars
  \* A step of another link than the one whose list was bound last, or of a link that
  \* has its session, changes nothing of the list but may add to it.
  <1>1. ASSUME NEW l \in Links, NEW p \in Places, Go(l, p), ~opened[l] \/ HasSession(l),
               at[l] # "none" => p # "open", HasSession(l) => p \notin {"read", "append", "bind"},
               l \in Reloading => p = "bind",
               \A k \in Links : opened[k] => kept_since'[k] = kept_since[k],
               UNCHANGED <<listVars, opened, unread>>
        PROVE  SettledInv'
    <2>1. \A k \in Links : opened[k] =>
            /\ at'[file_list] = "append" => at[file_list] = "append"
            /\ Loading(file_list)' <=> Loading(file_list)
      BY <1>1 DEF SettledInv, NamesInv, Go, Loading, HasSession, TypeOK
    <2>2. class_list = file_list \/ file_list \in Reloading'
      BY <1>1 DEF SettledInv, Go, Reloading, HasSession, TypeOK
    <2>3. QED BY <1>1, <2>1, <2>2 DEF SettledInv
  <1>2. ASSUME NEW l \in Links, Reload(l) \/ Spawn(l) PROVE SettledInv'
    <2>1. CASE LinkEstablished(l)
      <3>1. at[l] = "none" /\ ~opened[l]
        BY <2>1 DEF LinkEstablished, NamesInv
      <3>2. \A k \in Links : opened[k] => kept_since'[k] = kept_since[k]
        BY <2>1, <3>1 DEF LinkEstablished, TypeOK
      <3>3. QED BY <2>1, <3>1, <3>2, <1>1 DEF LinkEstablished, Reloading, HasSession, Places
    <2>2. CASE OpenFails(l)
      <3>1. at[l] = "open" /\ ~opened[l]
        BY <2>2 DEF OpenFails, NamesInv
      <3>2. QED BY <2>2, <3>1, <1>1 DEF OpenFails, HasSession, Places
    <2>3. CASE Open(l)
      <3>1. file_list' = l /\ at'[l] = "read"
        BY <2>3 DEF Open, NewList, Go, TypeOK
      <3>2. file_list' \in Links /\ file_list' \in Reloading' /\ Loading(file_list)'
        BY <3>1 DEF Reloading, Loading
      <3>3. QED BY <3>1, <3>2 DEF SettledInv
    <2>4. CASE Read(l)
      <3>1. /\ \A k \in Links \ {l} : at'[k] = at[k] /\ to_append'[k] = to_append[k]
            /\ at[l] = "read" /\ at'[l] = "append" /\ to_append'[l] = file
            /\ UNCHANGED <<file, lists, file_list, class_list, kept_since, opened, unread>>
        BY <2>4 DEF Read, Go, TypeOK
      <3>2. /\ Reloading' = Reloading
            /\ \A k \in Links : Loading(k)' <=> Loading(k)
        BY <3>1 DEF Reloading, Loading
      <3>3. \A k \in Links : opened[k] => kept_since[k] \subseteq file
        BY DEF KeptInv, NamesInv, Up
      <3>4. \A k \in Links : opened[k] /\ at'[file_list] = "append" =>
              kept_since[k] \subseteq lists[file_list] \cup to_append'[file_list]
        BY <3>1, <3>3 DEF SettledInv
      <3>5. QED BY <3>1, <3>2, <3>4 DEF SettledInv
    <2>5. CASE ReadFails(l)
      <3>1. /\ \A k \in Links \ {l} : at'[k] = at[k]
            /\ at[l] = "read" /\ at'[l] = "bind"
            /\ ~unread' => ~unread /\ file_list # l
            /\ UNCHANGED <<listVars, kept_since, opened>>
        BY <2>5 DEF ReadFails, Go, TypeOK
      <3>2. /\ Reloading' = Reloading
            /\ \A k \in Links : k # l => (Loading(k)' <=> Loading(k))
        BY <3>1 DEF Reloading, Loading
      <3>3. QED BY <3>1, <3>2 DEF SettledInv
    <2>6. CASE AppendIdentity(l)
      <3>1. PICK i \in to_append[l] :
              /\ lists' = [lists EXCEPT ![file_list] = @ \cup {i}]
              /\ to_append' = [to_append EXCEPT ![l] = @ \ {i}]
        BY <2>6 DEF AppendIdentity
      <3>2. /\ UNCHANGED <<at, file_list, class_list, kept_since, opened, unread>>
            /\ lists'[file_list] = lists[file_list] \cup {i}
            /\ to_append'[l] = to_append[l] \ {i}
            /\ \A k \in Links \ {l} : to_append'[k] = to_append[k]
        BY <2>6, <3>1 DEF AppendIdentity, TypeOK
      <3>3. Reloading' = Reloading /\ \A k \in Links : Loading(k)' <=> Loading(k)
        BY <3>2 DEF Reloading, Loading
      <3>4. \A k \in Links : opened[k] /\ at[file_list] = "append" =>
              kept_since[k] \subseteq lists'[file_list] \cup to_append'[file_list]
        BY <3>1, <3>2 DEF SettledInv
      <3>5. QED BY <3>2, <3>3, <3>4 DEF SettledInv
    <2>7. CASE Loaded(l)
      <3>1. /\ \A k \in Links \ {l} : at'[k] = at[k]
            /\ at[l] = "append" /\ at'[l] = "bind" /\ to_append[l] = {}
            /\ UNCHANGED <<listVars, kept_since, opened, unread>>
        BY <2>7 DEF Loaded, Go, TypeOK
      <3>2. /\ Reloading' = Reloading
            /\ \A k \in Links : k # l => (Loading(k)' <=> Loading(k))
        BY <3>1 DEF Reloading, Loading
      <3>3. \A k \in Links : opened[k] /\ file_list = l => kept_since[k] \subseteq lists[l]
        BY <3>1 DEF SettledInv
      <3>4. QED BY <3>1, <3>2, <3>3 DEF SettledInv
    <2>8. CASE Bind(l)
      <3>1. /\ \A k \in Links \ {l} : at'[k] = at[k]
            /\ at[l] = "bind" /\ at'[l] = "session" /\ class_list' = file_list
            /\ UNCHANGED <<lists, file_list, to_append, kept_since, opened, unread>>
        BY <2>8 DEF Bind, Go, TypeOK
      <3>2. \A k \in Links : Loading(k)' <=> Loading(k)
        BY <3>1 DEF Loading
      <3>3. QED BY <3>1, <3>2 DEF SettledInv
    <2>9. CASE Spawn(l)
      BY <2>9, <1>1 DEF Spawn, Reloading, HasSession, Places
    <2>10. QED
      BY <1>2, <2>1, <2>2, <2>3, <2>4, <2>5, <2>6, <2>7, <2>8, <2>9 DEF Reload
  <1>3. ASSUME NEW l \in Links, NEW c \in CommandLines, StartCmd(l, c) PROVE SettledInv'
    <2>1. \E p \in {"start", "refused"} : Go(l, p)
      BY <1>3 DEF StartCmd
    <2>2. QED BY <1>3, <2>1, <1>1 DEF StartCmd, Reloading, HasSession, Places
  <1>4. ASSUME NEW S \in SUBSET Identities, EditFile(S) PROVE SettledInv'
    <2>1. /\ \A k \in Links : kept_since'[k] \subseteq kept_since[k]
          /\ UNCHANGED <<listVars, at, opened, unread>>
      BY <1>4 DEF EditFile
    <2>2. Reloading' = Reloading /\ (Loading(file_list)' <=> Loading(file_list))
      BY <2>1 DEF Reloading, Loading
    <2>3. QED BY <2>1, <2>2 DEF SettledInv
  <1>5. ASSUME UNCHANGED vars PROVE SettledInv'
    BY <1>5 DEF vars, SettledInv, Reloading, Loading
  <1>6. QED BY <1>2, <1>3, <1>4, <1>5 DEF Next

LEMMA ListsHold == Spec => [](TypeOK /\ NamesInv /\ EraInv /\ KeptInv /\ SettledInv)
  <1>1. Init => TypeOK /\ NamesInv /\ EraInv /\ KeptInv /\ SettledInv
    BY InitType, InitLists
  <1>2. TypeOK /\ NamesInv /\ EraInv /\ KeptInv /\ SettledInv /\ [Next]_vars =>
          (TypeOK /\ NamesInv /\ EraInv /\ KeptInv /\ SettledInv)'
    BY NextType, NextNames, NextEra, NextKept, NextSettled
  <1>3. QED BY <1>1, <1>2, PTL DEF Spec

\* However the reloads of the links overlap, fail and append to each other's lists, and
\* however the file changes meanwhile, a session whose own reload could open the file
\* accepts nothing that was off the file since its link was up and since the reloads
\* that were under way then began (listener.py:102-108, 208-211).
THEOREM OnlyListedHolds == Spec => []OnlyListed
  <1>1. EraInv => OnlyListed
    BY DEF EraInv, OnlyListed, Accepted
  <1>2. QED BY <1>1, ListsHold, PTL

\* A session whose own reload could open the file accepts what was on the file all the
\* time: at any moment if the reloads since came one by one and could read it, and else
\* whenever none is under way, whatever they did to each other's lists, but for the time
\* from one that could not read the file to the next (listener.py:102-116).
THEOREM AlwaysListedHolds == Spec => []AlwaysListed
  <1>1. TypeOK /\ NamesInv /\ KeptInv /\ SettledInv => AlwaysListed
    <2> SUFFICES ASSUME NamesInv, KeptInv, SettledInv, NEW l \in Links, HasSession(l), opened[l],
                        undisturbed[l] \/ (Reloading = {} /\ ~unread)
                 PROVE  kept_since[l] \subseteq lists[class_list]
      BY DEF AlwaysListed, Accepted
    <2>1. CASE undisturbed[l]
      BY <2>1 DEF KeptInv, Served
    <2>2. CASE Reloading = {} /\ ~unread
      <3>1. class_list = file_list /\ file_list \in Links
        BY <2>2 DEF SettledInv
      <3>2. ~Loading(file_list)
        BY <2>2, <3>1 DEF Reloading, Loading
      <3>3. QED BY <2>2, <3>1, <3>2 DEF SettledInv
    <2>3. QED BY <2>1, <2>2
  <1>2. QED BY <1>1, ListsHold, PTL

(***************************************************************************)
(* The command line.                                                       *)
(***************************************************************************)
LEMMA PrefixOfConcat ==
  ASSUME NEW r \in Seq(Words) \ {<<>>}, NEW s \in Seq(Words), NEW t \in Seq(Words),
         IsPrefix(r, s)
  PROVE  IsPrefix(r, s \o t)
  <1>1. Len(r) \in 1..Len(s) /\ 1 \in 1..Len(s)
    BY DEF IsPrefix
  <1>2. SubSeq(s \o t, 1, Len(r)) = SubSeq(s, 1, Len(r))
    BY <1>1, SubSeqOfConcat1
  <1>3. Len(r) <= Len(s \o t)
    BY <1>1
  <1>4. QED BY <1>2, <1>3 DEF IsPrefix

\* What is in one piece somewhere in a list stays there when the list is extended.
LEMMA AfterInConcat ==
  ASSUME NEW s \in Seq(Words), NEW u \in Seq(Words), NEW n \in Nat, NEW t \in Seq(Words),
         HasAfter(s, n, t)
  PROVE  HasAfter(s \o u, n, t)
  <1>1. PICK i \in n..(Len(s) - Len(t)) : \A j \in 1..Len(t) : s[i + j] = t[j]
    BY DEF HasAfter
  <1>2. /\ Len(s \o u) = Len(s) + Len(u)
        /\ \A k \in 1..Len(s) : (s \o u)[k] = s[k]
    BY ConcatProperties
  <1>3. i \in n..(Len(s \o u) - Len(t))
    BY <1>2
  <1>4. \A j \in 1..Len(t) : i + j \in 1..Len(s)
    OBVIOUS
  <1>5. \A j \in 1..Len(t) : (s \o u)[i + j] = t[j]
    BY <1>1, <1>2, <1>4
  <1>6. QED BY <1>3, <1>5 DEF HasAfter

\* What a list is extended by stands behind what it held.
LEMMA AfterAtEnd ==
  ASSUME NEW s \in Seq(Words), NEW t \in Seq(Words), NEW n \in Nat, n <= Len(s)
  PROVE  HasAfter(s \o t, n, t)
  <1>1. /\ Len(s \o t) = Len(s) + Len(t)
        /\ \A j \in 1..Len(t) : (s \o t)[Len(s) + j] = t[j]
    BY ConcatProperties
  <1>2. Len(s) \in n..(Len(s \o t) - Len(t))
    BY <1>1
  <1>3. QED BY <1>1, <1>2 DEF HasAfter

\* What the shared list holds, and what a session that is about to fork knows of it:
\* it was extended by the session's own words, perhaps by others' since, never shortened.
DefaultInv ==
  IF remote_cmd_as_args THEN IsPrefix(Command, default_command)
                        ELSE default_command = Command
StartInv ==
  \A l \in Links : at[l] = "start" =>
    /\ own_cmdline[l] = (asked[l] # <<>> /\ ~remote_cmd_as_args)
    /\ remote_cmd_as_args => HasAfter(default_command, Len(Command), asked[l])
    /\ ~allow_remote_command => asked[l] = <<>>

CommandInv == DefaultInv /\ StartInv /\ CommandLine

LEMMA InitCommand == Init => CommandInv
  <1> SUFFICES ASSUME Init PROVE CommandInv
    OBVIOUS
  <1>1. IsPrefix(Command, Command)
    BY CommandAssumption DEF IsPrefix
  <1>2. QED BY <1>1 DEF Init, CommandInv, DefaultInv, StartInv, CommandLine

LEMMA NextCommand ==
  ASSUME TypeOK, CommandInv, [Next]_vars
  PROVE  CommandInv'
  <1> USE DEF listVars, sinceVars, reloadVars, optionVars, commandVars
  <1>1. ASSUME NEW l \in Links, NEW p \in Places \ {"start", "started"}, Go(l, p),
               UNCHANGED <<optionVars, commandVars>>
        PROVE  CommandInv'
    <2>1. \A k \in Links : at'[k] \in {"start", "started"} => at'[k] = at[k]
      BY <1>1 DEF Go, TypeOK
    <2>2. QED BY <1>1, <2>1 DEF CommandInv, DefaultInv, StartInv, CommandLine
  <1>2. ASSUME UNCHANGED <<at, optionVars, commandVars>> PROVE CommandInv'
    BY <1>2 DEF CommandInv, DefaultInv, StartInv, CommandLine
  <1>3. ASSUME NEW l \in Links, Reload(l) PROVE CommandInv'
    <2>1. CASE LinkEstablished(l)
      BY <2>1, <1>1, PlaceTypes DEF LinkEstablished
    <2>2. CASE OpenFails(l)
      BY <2>2, <1>1, PlaceTypes DEF OpenFails
    <2>3. CASE Open(l)
      BY <2>3, <1>1, PlaceTypes DEF Open
    <2>4. CASE Read(l)
      BY <2>4, <1>1, PlaceTypes DEF Read
    <2>5. CASE ReadFails(l)
      BY <2>5, <1>1, PlaceTypes DEF ReadFails
    <2>6. CASE AppendIdentity(l)
      BY <2>6, <1>2 DEF AppendIdentity
    <2>7. CASE Loaded(l)
      BY <2>7, <1>1, PlaceTypes DEF Loaded
    <2>8. CASE Bind(l)
      BY <2>8, <1>1, PlaceTypes DEF Bind
    <2>9. QED
      BY <1>3, <2>1, <2>2, <2>3, <2>4, <2>5, <2>6, <2>7, <2>8 DEF Reload
  <1>4. ASSUME NEW l \in Links, Spawn(l) PROVE CommandInv'
    <2>1. /\ \A k \in Links \ {l} : at'[k] = at[k] /\ executed'[k] = executed[k]
          /\ at[l] = "start" /\ at'[l] = "started"
          /\ UNCHANGED <<optionVars, default_command, asked, own_cmdline>>
      BY <1>4 DEF Spawn, Go, TypeOK
    <2>2. DefaultInv' /\ StartInv'
      BY <2>1 DEF CommandInv, DefaultInv, StartInv
    <2>3. executed'[l] = IF own_cmdline[l] THEN asked[l] ELSE default_command
      BY <1>4 DEF Spawn, TypeOK
    <2>4. CommandLine'
      BY <2>1, <2>3 DEF CommandInv, DefaultInv, StartInv, CommandLine
    <2>5. QED BY <2>2, <2>4 DEF CommandInv
  <1>5. ASSUME NEW l \in Links, NEW c \in CommandLines, StartCmd(l, c) PROVE CommandInv'
    <2>1. /\ \A k \in Links \ {l} : at'[k] = at[k] /\ asked'[k] = asked[k]
                                    /\ own_cmdline'[k] = own_cmdline[k]
          /\ at'[l] = IF c # <<>> /\ ~allow_remote_command THEN "refused" ELSE "start"
          /\ asked'[l] = c /\ own_cmdline'[l] = (c # <<>> /\ ~remote_cmd_as_args)
          /\ UNCHANGED <<optionVars, executed>>
      BY <1>5 DEF StartCmd, Go, TypeOK
    <2>2. /\ c \in Seq(Words) /\ default_command \in Seq(Words)
          /\ Command \in Seq(Words) \ {<<>>} /\ Len(Command) \in Nat
          /\ \A k \in Links : asked[k] \in Seq(Words)
      BY CommandAssumption DEF TypeOK
    <2>3. CommandLine'
      <3>1. \A k \in Links : at'[k] = "started" =>
              /\ at[k] = "started" /\ asked'[k] = asked[k] /\ executed'[k] = executed[k]
        BY <2>1
      <3>2. QED BY <2>1, <3>1 DEF CommandInv, CommandLine
    <2>4. remote_cmd_as_args => Len(Command) <= Len(default_command)
      BY <2>2 DEF CommandInv, DefaultInv, IsPrefix
    <2>5. CASE c # <<>> /\ allow_remote_command /\ remote_cmd_as_args
      <3>1. default_command' = default_command \o c
        BY <1>5, <2>5 DEF StartCmd, ExtendCommand
      <3>2. DefaultInv'
        BY <2>1, <2>2, <2>5, <3>1, PrefixOfConcat DEF CommandInv, DefaultInv
      <3>3. HasAfter(default_command', Len(Command), c)
        BY <2>2, <2>4, <2>5, <3>1, AfterAtEnd
      <3>4. \A k \in Links : at[k] = "start" =>
              HasAfter(default_command', Len(Command), asked[k])
        BY <2>2, <2>5, <3>1, AfterInConcat DEF CommandInv, StartInv
      <3>5. StartInv'
        BY <2>1, <2>5, <3>3, <3>4 DEF CommandInv, StartInv
      <3>6. QED BY <2>3, <3>2, <3>5 DEF CommandInv
    <2>6. CASE ~(c # <<>> /\ allow_remote_command /\ remote_cmd_as_args)
      <3>1. default_command' = default_command
        BY <1>5, <2>6 DEF StartCmd
      <3>2. DefaultInv'
        BY <2>1, <3>1 DEF CommandInv, DefaultInv
      <3>3. remote_cmd_as_args => HasAfter(default_command, Len(Command), <<>>)
        BY <2>2, <2>4 DEF HasAfter
      <3>4. StartInv'
        BY <2>1, <2>6, <3>1, <3>3 DEF CommandInv, StartInv
      <3>5. QED BY <2>3, <3>2, <3>4 DEF CommandInv
    <2>7. QED BY <2>5, <2>6
  <1>6. ASSUME NEW S \in SUBSET Identities, EditFile(S) PROVE CommandInv'
    BY <1>2, <1>6 DEF EditFile
  <1>7. ASSUME UNCHANGED vars PROVE CommandInv'
    BY <1>2, <1>7 DEF vars
  <1>8. QED BY <1>3, <1>4, <1>5, <1>6, <1>7 DEF Next

\* The command line that is forked is never the initiator's unless the listener allows
\* it.  Without -A it is the initiator's own or the listener's own, although the latter
\* is read from a list that all sessions share; with -A that list has been extended by
\* others too, before and after, and yet begins with the listener's words and contains
\* the initiator's in one piece behind them (session.py:313-319, 336).
THEOREM CommandLineHolds == Spec => []CommandLine
  <1>1. Init => TypeOK /\ CommandInv
    BY InitType, InitCommand
  <1>2. TypeOK /\ CommandInv /\ [Next]_vars => (TypeOK /\ CommandInv)'
    BY NextType, NextCommand
  <1>3. CommandInv => CommandLine
    BY DEF CommandInv
  <1>4. QED BY <1>1, <1>2, <1>3, PTL DEF Spec
=============================================================================
