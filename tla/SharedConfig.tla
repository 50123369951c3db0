----------------------------- MODULE SharedConfig -----------------------------
(***************************************************************************)
(* What the sessions of one listener share: the allow file, the list of    *)
(* identities read from it and the default command line.                   *)
(*                                                                         *)
(* Every established link reloads the allow file (link_established and     *)
(* _reload_allowed_file of src/rnsh/listener.py), before the constructor   *)
(* of the session that will look an identity up.  No lock is taken: the    *)
(* reloads of two links may overlap.  The list is reached by two names,    *)
(* the global of the module and the attribute of class ListenerSession,    *)
(* which need not be bound to the same list.  A list is named by the link  *)
(* whose reload made it; Start names that of listen().                     *)
(* Likewise default_command and the cmdline of a session may be one list   *)
(* (_start_cmd of src/rnsh/session.py).                                    *)
(***************************************************************************)
EXTENDS Naturals, Sequences, SequencesExt

CONSTANTS
  Links,        \* links, one session each
  Start,        \* the list that listen() loads; not a link
  Identities,   \* identities that the allow file may list
  Listed,       \* those that option -a allows
  Words,        \* the words of command lines
  Command,      \* the listener's command line, or the user's shell
  CommandLines, \* command lines that initiators may send
  MaxEdits      \* bound: changes of the allow file

ASSUME NameAssumption == Start \notin Links /\ Listed \subseteq Identities
ASSUME CommandAssumption ==
  /\ Command \in Seq(Words) \ {<<>>}
  /\ CommandLines \subseteq Seq(Words) /\ <<>> \in CommandLines
ASSUME EditAssumption == MaxEdits \in Nat

VARIABLES
  file,             \* the identities in the allow file
  edits,            \* its changes so far
  lists,            \* what each list holds
  file_list,        \* _allowed_file_identity_hashes of the module
  class_list,       \* allowed_file_identity_hashes of the class
  at,               \* where the callback of each link is
  to_append,        \* identities read and not yet appended
  listed_since,     \* history: identities in the file at some time since the link was
                    \* up, or since a reload began that was under way then
  kept_since,       \* history: those in the file all the time since the link was up
  opened,           \* history: whether the link's own reload could open the file
  undisturbed,      \* history: whether no reload since the link was up has overlapped
                    \* with another or failed to read the file
  unread,           \* history: whether the list that the module's name is bound to is
                    \* one whose file could not be read
  allow_remote_command, remote_cmd_as_args,    \* the options -C and -A
  default_command,  \* the words of the list of that name
  asked,            \* the command line that the initiator of each link sent
  own_cmdline,      \* whether cmdline is the message's list and not default_command
  executed          \* the command line that was started, if one was

listVars    == <<lists, file_list, class_list, to_append>>
sinceVars   == <<listed_since, kept_since>>
reloadVars  == <<opened, undisturbed, unread>>
optionVars  == <<allow_remote_command, remote_cmd_as_args>>
commandVars == <<default_command, asked, own_cmdline, executed>>

vars == <<file, edits, listVars, at, sinceVars, reloadVars, optionVars, commandVars>>

Places == {"none", "open", "read", "append", "bind", "session", "start",
           "started", "refused"}

TypeOK ==
  /\ file \in SUBSET Identities
  /\ edits \in Nat
  /\ lists \in [Links \cup {Start} -> SUBSET Identities]
  /\ file_list \in Links \cup {Start}
  /\ class_list \in Links \cup {Start}
  /\ at \in [Links -> Places]
  /\ to_append \in [Links -> SUBSET Identities]
  /\ listed_since \in [Links -> SUBSET Identities]
  /\ kept_since \in [Links -> SUBSET Identities]
  /\ opened \in [Links -> BOOLEAN]
  /\ undisturbed \in [Links -> BOOLEAN]
  /\ unread \in BOOLEAN
  /\ allow_remote_command \in BOOLEAN
  /\ remote_cmd_as_args \in BOOLEAN
  /\ default_command \in Seq(Words)
  /\ asked \in [Links -> CommandLines]
  /\ own_cmdline \in [Links -> BOOLEAN]
  /\ executed \in [Links -> Seq(Words)]

\* listen() has read the options and loaded the file once; the class's list is
\* still its own empty one until the first link, which no session sees.
Init ==
  /\ file \in SUBSET Identities
  /\ edits = 0
  /\ lists = [n \in Links \cup {Start} |-> IF n = Start THEN file ELSE {}]
  /\ file_list = Start /\ class_list = Start
  /\ at = [l \in Links |-> "none"]
  /\ to_append = [l \in Links |-> {}]
  /\ listed_since = [l \in Links |-> {}] /\ kept_since = [l \in Links |-> {}]
  /\ opened = [l \in Links |-> FALSE] /\ undisturbed = [l \in Links |-> FALSE]
  /\ unread = FALSE
  /\ allow_remote_command \in BOOLEAN /\ remote_cmd_as_args \in BOOLEAN
  /\ default_command = Command
  /\ asked = [l \in Links |-> <<>>]
  /\ own_cmdline = [l \in Links |-> FALSE]
  /\ executed = [l \in Links |-> <<>>]

Go(l, place) == at' = [at EXCEPT ![l] = place]

\* The links whose reload is under way, from the callback's first line to the binding
\* of the class's name.
Reloading == {l \in Links : at[l] \in {"open", "read", "append", "bind"}}

-----------------------------------------------------------------------------
(***************************************************************************)
(* link_established and _reload_allowed_file.                              *)
(***************************************************************************)
LinkEstablished(l) ==
  /\ at[l] = "none"
  /\ Go(l, "open")
  /\ listed_since' = [listed_since EXCEPT ![l] =
                       file \cup UNION {listed_since[k] : k \in Reloading}]
  /\ kept_since' = [kept_since EXCEPT ![l] = file]
  /\ undisturbed' = [k \in Links |-> Reloading = {} /\ (undisturbed[k] \/ k = l)]
  /\ UNCHANGED <<file, edits, listVars, opened, unread, optionVars, commandVars>>

\* A file that cannot be opened leaves the list as it was loaded last.
OpenFails(l) ==
  /\ at[l] = "open"
  /\ Go(l, "bind")
  /\ UNCHANGED <<file, edits, listVars, sinceVars, reloadVars, optionVars, commandVars>>

\* The global name gets an empty list of its own.  The first would empty the list
\* in use, the second would append to what was loaded before.
ClearList(l) == file_list' = file_list /\ lists' = [lists EXCEPT ![file_list] = {}]
CopyList(l)  == file_list' = l /\ lists' = [lists EXCEPT ![l] = lists[file_list]]
NewList(l)   == file_list' = l /\ lists' = [lists EXCEPT ![l] = {}]

Open(l) ==
  /\ at[l] = "open"
  /\ NewList(l)
  /\ Go(l, "read")
  /\ opened' = [opened EXCEPT ![l] = TRUE]
  /\ unread' = FALSE
  /\ UNCHANGED <<file, edits, class_list, to_append, sinceVars, undisturbed, optionVars,
                 commandVars>>

Read(l) ==
  /\ at[l] = "read"
  /\ to_append' = [to_append EXCEPT ![l] = file]
  /\ Go(l, "append")
  /\ UNCHANGED <<file, edits, lists, file_list, class_list, sinceVars, reloadVars,
                 optionVars, commandVars>>

\* A read that fails leaves the new list as empty as it is, for all sessions.
ReadFails(l) ==
  /\ at[l] = "read"
  /\ Go(l, "bind")
  /\ undisturbed' = [k \in Links |-> FALSE]
  /\ unread' = (unread \/ file_list = l)
  /\ UNCHANGED <<file, edits, listVars, sinceVars, opened, optionVars, commandVars>>

\* append goes to the list that the global name is bound to at that moment.
AppendIdentity(l) ==
  /\ at[l] = "append"
  /\ \E i \in to_append[l] :
       /\ lists' = [lists EXCEPT ![file_list] = @ \cup {i}]
       /\ to_append' = [to_append EXCEPT ![l] = @ \ {i}]
  /\ UNCHANGED <<file, edits, file_list, class_list, at, sinceVars, reloadVars,
                 optionVars, commandVars>>

Loaded(l) ==
  /\ at[l] = "append" /\ to_append[l] = {}
  /\ Go(l, "bind")
  /\ UNCHANGED <<file, edits, listVars, sinceVars, reloadVars, optionVars, commandVars>>

\* The class's name is bound to the list of the global one; the session begins.
Bind(l) ==
  /\ at[l] = "bind"
  /\ class_list' = file_list
  /\ Go(l, "session")
  /\ UNCHANGED <<file, edits, lists, file_list, to_append, sinceVars, reloadVars,
                 optionVars, commandVars>>

EditFile(S) ==
  /\ edits < MaxEdits /\ S # file
  /\ file' = S /\ edits' = edits + 1
  /\ listed_since' = [l \in Links |-> listed_since[l] \cup S]
  /\ kept_since' = [l \in Links |-> kept_since[l] \cap S]
  /\ UNCHANGED <<listVars, at, reloadVars, optionVars, commandVars>>

-----------------------------------------------------------------------------
(***************************************************************************)
(* _initiator_identified and _start_cmd.                                   *)
(***************************************************************************)

\* The identities that a session would accept now.
Accepted == Listed \cup lists[class_list]

\* list.extend; the others would nest the words or put them first.
NestCommand(c)    == Append(default_command, c)
PrependCommand(c) == c \o default_command
ExtendCommand(c)  == default_command \o c

\* The command line is chosen; with -A default_command itself is extended.
StartCmd(l, c) ==
  /\ at[l] = "session"
  /\ asked' = [asked EXCEPT ![l] = c]
  /\ Go(l, IF c # <<>> /\ ~allow_remote_command THEN "refused" ELSE "start")
  /\ default_command' = IF c # <<>> /\ allow_remote_command /\ remote_cmd_as_args
                          THEN ExtendCommand(c) ELSE default_command
  /\ own_cmdline' = [own_cmdline EXCEPT ![l] = c # <<>> /\ ~remote_cmd_as_args]
  /\ UNCHANGED <<file, edits, listVars, sinceVars, reloadVars, optionVars, executed>>

\* The child is forked with what the list holds by then.
Spawn(l) ==
  /\ at[l] = "start"
  /\ executed' = [executed EXCEPT ![l] = IF own_cmdline[l] THEN asked[l]
                                                           ELSE default_command]
  /\ Go(l, "started")
  /\ UNCHANGED <<file, edits, listVars, sinceVars, reloadVars, optionVars,
                 default_command, asked, own_cmdline>>

-----------------------------------------------------------------------------
Reload(l) ==
  \/ LinkEstablished(l) \/ OpenFails(l) \/ Open(l) \/ Read(l) \/ ReadFails(l)
  \/ AppendIdentity(l) \/ Loaded(l) \/ Bind(l)

Next ==
  \/ \E l \in Links : Reload(l) \/ Spawn(l)
  \/ \E l \in Links, c \in CommandLines : StartCmd(l, c)
  \/ \E S \in SUBSET Identities : EditFile(S)

Spec == Init /\ [][Next]_vars

-----------------------------------------------------------------------------
(***************************************************************************)
(* Properties.                                                             *)
(***************************************************************************)
HasSession(l) == at[l] \in {"session", "start", "started", "refused"}

\* An identity taken off the allow file before a link is established, and before the
\* reloads that are under way then, is not accepted on it, whatever those and later
\* reloads do to the list (listener.py:102-108, 208-211).  A link whose own reload could
\* not open the file is an exception: the list loaded last stays for it.
OnlyListed ==
  \A l \in Links : HasSession(l) /\ opened[l] => Accepted \subseteq Listed \cup listed_since[l]

\* An identity that is in the file all the time is accepted whenever no reload is under
\* way, whatever the reloads did to each other's lists, and at any moment if they came
\* one by one: no session sees the list that a later link's reload is still filling.
\* The exceptions: a link whose own reload could not open the file; a reload that could
\* not read it locks out everybody until the next one opens it (listener.py:102-116).
AlwaysListed ==
  \A l \in Links :
    HasSession(l) /\ opened[l] /\ (undisturbed[l] \/ (Reloading = {} /\ ~unread)) =>
      kept_since[l] \subseteq Accepted

\* With -C the command line that runs is never the initiator's; without -A it is the
\* initiator's if there is one and else the listener's, whatever other sessions asked
\* for (README.md:199-207).  With -A, where all sessions extend one list and fork with
\* what it holds by then, it begins with the listener's words and has the initiator's
\* after them in one piece; those of other sessions may stand before and behind.
HasAfter(s, n, t) ==
  \E i \in n..(Len(s) - Len(t)) : \A j \in 1..Len(t) : s[i + j] = t[j]
CommandLine ==
  \A l \in Links : at[l] = "started" =>
    /\ ~allow_remote_command => asked[l] = <<>>
    /\ IF remote_cmd_as_args
         THEN IsPrefix(Command, executed[l]) /\ HasAfter(executed[l], Len(Command), asked[l])
         ELSE executed[l] = IF asked[l] = <<>> THEN Command ELSE asked[l]

-----------------------------------------------------------------------------
(***************************************************************************)
(* What the documents say and the code does not do.                        *)
(***************************************************************************)

\* "initiator-supplied command line is appended to listener-configured command line"
\* (README.md:201-202): with -A a session runs the listener's command line with its
\* own initiator's arguments.  Those of earlier sessions are still in the list.
OwnArguments ==
  \A l \in Links : at[l] = "started" /\ remote_cmd_as_args =>
    executed[l] = Command \o asked[l]
=============================================================================
