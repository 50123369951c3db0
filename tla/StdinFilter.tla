----------------------------- MODULE StdinFilter -----------------------------
(***************************************************************************)
(* The keys of the initiator's terminal: handle_escape() and stdin() of    *)
(* src/rnsh/initiator.py, which find escape sequences in what is typed     *)
(* and, in line-interactive mode, hold a line back until it is complete.   *)
(*                                                                         *)
(* stdin() runs to its end on the asyncio loop; a run handles what could   *)
(* be read, key by key.  An action below is one turn of its loop over the  *)
(* keys, and EndRead what follows the loop.  The main loop, which takes    *)
(* data_buffer away, is the subject of Initiator: here it only grows.      *)
(***************************************************************************)
EXTENDS Naturals, Integers, Sequences, SequencesExt, FiniteSets

CONSTANTS
  MaxKeys,   \* bound: keys typed
  MaxRead    \* bound: keys of one read

ASSUME BoundAssumption == MaxKeys \in Nat /\ MaxRead \in Nat \ {0}

\* One key stands for each branch: newline, a member of flush_chars, backspace, the
\* escape character, the sequences that do something, and a plain character.
Keys == {"cr", "flush", "bs", "~", ".", "L", "x"}

VARIABLES
  use_tty,
  typed,              \* all keys so far
  batch,              \* those of the current run of stdin()
  data,               \* what the run keeps of them
  pre_esc, esc, line_mode, line_flush,
  line_buffer,        \* the line held back
  blind_write_count,  \* characters echoed by the initiator itself
  data_buffer,        \* what goes to the session
  stdin_eof,
  torn,               \* whether the sequence "~." tore the link down
  orderly             \* no read so far mixed keys that only work one at a time

keyVars  == <<typed, batch, orderly>>
escVars  == <<pre_esc, esc>>
lineVars == <<line_buffer, blind_write_count>>
endVars  == <<data_buffer, stdin_eof>>

vars == <<use_tty, keyVars, data, escVars, line_mode, line_flush, lineVars,
          endVars, torn>>

TypeOK ==
  /\ use_tty \in BOOLEAN
  /\ typed \in Seq(Keys)
  /\ batch \in Seq(Keys)
  /\ data \in Seq(Keys)
  /\ pre_esc \in BOOLEAN
  /\ esc \in BOOLEAN
  /\ line_mode \in BOOLEAN
  /\ line_flush \in BOOLEAN
  /\ line_buffer \in Seq(Keys)
  /\ blind_write_count \in Nat
  /\ data_buffer \in Seq(Keys \cup {"ctrl_d"})
  /\ stdin_eof \in BOOLEAN
  /\ torn \in BOOLEAN
  /\ orderly \in BOOLEAN

Init ==
  /\ use_tty \in BOOLEAN
  /\ typed = <<>> /\ batch = <<>> /\ orderly = TRUE
  /\ data = <<>>
  /\ pre_esc = TRUE /\ esc = FALSE
  /\ line_mode = FALSE /\ line_flush = FALSE
  /\ line_buffer = <<>> /\ blind_write_count = 0
  /\ data_buffer = <<>> /\ stdin_eof = FALSE
  /\ torn = FALSE

-----------------------------------------------------------------------------
(***************************************************************************)
(* One key.                                                                *)
(***************************************************************************)

\* Keys of one read act at different times: those kept wait for the end of the
\* read, a backspace and a change of mode do not.
Follows(c) ==
  /\ ~(esc /\ c = "L") /\ Last(batch) # "L"
  /\ line_mode => c # "bs" /\ Last(batch) \notin {"cr", "flush"}

Type(c) ==
  /\ ~stdin_eof /\ Len(typed) < MaxKeys /\ Len(batch) < MaxRead
  /\ typed' = Append(typed, c)
  /\ batch' = Append(batch, c)
  /\ orderly' = (orderly /\ (batch = <<>> \/ Follows(c)))

\* Without a terminal the keys are not looked at.
RawKey(c) ==
  /\ ~use_tty
  /\ Type(c)
  /\ data' = Append(data, c)
  /\ UNCHANGED <<use_tty, escVars, line_mode, line_flush, lineVars, endVars, torn>>

Newline ==
  /\ use_tty
  /\ Type("cr")
  /\ pre_esc' = TRUE /\ line_flush' = TRUE
  /\ data' = Append(data, "cr")
  /\ UNCHANGED <<use_tty, esc, line_mode, lineVars, endVars, torn>>

FlushKey ==
  /\ use_tty /\ line_mode
  /\ Type("flush")
  /\ pre_esc' = FALSE /\ line_flush' = TRUE
  /\ data' = Append(data, "flush")
  /\ UNCHANGED <<use_tty, esc, line_mode, lineVars, endVars, torn>>

\* Backspace takes a character of the line back, and from the screen; the others
\* would not look for an empty line or leave the character on the screen.
EraseBlindly  == line_buffer' = Front(line_buffer) /\ blind_write_count' = blind_write_count - 1
EraseUnseen   == /\ line_buffer' = IF line_buffer = <<>> THEN <<>> ELSE Front(line_buffer)
                 /\ UNCHANGED blind_write_count
EraseLast     == IF line_buffer = <<>> THEN UNCHANGED lineVars ELSE EraseBlindly

Backspace ==
  /\ use_tty /\ line_mode
  /\ Type("bs")
  /\ pre_esc' = FALSE
  /\ EraseLast
  /\ UNCHANGED <<use_tty, data, esc, line_mode, line_flush, endVars, torn>>

EditingKey(c) == c = "cr" \/ (line_mode /\ c \in {"flush", "bs"})
BeginsEscape(c) == pre_esc /\ c = "~"

EscapeKey ==
  /\ use_tty /\ BeginsEscape("~")
  /\ Type("~")
  /\ pre_esc' = FALSE /\ esc' = TRUE
  /\ UNCHANGED <<use_tty, data, line_mode, line_flush, lineVars, endVars, torn>>

\* What is kept of the character after the escape character; the first forgets that
\* a sequence that means nothing is sent as it was typed.
DropEscape(c) == IF c \in {".", "L"} THEN <<>> ELSE <<c>>
Unescape(c)   == IF c \in {".", "L"} THEN <<>> ELSE IF c = "~" THEN <<"~">> ELSE <<"~", c>>

Escaped(c) ==
  /\ use_tty /\ ~EditingKey(c) /\ ~BeginsEscape(c) /\ esc
  /\ Type(c)
  /\ data' = data \o Unescape(c)
  /\ line_mode' = IF c = "L" THEN ~line_mode ELSE line_mode
  /\ torn' = (torn \/ c = ".")
  /\ esc' = FALSE
  /\ UNCHANGED <<use_tty, pre_esc, line_flush, lineVars, endVars>>

OtherKey(c) ==
  /\ use_tty /\ ~EditingKey(c) /\ ~BeginsEscape(c) /\ ~esc
  /\ Type(c)
  /\ pre_esc' = FALSE
  /\ data' = Append(data, c)
  /\ UNCHANGED <<use_tty, esc, line_mode, line_flush, lineVars, endVars, torn>>

-----------------------------------------------------------------------------
(***************************************************************************)
(* The end of a read, and of the input.                                    *)
(***************************************************************************)
PassOn == data_buffer' = data_buffer \o data /\ UNCHANGED <<line_flush, lineVars>>

SendLine ==
  /\ data_buffer' = data_buffer \o line_buffer \o data
  /\ line_buffer' = <<>> /\ blind_write_count' = 0
  /\ line_flush' = FALSE

Echo ==
  /\ line_buffer' = line_buffer \o data
  /\ blind_write_count' = blind_write_count + Len(data)
  /\ UNCHANGED <<data_buffer, line_flush>>

EndRead ==
  /\ batch # <<>>
  /\ batch' = <<>> /\ data' = <<>>
  /\ IF ~use_tty \/ ~line_mode THEN PassOn ELSE IF line_flush THEN SendLine ELSE Echo
  /\ UNCHANGED <<use_tty, typed, orderly, escVars, line_mode, stdin_eof, torn>>

\* The end of a terminal is passed on as a key; a line held back stays.  The input is a
\* terminal here, which counts as a pipe with --no-tty.
is_stdin_pipe == ~use_tty

EndOfInput ==
  /\ batch = <<>> /\ ~stdin_eof
  /\ data_buffer' = IF is_stdin_pipe THEN data_buffer ELSE Append(data_buffer, "ctrl_d")
  /\ stdin_eof' = TRUE
  /\ UNCHANGED <<use_tty, keyVars, data, escVars, line_mode, line_flush, lineVars, torn>>

-----------------------------------------------------------------------------
Next ==
  \/ Newline \/ FlushKey \/ Backspace \/ EscapeKey \/ EndRead \/ EndOfInput
  \/ \E c \in Keys : RawKey(c) \/ Escaped(c) \/ OtherKey(c)

Spec == Init /\ [][Next]_vars

-----------------------------------------------------------------------------
(***************************************************************************)
(* What a terminal's keys mean, from their places alone.                   *)
(***************************************************************************)

\* The escape character counts first of all or after a newline.
Escapes(t) == {i \in 1..Len(t) : t[i] = "~" /\ (i = 1 \/ t[i - 1] = "cr")}
Sequence(t, i) == i - 1 \in Escapes(t)     \* t[i] completes a sequence

Toggles(t, n) == {i \in 1..n : Sequence(t, i) /\ t[i] = "L"}
InLineMode(t, i) == Cardinality(Toggles(t, i - 1)) % 2 = 1

Meaning(t, i) ==
  IF i \in Escapes(t) \/ (Sequence(t, i) /\ t[i] \in {".", "L"}) THEN <<>>
  ELSE IF Sequence(t, i) /\ t[i] # "~" THEN <<"~", t[i]>>
  ELSE <<t[i]>>

\* What the session gets and the line still held back, as a pair.
Add(t, result, i) ==
  LET sent == result[1]   line == result[2]   key == Meaning(t, i)
  IN  IF ~InLineMode(t, i)                THEN <<sent \o key, line>>
      ELSE IF t[i] = "bs"                 THEN <<sent, SubSeq(line, 1, Len(line) - 1)>>
      ELSE IF t[i] \in {"cr", "flush"}    THEN <<sent \o line \o key, <<>>>>
      ELSE                                     <<sent, line \o key>>

Meant(t) ==
  LET upto[i \in 0..Len(t)] ==
        IF i = 0 THEN <<<<>>, <<>>>> ELSE Add(t, upto[i - 1], i)
  IN  upto[Len(t)]

\* No escape character is followed by a key that leaves the sequence open.
Completed(t) ==
  \A i \in Escapes(t) : i < Len(t) =>
    t[i + 1] # "cr" /\ ~(InLineMode(t, i + 1) /\ t[i + 1] \in {"flush", "bs"})

-----------------------------------------------------------------------------
(***************************************************************************)
(* Properties.                                                             *)
(***************************************************************************)

\* Whatever mixture of text, newlines, escape sequences and edited lines is typed,
\* and however it is split into reads, the session gets it in order, without loss and
\* without what a sequence or a backspace took out, and the link is torn down for
\* "~." alone (initiator.py:291-312, 326-368).  Two exceptions: an escape character
\* before a key that edits, and a read of several keys with a backspace, a newline
\* inside or a change of mode in it.
KeysKept ==
  use_tty /\ batch = <<>> /\ ~stdin_eof /\ orderly /\ Completed(typed) =>
    /\ <<data_buffer, line_buffer>> = Meant(typed)
    /\ torn = \E i \in 2..Len(typed) : Sequence(typed, i) /\ typed[i] = "."

\* The initiator takes exactly those characters off the screen that it wrote there
\* for the line it holds back (initiator.py:341, 363-368), in every mode and however
\* keys come together.
ScreenMatches == blind_write_count = Len(line_buffer)
=============================================================================
