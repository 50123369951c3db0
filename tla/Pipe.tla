-------------------------------- MODULE Pipe --------------------------------
(***************************************************************************)
(* A pipe through the network, as README.md promises it ("piping into/out  *)
(* of rnsh"): what comes out is what went in, in order and without gaps,   *)
(* and the end comes out only after everything before it.                  *)
(***************************************************************************)
EXTENDS Sequences, SequencesExt

VARIABLES
  input,     \* everything put in
  closed,    \* the writer has closed its end
  output,    \* everything taken out
  ended      \* the reader has been told of the end

pipeVars == <<input, closed, output, ended>>

Init == output = <<>> /\ ended = FALSE

\* More is put in, perhaps for the last time.
Write == /\ ~closed
         /\ IsPrefix(input, input')
         /\ UNCHANGED <<output, ended>>

Read == /\ ~ended
        /\ IsPrefix(output, output') /\ IsPrefix(output', input)
        /\ UNCHANGED <<input, closed, ended>>

End == /\ closed /\ output = input
       /\ ended' = TRUE
       /\ UNCHANGED <<input, closed, output>>

Next == Write \/ Read \/ End

Spec == Init /\ [][Next]_pipeVars
=============================================================================
