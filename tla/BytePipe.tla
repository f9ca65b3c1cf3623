------------------------------ MODULE BytePipe ------------------------------
(***************************************************************************)
(* What a byte stream promises in one direction: what comes out is what    *)
(* went in, in order, nothing lost, invented or repeated.                  *)
(***************************************************************************)
EXTENDS Sequences, SequencesExt

VARIABLES in, out   \* the bytes put in so far, the bytes taken out so far

Init == in = <<>> /\ out = <<>>
Put  == IsPrefix(in, in') /\ UNCHANGED out
Take == IsPrefix(out, out') /\ IsPrefix(out', in) /\ UNCHANGED in

Spec == Init /\ [][Put \/ Take]_<<in, out>>
=============================================================================
