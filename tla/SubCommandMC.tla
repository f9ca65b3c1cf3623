---------------------------- MODULE SubCommandMC ----------------------------
(***************************************************************************)
(* Model checking of SubCommand: no -n, -n 0 and -n 1, without a ceiling   *)
(* and with one of 2; the cfg file gives the other constants.              *)
(***************************************************************************)
EXTENDS SubCommand

NotGiven == -1
SomeCounts == {NotGiven, 0, 1}
SomeCeilings == {0, 2}
=============================================================================
