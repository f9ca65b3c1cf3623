---------------------------- MODULE PubCommandMC ----------------------------
(***************************************************************************)
(* Model checking of PubCommand; the cfg file gives the constants.         *)
(***************************************************************************)
EXTENDS PubCommand

AnyCode == {TRUE, FALSE}
=============================================================================
