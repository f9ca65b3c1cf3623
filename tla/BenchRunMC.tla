----------------------------- MODULE BenchRunMC -----------------------------
(***************************************************************************)
(* Model checking of BenchRun; the cfg files give the constants.           *)
(***************************************************************************)
EXTENDS BenchRun
=============================================================================
