--------------------------- MODULE ClientStreamMC ---------------------------
(***************************************************************************)
(* Model checking of ClientStream; the cfg files give the constants.       *)
(***************************************************************************)
EXTENDS ClientStream
=============================================================================
