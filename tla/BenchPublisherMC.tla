-------------------------- MODULE BenchPublisherMC --------------------------
(***************************************************************************)
(* Model checking of BenchPublisher.  The instances differ only in the     *)
(* constants their cfg files give.                                         *)
(***************************************************************************)
EXTENDS BenchPublisher

\* Option<u16> values for ReceiveMaximum.
None == {}
Some1 == {1}
Some2 == {2}
AnyCode == {TRUE, FALSE}
Success == {FALSE}
NoFaults == {}
AnyFault == {"eof", "broken"}
=============================================================================
