-------------------------- MODULE BenchSubscriberMC --------------------------
(***************************************************************************)
(* Model checking of BenchSubscriber.  A foreign message has a header with *)
(* a time of another run (1, as plausible as any, or 9, in the future),    *)
(* with bytes no Instant can hold, or is too short for one.  The other     *)
(* subscribers recorded 18                                                 *)
(* samples, so that the 95th percentile of 18, 19 and 20 of them differ.   *)
(***************************************************************************)
EXTENDS BenchSubscriber

TooFar == -2
Strangers == [len : {HEADER_LEN}, stamp : {1, 9, TooFar}] \cup [len : {HEADER_LEN - 1}, stamp : {1}]
Others == [i \in 1..18 |-> 19 - i]
NoOthers == <<>>
=============================================================================
