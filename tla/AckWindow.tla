----------------------------- MODULE AckWindow -----------------------------
(***************************************************************************)
(* What a publishing connection promises its broker and its report,        *)
(* without identifiers, permits or channels: messages go out in order, at  *)
(* most Window of them wait for an answer, and each is answered at most    *)
(* once, by an acknowledgement or by a refusal.                            *)
(***************************************************************************)
EXTENDS Integers, FiniteSets

CONSTANTS Window, Quota

VARIABLES
    last,      \* the number of the last message handed out
    unacked,   \* the messages that wait for an answer
    acked,     \* the messages that were acknowledged
    ended      \* whether the connection's owner has returned

vars == <<last, unacked, acked, ended>>

Init == last = 0 /\ unacked = {} /\ acked = {} /\ ended = FALSE

Publish ==
    /\ ~ended /\ last < Quota /\ Cardinality(unacked) < Window
    /\ last' = last + 1
    /\ unacked' = unacked \cup {last + 1}
    /\ UNCHANGED <<acked, ended>>

Acknowledge(m) ==
    /\ unacked' = unacked \ {m}
    /\ acked' = acked \cup {m}
    /\ UNCHANGED <<last, ended>>

Refuse(m) ==
    /\ unacked' = unacked \ {m}
    /\ UNCHANGED <<last, acked, ended>>

\* The owner returns; a message whose write failed is withdrawn.
End ==
    /\ ~ended /\ ended' = TRUE
    /\ unacked' \in {unacked, unacked \ {last}}
    /\ UNCHANGED <<last, acked>>

Next == Publish \/ End \/ \E m \in unacked : Acknowledge(m) \/ Refuse(m)

Spec == Init /\ [][Next]_vars
=============================================================================
