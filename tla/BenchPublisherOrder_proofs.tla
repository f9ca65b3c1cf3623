-------------------- MODULE BenchPublisherOrder_proofs ---------------------
(***************************************************************************)
(* Machine-checked proofs about BenchPublisher when the broker answers     *)
(* each packet once: identifiers do not collide, nothing is counted that   *)
(* the broker did not accept, the books balance, and the publisher         *)
(* implements the abstract window of AckWindow.                            *)
(***************************************************************************)
EXTENDS BenchPublisher_proofs

-----------------------------------------------------------------------------
(***************************************************************************)
(* The order of the exchanges, in numbers of messages.                     *)
(*                                                                         *)
(* q[lo..hi] is the pipeline: the messages that the packets between broker *)
(* and client are about, first what the broker has answered and the ack    *)
(* task not read, then what was written and the broker has not read        *)
(* (NoMsg for a DISCONNECT).  H is the messages whose PUBREC was handed to *)
(* the writer, U the messages in flight, D those in the first half of      *)
(* their exchange (PUBLISH to PUBACK or PUBREC), top the newest message,   *)
(* and slack how far an exchange may fall behind: not at all at QoS 1, by  *)
(* a window at QoS 2.                                                      *)
(***************************************************************************)

\* Every packet is about a message in flight, and no message has two under way.
Live(lo, hi, q, H, U) ==
    /\ H \subseteq U
    /\ \A i \in lo..hi : q[i] \in Nat /\ (q[i] # NoMsg => q[i] \in U /\ q[i] \notin H)
    /\ \A i, j \in lo..hi : i < j /\ q[i] # NoMsg => q[i] # q[j]

\* A first half is about a newer message than all that is ahead of it, and nothing as new
\* has been answered for good.
FirstHalves(lo, hi, q, U, D, top) ==
    /\ \A i, j \in lo..hi : i < j /\ q[j] \in D => q[i] < q[j]
    /\ \A j \in lo..hi : q[j] \in D => \A n \in q[j]..top : n \in U

\* A packet is ahead of older messages by at most slack.
OldestNext(lo, hi, q, U, slack) ==
    \A j \in lo..hi, u \in U : (\A i \in lo..(j - 1) : q[i] # u) => q[j] <= u + slack

\* The writer takes what is handed over before it has published slack messages more, and
\* no answered message is more than slack newer than one in flight.
Recent(H, U, top, slack) ==
    /\ \A h \in H : top <= h + slack
    /\ \A u \in U : \A n \in (u + slack + 1)..top : n \in U

Pipeline(lo, hi, q, H, U, D, top, slack) ==
    /\ U \subseteq 1..top
    /\ Live(lo, hi, q, H, U) /\ FirstHalves(lo, hi, q, U, D, top)
    /\ OldestNext(lo, hi, q, U, slack) /\ Recent(H, U, top, slack)

\* complete_ack of the message at the head of the pipeline.
LEMMA PipeAnswered ==
  ASSUME NEW top \in Nat, NEW slack \in Nat, NEW lo \in Int, NEW hi \in Int, NEW q, NEW H, NEW U, NEW D,
         Pipeline(lo, hi, q, H, U, D, top, slack), lo <= hi, q[lo] # NoMsg
  PROVE  Pipeline(lo + 1, hi, q, H, U \ {q[lo]}, D, top, slack)
<1> DEFINE a == q[lo]
<1>0. /\ lo \in lo..hi /\ a \in Nat /\ a # NoMsg
      /\ \A i \in (lo + 1)..hi : i \in lo..hi /\ lo < i
  BY DEF Pipeline, Live
<1>1. U \ {a} \subseteq 1..top
  BY DEF Pipeline
<1>2. Live(lo + 1, hi, q, H, U \ {a})
  <2>1. \A i \in (lo + 1)..hi : q[i] # a
    BY <1>0 DEF Pipeline, Live
  <2>2. a \notin H
    BY <1>0 DEF Pipeline, Live
  <2> HIDE DEF a
  <2> QED
    BY <1>0, <2>1, <2>2 DEF Pipeline, Live
<1>3. FirstHalves(lo + 1, hi, q, U \ {a}, D, top)
  <2>1. \A i, j \in (lo + 1)..hi : i < j /\ q[j] \in D => q[i] < q[j]
    BY <1>0 DEF Pipeline, FirstHalves
  <2>2. ASSUME NEW j \in (lo + 1)..hi, q[j] \in D, NEW n \in q[j]..top PROVE n \in U \ {a}
    <3>1. n \in U
      BY <1>0, <2>2 DEF Pipeline, FirstHalves
    <3>2. a < q[j] /\ q[j] \in Nat
      BY <1>0, <2>2 DEF Pipeline, FirstHalves, Live
    <3> QED
      BY <1>0, <3>1, <3>2
  <2> QED
    BY <2>1, <2>2 DEF FirstHalves
<1>4. OldestNext(lo + 1, hi, q, U \ {a}, slack)
  <2> SUFFICES ASSUME NEW j \in (lo + 1)..hi, NEW u \in U \ {a}, \A i \in (lo + 1)..(j - 1) : q[i] # u
               PROVE  q[j] <= u + slack
    BY DEF OldestNext
  <2>1. \A i \in lo..(j - 1) : i = lo \/ i \in (lo + 1)..(j - 1)
    OBVIOUS
  <2>2. \A i \in lo..(j - 1) : q[i] # u
    BY <2>1
  <2> QED
    BY <1>0, <2>2 DEF Pipeline, OldestNext
<1>5. Recent(H, U \ {a}, top, slack)
  <2>1. ASSUME NEW u \in U \ {a}, NEW n \in (u + slack + 1)..top PROVE n \in U \ {a}
    <3>1. n \in U
      BY DEF Pipeline, Recent
    <3>2. \A i \in lo..(lo - 1) : q[i] # u
      OBVIOUS
    <3>3. a <= u + slack
      BY <1>0, <3>2 DEF Pipeline, OldestNext
    <3>4. u \in Nat
      BY DEF Pipeline
    <3> QED
      BY <1>0, <3>1, <3>3, <3>4
  <2> QED
    BY <2>1 DEF Pipeline, Recent
<1> QED
  BY <1>1, <1>2, <1>3, <1>4, <1>5 DEF Pipeline

\* The first half of the exchange at the head ends: its message is handed over, or stays
\* behind when there is no writer any more.
LEMMA PipeHandedOver ==
  ASSUME NEW top \in Nat, NEW slack \in Nat, NEW lo \in Int, NEW hi \in Int, NEW q, NEW H, NEW U, NEW D,
         Pipeline(lo, hi, q, H, U, D, top, slack), lo <= hi, q[lo] # NoMsg, top <= q[lo] + slack,
         NEW G, G \in {H, H \cup {q[lo]}}
  PROVE  Pipeline(lo + 1, hi, q, G, U, D, top, slack)
<1> DEFINE a == q[lo]
<1>0. /\ lo \in lo..hi /\ a \in Nat /\ a # NoMsg /\ a \in U
      /\ \A i \in (lo + 1)..hi : i \in lo..hi /\ lo < i
  BY DEF Pipeline, Live
<1>2. Live(lo + 1, hi, q, G, U)
  <2>1. \A i \in (lo + 1)..hi : q[i] # a
    BY <1>0 DEF Pipeline, Live
  <2>2. G = H \/ G = H \cup {a}
    OBVIOUS
  <2> HIDE DEF a
  <2> QED
    BY <1>0, <2>1, <2>2 DEF Pipeline, Live
<1>3. FirstHalves(lo + 1, hi, q, U, D, top)
  BY <1>0 DEF Pipeline, FirstHalves
<1>4. OldestNext(lo + 1, hi, q, U, slack)
  <2> SUFFICES ASSUME NEW j \in (lo + 1)..hi, NEW u \in U, \A i \in (lo + 1)..(j - 1) : q[i] # u
               PROVE  q[j] <= u + slack
    BY DEF OldestNext
  <2>1. CASE u = a
    <3>1. q[j] \in Nat /\ q[j] <= top
      BY <1>0 DEF Pipeline, Live, NoMsg
    <3> HIDE DEF a
    <3>2. top <= a + slack
      BY DEF a
    <3> QED
      BY <1>0, <2>1, <3>1, <3>2
  <2>2. CASE u # a
    <3>1. \A i \in lo..(j - 1) : i = lo \/ i \in (lo + 1)..(j - 1)
      OBVIOUS
    <3>2. \A i \in lo..(j - 1) : q[i] # u
      BY <2>2, <3>1
    <3> QED
      BY <1>0, <3>2 DEF Pipeline, OldestNext
  <2> QED
    BY <2>1, <2>2
<1>5. Recent(G, U, top, slack)
  BY DEF Pipeline, Recent
<1> QED
  BY <1>2, <1>3, <1>4, <1>5 DEF Pipeline

\* The PUBLISH of the newest message goes to the end of the pipeline.
LEMMA PipePublished ==
  ASSUME NEW top \in Nat, NEW slack \in Nat, NEW lo \in Int, NEW hi \in Int, NEW q, NEW H, NEW U, NEW D,
         Pipeline(lo, hi, q, H, U, D, top, slack), lo <= hi + 1,
         top \in U, top \notin H, \A i \in lo..hi : q[i] # top,
         \A u \in U : (\E i \in lo..hi : q[i] = u) \/ u \in H \/ u = top,
         NEW r, r[hi + 1] = top, \A i \in lo..hi : r[i] = q[i],
         NEW E, E \subseteq D \cup {top}
  PROVE  Pipeline(lo, hi + 1, r, H, U, E, top, slack)
<1>0. /\ \A i \in lo..(hi + 1) : i \in lo..hi \/ i = hi + 1
      /\ \A i \in lo..hi : i < hi + 1 /\ ~(hi + 1 < i)
      /\ hi + 1 \notin lo..hi /\ ~(hi + 1 < hi + 1)
  OBVIOUS
<1>1. \A i \in lo..hi : q[i] \in Nat /\ q[i] < top
  <2>1. \A i \in lo..hi : q[i] \in Nat /\ (q[i] = NoMsg \/ q[i] \in 1..top)
    BY DEF Pipeline, Live
  <2>2. top \in 1..top
    BY DEF Pipeline
  <2> QED
    BY <2>1, <2>2 DEF NoMsg
<1>2. Live(lo, hi + 1, r, H, U)
  <2>1. \A i \in lo..(hi + 1) : r[i] \in Nat /\ (r[i] # NoMsg => r[i] \in U /\ r[i] \notin H)
    BY <1>0 DEF Pipeline, Live
  <2>2. ASSUME NEW i \in lo..(hi + 1), NEW j \in lo..(hi + 1), i < j, r[i] # NoMsg PROVE r[i] # r[j]
    <3>1. i \in lo..hi
      BY <1>0, <2>2
    <3>2. CASE j \in lo..hi
      BY <2>2, <3>1, <3>2 DEF Pipeline, Live
    <3>3. CASE j = hi + 1
      BY <2>2, <3>1, <3>3
    <3> QED
      BY <1>0, <3>2, <3>3
  <2> QED
    BY <2>1, <2>2 DEF Pipeline, Live
<1>3. FirstHalves(lo, hi + 1, r, U, E, top)
  <2>1. ASSUME NEW i \in lo..(hi + 1), NEW j \in lo..(hi + 1), i < j, r[j] \in E PROVE r[i] < r[j]
    <3>1. i \in lo..hi
      BY <1>0, <2>1
    <3>2. CASE j \in lo..hi
      <4>1. q[j] \in D
        BY <2>1, <3>2
      <4> QED
        BY <2>1, <3>1, <3>2, <4>1 DEF Pipeline, FirstHalves
    <3>3. CASE j = hi + 1
      BY <1>1, <3>1, <3>3
    <3> QED
      BY <1>0, <3>2, <3>3
  <2>2. ASSUME NEW j \in lo..(hi + 1), r[j] \in E, NEW n \in r[j]..top PROVE n \in U
    <3>2. CASE j \in lo..hi
      <4>1. q[j] \in D
        BY <2>2, <3>2
      <4> QED
        BY <2>2, <3>2, <4>1 DEF Pipeline, FirstHalves
    <3>3. CASE j = hi + 1
      BY <3>3
    <3> QED
      BY <1>0, <3>2, <3>3
  <2> QED
    BY <2>1, <2>2 DEF FirstHalves
<1>4. OldestNext(lo, hi + 1, r, U, slack)
  <2> SUFFICES ASSUME NEW j \in lo..(hi + 1), NEW u \in U, \A i \in lo..(j - 1) : r[i] # u
               PROVE  r[j] <= u + slack
    BY DEF OldestNext
  <2>1. CASE j \in lo..hi
    <3>1. \A i \in lo..(j - 1) : i \in lo..hi
      BY <2>1
    <3>2. \A i \in lo..(j - 1) : q[i] # u
      BY <3>1
    <3> QED
      BY <2>1, <3>2 DEF Pipeline, OldestNext
  <2>2. CASE j = hi + 1
    <3>1. \A i \in lo..hi : q[i] # u
      BY <2>2
    <3>2. u \in H \/ u = top
      BY <3>1
    <3>3. top <= u + slack
      BY <3>2 DEF Pipeline, Recent
    <3> QED
      BY <2>2, <3>3
  <2> QED
    BY <1>0, <2>1, <2>2
<1> QED
  BY <1>2, <1>3, <1>4 DEF Pipeline

\* What comes after hi in r was handed over and is so no more, or is a DISCONNECT.
Released(hi, end, r, H, G, D) ==
    /\ \A i \in (hi + 1)..end : r[i] = NoMsg \/ (r[i] \in H /\ r[i] \notin G /\ r[i] \notin D)
    /\ \A i, j \in (hi + 1)..end : i < j /\ r[i] # NoMsg => r[i] # r[j]

\* Every message in flight is in the pipeline, was handed over or is in X.
Covers(lo, hi, q, H, U, X) == \A u \in U : (\E i \in lo..hi : q[i] = u) \/ u \in H \/ u \in X

\* PUBRELs of messages that were handed over go to the end of the pipeline, and perhaps a
\* DISCONNECT.
LEMMA PipeReleased ==
  ASSUME NEW top \in Nat, NEW slack \in Nat, NEW lo \in Int, NEW hi \in Int, NEW q, NEW H, NEW U, NEW D,
         Pipeline(lo, hi, q, H, U, D, top, slack), lo <= hi + 1,
         Covers(lo, hi, q, H, U, {}),
         NEW end \in Int, hi <= end, NEW r, \A i \in lo..hi : r[i] = q[i],
         NEW G, G \subseteq H, NoMsg \notin D, Released(hi, end, r, H, G, D)
  PROVE  Pipeline(lo, end, r, G, U, D, top, slack)
<1> USE DEF Covers, Released
<1>0. /\ \A i \in lo..end : i \in lo..hi \/ i \in (hi + 1)..end
      /\ \A i \in lo..hi, j \in (hi + 1)..end : i < j /\ ~(j < i)
      /\ \A i \in lo..hi : i \in lo..end
  OBVIOUS
<1>1. /\ \A h \in H : h \in U /\ h \in Nat /\ h # NoMsg /\ h <= top
      /\ \A i \in lo..hi : q[i] \notin H \/ q[i] = NoMsg
  BY DEF Pipeline, Live, NoMsg
<1>2. Live(lo, end, r, G, U)
  <2>1. ASSUME NEW i \in lo..end PROVE r[i] \in Nat /\ (r[i] # NoMsg => r[i] \in U /\ r[i] \notin G)
    <3>1. CASE i \in lo..hi
      BY <3>1 DEF Pipeline, Live
    <3>2. CASE i \in (hi + 1)..end
      BY <1>1, <3>2 DEF NoMsg
    <3> QED
      BY <1>0, <3>1, <3>2
  <2>2. ASSUME NEW i \in lo..end, NEW j \in lo..end, i < j, r[i] # NoMsg PROVE r[i] # r[j]
    <3>1. CASE i \in lo..hi /\ j \in lo..hi
      BY <2>2, <3>1 DEF Pipeline, Live
    <3>2. CASE i \in lo..hi /\ j \in (hi + 1)..end
      <4>1. r[i] = q[i] /\ (r[j] \in H \/ r[j] = NoMsg)
        BY <3>2
      <4>2. q[i] \notin H
        BY <1>1, <2>2, <3>2, <4>1
      <4> QED
        BY <2>2, <4>1, <4>2
    <3>3. CASE i \in (hi + 1)..end /\ j \in (hi + 1)..end
      BY <2>2, <3>3
    <3> QED
      BY <1>0, <2>2, <3>1, <3>2, <3>3
  <2>3. G \subseteq U
    BY <1>1
  <2> QED
    BY <2>1, <2>2, <2>3 DEF Live
<1>3. FirstHalves(lo, end, r, U, D, top)
  <2>1. \A j \in lo..end : r[j] \in D => j \in lo..hi /\ r[j] = q[j]
    BY <1>0
  <2>2. \A i, j \in lo..end : i < j /\ j \in lo..hi => i \in lo..hi /\ r[i] = q[i]
    BY <1>0
  <2>3. \A i, j \in lo..end : i < j /\ r[j] \in D => r[i] < r[j]
    BY <2>1, <2>2 DEF Pipeline, FirstHalves
  <2>4. \A j \in lo..end : r[j] \in D => \A n \in r[j]..top : n \in U
    BY <2>1 DEF Pipeline, FirstHalves
  <2> QED
    BY <2>3, <2>4 DEF FirstHalves
<1>4. OldestNext(lo, end, r, U, slack)
  <2> SUFFICES ASSUME NEW j \in lo..end, NEW u \in U, \A i \in lo..(j - 1) : r[i] # u
               PROVE  r[j] <= u + slack
    BY DEF OldestNext
  <2>1. CASE j \in lo..hi
    <3>1. \A i \in lo..(j - 1) : i \in lo..hi
      BY <2>1
    <3>2. \A i \in lo..(j - 1) : q[i] # u
      BY <3>1
    <3> QED
      BY <2>1, <3>2 DEF Pipeline, OldestNext
  <2>2. CASE j \in (hi + 1)..end
    <3>1. \A i \in lo..hi : i \in lo..(j - 1)
      BY <2>2
    <3>2. u \in H
      BY <3>1
    <3>3. top <= u + slack /\ u \in Nat
      BY <1>1, <3>2 DEF Pipeline, Recent
    <3>4. r[j] <= top /\ r[j] \in Nat
      BY <1>1, <2>2 DEF NoMsg
    <3> QED
      BY <3>3, <3>4
  <2> QED
    BY <1>0, <2>1, <2>2
<1>5. Recent(G, U, top, slack)
  BY DEF Pipeline, Recent
<1> QED
  BY <1>2, <1>3, <1>4, <1>5 DEF Pipeline

\* A new message enters in_flight.
LEMMA PipeInserted ==
  ASSUME NEW top \in Nat, NEW slack \in Nat, NEW lo \in Int, NEW hi \in Int, NEW q, NEW H, NEW U, NEW D,
         Pipeline(lo, hi, q, H, U, D, top, slack), \A h \in H : top < h + slack
  PROVE  Pipeline(lo, hi, q, H, U \cup {top + 1}, D, top + 1, slack)
<1>0. \A i \in lo..hi : q[i] \in Nat /\ q[i] <= top
  BY DEF Pipeline, Live, NoMsg
<1>1. U \cup {top + 1} \subseteq 1..(top + 1)
  BY DEF Pipeline
<1>2. Live(lo, hi, q, H, U \cup {top + 1})
  BY DEF Pipeline, Live
<1>3. FirstHalves(lo, hi, q, U \cup {top + 1}, D, top + 1)
  <2>1. ASSUME NEW j \in lo..hi, q[j] \in D, NEW n \in q[j]..(top + 1) PROVE n \in U \cup {top + 1}
    <3>1. n \in q[j]..top \/ n = top + 1
      BY <1>0
    <3> QED
      BY <2>1, <3>1 DEF Pipeline, FirstHalves
  <2> QED
    BY <2>1 DEF Pipeline, FirstHalves
<1>4. OldestNext(lo, hi, q, U \cup {top + 1}, slack)
  <2> SUFFICES ASSUME NEW j \in lo..hi, NEW u \in U \cup {top + 1}, \A i \in lo..(j - 1) : q[i] # u
               PROVE  q[j] <= u + slack
    BY DEF OldestNext
  <2>1. CASE u \in U
    BY <2>1 DEF Pipeline, OldestNext
  <2>2. CASE u = top + 1
    BY <1>0, <2>2
  <2> QED
    BY <2>1, <2>2
<1>5. Recent(H, U \cup {top + 1}, top + 1, slack)
  <2>1. \A h \in H : h \in Nat
    BY DEF Pipeline, Live
  <2>2. \A h \in H : top + 1 <= h + slack
    BY <2>1
  <2>3. ASSUME NEW u \in U \cup {top + 1}, NEW n \in (u + slack + 1)..(top + 1) PROVE n \in U \cup {top + 1}
    <3>1. u \in Nat
      BY DEF Pipeline
    <3>2. CASE u \in U
      <4>1. n \in (u + slack + 1)..top \/ n = top + 1
        BY <3>1
      <4> QED
        BY <3>2, <4>1 DEF Pipeline, Recent
    <3>3. CASE u = top + 1
      BY <3>1, <3>3
    <3> QED
      BY <3>2, <3>3
  <2> QED
    BY <2>2, <2>3 DEF Recent
<1> QED
  BY <1>1, <1>2, <1>3, <1>4, <1>5 DEF Pipeline

\* The message whose write failed leaves in_flight, and the channel goes.
LEMMA PipeWithdrawn ==
  ASSUME NEW top \in Nat, NEW slack \in Nat, NEW lo \in Int, NEW hi \in Int, NEW q, NEW H, NEW U, NEW D,
         Pipeline(lo, hi, q, H, U, D, top + 1, slack), \A i \in lo..hi : q[i] # top + 1
  PROVE  Pipeline(lo, hi, q, {}, U \ {top + 1}, D, top, slack)
<1>1. U \ {top + 1} \subseteq 1..top
  BY DEF Pipeline
<1>2. Live(lo, hi, q, {}, U \ {top + 1})
  BY DEF Pipeline, Live
<1>3. FirstHalves(lo, hi, q, U \ {top + 1}, D, top)
  <2>1. ASSUME NEW j \in lo..hi, q[j] \in D, NEW n \in q[j]..top PROVE n \in U \ {top + 1}
    <3>1. q[j] \in Nat
      BY DEF Pipeline, Live
    <3>2. n \in q[j]..(top + 1) /\ n # top + 1
      BY <3>1
    <3> QED
      BY <2>1, <3>2 DEF Pipeline, FirstHalves
  <2> QED
    BY <2>1 DEF Pipeline, FirstHalves
<1>4. OldestNext(lo, hi, q, U \ {top + 1}, slack)
  BY DEF Pipeline, OldestNext
<1>5. Recent({}, U \ {top + 1}, top, slack)
  <2>1. ASSUME NEW u \in U \ {top + 1}, NEW n \in (u + slack + 1)..top PROVE n \in U \ {top + 1}
    <3>1. u \in Nat
      BY DEF Pipeline
    <3>2. n \in (u + slack + 1)..(top + 1) /\ n # top + 1
      BY <3>1
    <3> QED
      BY <3>2 DEF Pipeline, Recent
  <2> QED
    BY <2>1 DEF Recent
<1> QED
  BY <1>1, <1>2, <1>3, <1>4, <1>5 DEF Pipeline

\* The places first..end hold in r the same messages, in the same order, as lo..hi in q;
\* e says where each was.
SameOrder(lo, hi, q, first, end, r, e) ==
    /\ \A i \in first..end : r[i] = NoMsg \/ (e[i] \in lo..hi /\ r[i] = q[e[i]])
    /\ \A i, j \in first..end : i < j /\ r[i] # NoMsg /\ r[j] # NoMsg => e[i] < e[j]
    /\ \A k \in lo..hi : q[k] # NoMsg => \E i \in first..end : e[i] = k /\ r[i] = q[k]

\* The same packets in other places, with a DISCONNECT more or less; fewer of them in the
\* channel and in the first half.
LEMMA PipeMoved ==
  ASSUME NEW top \in Nat, NEW slack \in Nat, NEW lo \in Int, NEW hi \in Int, NEW q, NEW H, NEW U, NEW D,
         Pipeline(lo, hi, q, H, U, D, top, slack),
         NEW first \in Int, NEW end \in Int, NEW r, NEW e,
         SameOrder(lo, hi, q, first, end, r, e), NEW G, G \subseteq H, NEW E, E \subseteq D, NoMsg \notin E
  PROVE  Pipeline(first, end, r, G, U, E, top, slack)
<1> USE DEF SameOrder
<1>1. \A k \in lo..hi : q[k] \in Nat
  BY DEF Pipeline, Live
<1>2. Live(first, end, r, G, U)
  <2>1. ASSUME NEW i \in first..end PROVE r[i] \in Nat /\ (r[i] # NoMsg => r[i] \in U /\ r[i] \notin G)
    <3>1. CASE r[i] = NoMsg
      BY <3>1 DEF NoMsg
    <3>2. CASE r[i] # NoMsg
      <4>1. e[i] \in lo..hi /\ r[i] = q[e[i]]
        BY <3>2
      <4> QED
        BY <3>2, <4>1 DEF Pipeline, Live
    <3> QED
      BY <3>1, <3>2
  <2>2. ASSUME NEW i \in first..end, NEW j \in first..end, i < j, r[i] # NoMsg PROVE r[i] # r[j]
    <3>1. CASE r[j] = NoMsg
      BY <2>2, <3>1
    <3>2. CASE r[j] # NoMsg
      <4>1. e[i] \in lo..hi /\ r[i] = q[e[i]] /\ e[j] \in lo..hi /\ r[j] = q[e[j]] /\ e[i] < e[j]
        BY <2>2, <3>2
      <4> QED
        BY <2>2, <4>1 DEF Pipeline, Live
    <3> QED
      BY <3>1, <3>2
  <2>3. G \subseteq U
    BY DEF Pipeline, Live
  <2> QED
    BY <2>1, <2>2, <2>3 DEF Live
<1>3. FirstHalves(first, end, r, U, E, top)
  <2>1. ASSUME NEW i \in first..end, NEW j \in first..end, i < j, r[j] \in E PROVE r[i] < r[j]
    <3>1. r[j] # NoMsg /\ e[j] \in lo..hi /\ r[j] = q[e[j]] /\ q[e[j]] \in D
      BY <2>1
    <3>2. CASE r[i] = NoMsg
      <4>1. r[j] \in Nat
        BY <1>1, <3>1
      <4> QED
        BY <3>1, <3>2, <4>1 DEF NoMsg
    <3>3. CASE r[i] # NoMsg
      <4>1. e[i] \in lo..hi /\ r[i] = q[e[i]] /\ e[i] < e[j]
        BY <2>1, <3>1, <3>3
      <4> QED
        BY <3>1, <4>1 DEF Pipeline, FirstHalves
    <3> QED
      BY <3>2, <3>3
  <2>2. ASSUME NEW j \in first..end, r[j] \in E, NEW n \in r[j]..top PROVE n \in U
    <3>1. r[j] # NoMsg /\ e[j] \in lo..hi /\ r[j] = q[e[j]] /\ q[e[j]] \in D
      BY <2>2
    <3> QED
      BY <2>2, <3>1 DEF Pipeline, FirstHalves
  <2> QED
    BY <2>1, <2>2 DEF FirstHalves
<1>4. OldestNext(first, end, r, U, slack)
  <2> SUFFICES ASSUME NEW j \in first..end, NEW u \in U, \A i \in first..(j - 1) : r[i] # u
               PROVE  r[j] <= u + slack
    BY DEF OldestNext
  <2>0. u \in Nat /\ u # NoMsg
    BY DEF Pipeline, NoMsg
  <2>1. CASE r[j] = NoMsg
    BY <2>0, <2>1 DEF NoMsg
  <2>2. CASE r[j] # NoMsg
    <3>1. e[j] \in lo..hi /\ r[j] = q[e[j]]
      BY <2>2
    <3>2. ASSUME NEW k \in lo..(e[j] - 1) PROVE q[k] # u
      <4> SUFFICES ASSUME q[k] = u PROVE FALSE
        OBVIOUS
      <4>1. k \in lo..hi /\ k < e[j]
        BY <3>1
      <4>2. PICK i \in first..end : e[i] = k /\ r[i] = q[k]
        BY <2>0, <4>1
      <4>3. r[i] = u /\ r[i] # NoMsg
        BY <2>0, <4>2
      <4>4. ~(j < i) /\ i # j
        BY <2>2, <3>1, <4>1, <4>2, <4>3
      <4>5. i \in first..(j - 1)
        BY <4>4
      <4> QED
        BY <4>3, <4>5
    <3>3. q[e[j]] <= u + slack
      BY <3>1, <3>2 DEF Pipeline, OldestNext
    <3> QED
      BY <3>1, <3>3
  <2> QED
    BY <2>1, <2>2
<1>5. Recent(G, U, top, slack)
  BY DEF Pipeline, Recent
<1> QED
  BY <1>2, <1>3, <1>4, <1>5 DEF Pipeline

\* The same packets, fewer of them in the channel and in the first half.
LEMMA PipeThinned ==
  ASSUME NEW top \in Nat, NEW slack \in Nat, NEW lo \in Int, NEW hi \in Int, NEW q, NEW H, NEW U, NEW D,
         Pipeline(lo, hi, q, H, U, D, top, slack), NEW r, \A i \in lo..hi : r[i] = q[i],
         NEW G, G \subseteq H, NEW E, E \subseteq D
  PROVE  Pipeline(lo, hi, r, G, U, E, top, slack)
<1>1. Live(lo, hi, r, G, U)
  BY DEF Pipeline, Live
<1>2. FirstHalves(lo, hi, r, U, E, top)
  BY DEF Pipeline, FirstHalves
<1>3. OldestNext(lo, hi, r, U, slack)
  <2> SUFFICES ASSUME NEW j \in lo..hi, NEW u \in U, \A i \in lo..(j - 1) : r[i] # u
               PROVE  r[j] <= u + slack
    BY DEF OldestNext
  <2>1. \A i \in lo..(j - 1) : i \in lo..hi
    OBVIOUS
  <2>2. \A i \in lo..(j - 1) : q[i] # u
    BY <2>1
  <2> QED
    BY <2>2 DEF Pipeline, OldestNext
<1>4. Recent(G, U, top, slack)
  BY DEF Pipeline, Recent
<1> QED
  BY <1>1, <1>2, <1>3, <1>4 DEF Pipeline

-----------------------------------------------------------------------------
(***************************************************************************)
(* The same about the packets.  The packets from the broker are at the     *)
(* places up to 0 of the pipeline, those to the broker at the places from  *)
(* 1 on.                                                                   *)
(***************************************************************************)
MsgOf(inf, id) == IF id = 0 THEN NoMsg ELSE inf[id]
IdAt(F, T, i) == IF i <= 0 THEN F[i + Len(F)].id ELSE T[i].id
PipeOf(inf, F, T) == [i \in (1 - Len(F))..Len(T) |-> MsgOf(inf, IdAt(F, T, i))]
HandedOf(inf, P) == {inf[P[i]] : i \in 1..Len(P)}
UnansweredOf(inf) == {inf[id] : id \in {k \in Ids : inf[k] # NoMsg}}

\* The messages whose PUBLISH, PUBACK or PUBREC is under way.
FirstsOf(inf, F, T) ==
    ({MsgOf(inf, F[i].id) : i \in {k \in 1..Len(F) : F[k].type \in {"PUBACK", "PUBREC"}}}
     \cup {MsgOf(inf, T[i].id) : i \in {k \in 1..Len(T) : T[k].type = "PUBLISH"}}) \ {NoMsg}

\* At QoS 2 a message may fall behind by a window, while its PUBREL waits for the writer
\* and newer messages are refused.
Slack == IF QoS = 2 THEN Window ELSE 0

LinesUp(inf, F, T, P, top) ==
    Pipeline(1 - Len(F), Len(T), PipeOf(inf, F, T), HandedOf(inf, P), UnansweredOf(inf),
             FirstsOf(inf, F, T), top, Slack)

\* Two identifiers never hold the same message.
Injective(inf) == \A j, k \in Ids : inf[j] = inf[k] /\ inf[j] # NoMsg => j = k

\* The slack is a number.
LEMMA SlackType == Slack \in Nat /\ Window \in Nat /\ Window > 0
BY WindowType, MaxIdAssumption DEF Slack

\* The packets of the client have identifiers, but for the DISCONNECT.
LEMMA PacketIds ==
  ASSUME QoS # 0
  PROVE  /\ \A x \in ToBroker : IF x.type = "DISCONNECT" THEN x.id = 0 ELSE x.id \in Ids /\ x.id # 0
         /\ \A x \in FromBroker : IF x.type = "DISCONNECT" THEN x.id = 0 ELSE x.id \in Ids /\ x.id # 0
BY DEF ToBroker, FromBroker, Ack, Disconnect, AckTypes, Ids

\* What a place of the pipeline holds.
LEMMA PlaceType ==
  ASSUME NEW F \in Seq(FromBroker), NEW T \in Seq(ToBroker)
  PROVE  /\ Len(F) \in Nat /\ Len(T) \in Nat
         /\ \A i \in 1..Len(F) : i - Len(F) \in (1 - Len(F))..Len(T) /\ IdAt(F, T, i - Len(F)) = F[i].id
         /\ \A i \in 1..Len(T) : i \in (1 - Len(F))..Len(T) /\ IdAt(F, T, i) = T[i].id
         /\ \A i \in (1 - Len(F))..Len(T) :
              IF i <= 0 THEN i + Len(F) \in 1..Len(F) /\ IdAt(F, T, i) = F[i + Len(F)].id
              ELSE i \in 1..Len(T) /\ IdAt(F, T, i) = T[i].id
<1>1. Len(F) \in Nat /\ Len(T) \in Nat
  OBVIOUS
<1>2. ASSUME NEW i \in 1..Len(F)
      PROVE  i - Len(F) \in (1 - Len(F))..Len(T) /\ IdAt(F, T, i - Len(F)) = F[i].id
  <2>1. i - Len(F) <= 0 /\ (i - Len(F)) + Len(F) = i /\ i - Len(F) \in (1 - Len(F))..Len(T)
    BY <1>1
  <2> QED
    BY <2>1 DEF IdAt
<1>3. ASSUME NEW i \in 1..Len(T) PROVE i \in (1 - Len(F))..Len(T) /\ IdAt(F, T, i) = T[i].id
  BY <1>1 DEF IdAt
<1>4. ASSUME NEW i \in (1 - Len(F))..Len(T)
      PROVE  IF i <= 0 THEN i + Len(F) \in 1..Len(F) /\ IdAt(F, T, i) = F[i + Len(F)].id
             ELSE i \in 1..Len(T) /\ IdAt(F, T, i) = T[i].id
  BY <1>1 DEF IdAt
<1> QED
  BY <1>1, <1>2, <1>3, <1>4

\* The ack task reads a packet: all others stay where they are.
LEMMA PlacesAfterRead ==
  ASSUME NEW F \in Seq(FromBroker), NEW T \in Seq(ToBroker), F # <<>>
  PROVE  /\ Tail(F) \in Seq(FromBroker) /\ Len(Tail(F)) = Len(F) - 1 /\ Len(F) \in Nat \ {0}
         /\ \A i \in 1..Len(Tail(F)) : Tail(F)[i] = F[i + 1]
         /\ \A i \in (2 - Len(F))..Len(T) : IdAt(Tail(F), T, i) = IdAt(F, T, i)
<1>1. /\ Tail(F) \in Seq(FromBroker) /\ Len(Tail(F)) = Len(F) - 1 /\ Len(F) \in Nat \ {0}
      /\ \A i \in 1..Len(Tail(F)) : Tail(F)[i] = F[i + 1]
  OBVIOUS
<1>2. ASSUME NEW i \in (2 - Len(F))..Len(T) PROVE IdAt(Tail(F), T, i) = IdAt(F, T, i)
  <2>1. CASE i <= 0
    <3>1. i + Len(Tail(F)) \in 1..Len(Tail(F)) /\ (i + Len(Tail(F))) + 1 = i + Len(F)
      BY <1>1, <2>1
    <3> QED
      BY <1>1, <2>1, <3>1 DEF IdAt
  <2>2. CASE ~(i <= 0)
    BY <2>2 DEF IdAt
  <2> QED
    BY <2>1, <2>2
<1> QED
  BY <1>1, <1>2

\* The client writes a packet: it comes last.
LEMMA PlacesAfterWrite ==
  ASSUME NEW F \in Seq(FromBroker), NEW T \in Seq(ToBroker), NEW S \in Seq(ToBroker)
  PROVE  /\ T \o S \in Seq(ToBroker) /\ Len(T \o S) = Len(T) + Len(S) /\ Len(T) \in Nat /\ Len(S) \in Nat
         /\ \A i \in 1..Len(T) : (T \o S)[i] = T[i]
         /\ \A i \in 1..Len(S) : (T \o S)[Len(T) + i] = S[i] /\ IdAt(F, T \o S, Len(T) + i) = S[i].id
         /\ \A i \in (1 - Len(F))..Len(T) : IdAt(F, T \o S, i) = IdAt(F, T, i)
<1>1. /\ T \o S \in Seq(ToBroker) /\ Len(T \o S) = Len(T) + Len(S) /\ Len(T) \in Nat /\ Len(S) \in Nat
      /\ \A i \in 1..Len(T) : (T \o S)[i] = T[i]
      /\ \A i \in 1..Len(S) : (T \o S)[Len(T) + i] = S[i]
  OBVIOUS
<1>2. ASSUME NEW i \in 1..Len(S) PROVE IdAt(F, T \o S, Len(T) + i) = S[i].id
  <2>1. ~(Len(T) + i <= 0)
    BY <1>1
  <2> QED
    BY <1>1, <2>1 DEF IdAt
<1>3. ASSUME NEW i \in (1 - Len(F))..Len(T) PROVE IdAt(F, T \o S, i) = IdAt(F, T, i)
  <2>1. CASE i <= 0
    BY <2>1 DEF IdAt
  <2>2. CASE ~(i <= 0)
    <3>1. i \in 1..Len(T)
      BY <1>1, <2>2
    <3> QED
      BY <1>1, <2>2, <3>1 DEF IdAt
  <2> QED
    BY <2>1, <2>2
<1> QED
  BY <1>1, <1>2, <1>3

\* The broker answers a packet: the answer is where the packet was, relative to all others.
LEMMA PlacesAfterReply ==
  ASSUME NEW F \in Seq(FromBroker), NEW T \in Seq(ToBroker), T # <<>>,
         NEW y \in FromBroker, y.id = T[1].id
  PROVE  /\ Append(F, y) \in Seq(FromBroker) /\ Tail(T) \in Seq(ToBroker)
         /\ Len(Append(F, y)) = Len(F) + 1 /\ Len(Tail(T)) = Len(T) - 1
         /\ Len(F) \in Nat /\ Len(T) \in Nat \ {0}
         /\ Append(F, y)[Len(F) + 1] = y /\ \A i \in 1..Len(F) : Append(F, y)[i] = F[i]
         /\ \A i \in 1..Len(Tail(T)) : Tail(T)[i] = T[i + 1]
         /\ \A i \in (0 - Len(F))..(Len(T) - 1) : IdAt(Append(F, y), Tail(T), i) = IdAt(F, T, i + 1)
<1>1. /\ Append(F, y) \in Seq(FromBroker) /\ Tail(T) \in Seq(ToBroker)
      /\ Len(Append(F, y)) = Len(F) + 1 /\ Len(Tail(T)) = Len(T) - 1
      /\ Len(F) \in Nat /\ Len(T) \in Nat \ {0}
      /\ Append(F, y)[Len(F) + 1] = y /\ \A i \in 1..Len(F) : Append(F, y)[i] = F[i]
      /\ \A i \in 1..Len(Tail(T)) : Tail(T)[i] = T[i + 1]
  OBVIOUS
<1>2. ASSUME NEW i \in (0 - Len(F))..(Len(T) - 1) PROVE IdAt(Append(F, y), Tail(T), i) = IdAt(F, T, i + 1)
  <2>1. CASE i < 0
    <3>1. i <= 0 /\ i + 1 <= 0 /\ i + Len(Append(F, y)) = (i + 1) + Len(F) /\ (i + 1) + Len(F) \in 1..Len(F)
      BY <1>1, <2>1
    <3> QED
      BY <1>1, <3>1 DEF IdAt
  <2>2. CASE i = 0
    <3>1. i + Len(Append(F, y)) = Len(F) + 1 /\ ~(i + 1 <= 0) /\ i + 1 = 1
      BY <1>1, <2>2
    <3> QED
      BY <1>1, <2>2, <3>1 DEF IdAt
  <2>3. CASE i > 0
    <3>1. ~(i <= 0) /\ ~(i + 1 <= 0) /\ i \in 1..Len(Tail(T))
      BY <1>1, <2>3
    <3> QED
      BY <1>1, <3>1 DEF IdAt
  <2> QED
    BY <1>1, <2>1, <2>2, <2>3
<1> QED
  BY <1>1, <1>2

\* What is under way after an entry was removed or others were answered is a part of what
\* was under way.
LEMMA FirstsWithin ==
  ASSUME NEW inf, NEW F, NEW T, NEW inf2, NEW F2, NEW T2,
         \A i \in 1..Len(F2) : F2[i].type \in {"PUBACK", "PUBREC"} =>
            MsgOf(inf2, F2[i].id) = NoMsg \/ MsgOf(inf2, F2[i].id) \in FirstsOf(inf, F, T),
         \A i \in 1..Len(T2) : T2[i].type = "PUBLISH" =>
            MsgOf(inf2, T2[i].id) = NoMsg \/ MsgOf(inf2, T2[i].id) \in FirstsOf(inf, F, T)
  PROVE  FirstsOf(inf2, F2, T2) \subseteq FirstsOf(inf, F, T) /\ NoMsg \notin FirstsOf(inf2, F2, T2)
<1> SUFFICES ASSUME NEW m \in FirstsOf(inf2, F2, T2) PROVE m \in FirstsOf(inf, F, T) /\ m # NoMsg
  OBVIOUS
<1>1. \/ \E i \in 1..Len(F2) : F2[i].type \in {"PUBACK", "PUBREC"} /\ m = MsgOf(inf2, F2[i].id)
      \/ \E i \in 1..Len(T2) : T2[i].type = "PUBLISH" /\ m = MsgOf(inf2, T2[i].id)
  BY DEF FirstsOf
<1>2. m # NoMsg
  BY DEF FirstsOf
<1> QED
  BY <1>1, <1>2

\* A PUBLISH, PUBACK or PUBREC under way is among the first halves.
LEMMA FirstsHold ==
  ASSUME NEW inf, NEW F, NEW T
  PROVE  /\ \A i \in 1..Len(F) : F[i].type \in {"PUBACK", "PUBREC"} =>
              MsgOf(inf, F[i].id) = NoMsg \/ MsgOf(inf, F[i].id) \in FirstsOf(inf, F, T)
         /\ \A i \in 1..Len(T) : T[i].type = "PUBLISH" =>
              MsgOf(inf, T[i].id) = NoMsg \/ MsgOf(inf, T[i].id) \in FirstsOf(inf, F, T)
BY DEF FirstsOf

\* The messages in flight after an entry was removed.
LEMMA UnansweredLess ==
  ASSUME NEW inf \in [Ids -> Nat], Injective(inf), NEW a \in Ids, inf[a] # NoMsg
  PROVE  UnansweredOf([inf EXCEPT ![a] = NoMsg]) = UnansweredOf(inf) \ {inf[a]}
<1> DEFINE inf2 == [inf EXCEPT ![a] = NoMsg]
<1>1. \A k \in Ids : inf2[k] = IF k = a THEN NoMsg ELSE inf[k]
  OBVIOUS
<1> HIDE DEF inf2
<1>2. ASSUME NEW m \in UnansweredOf(inf2) PROVE m \in UnansweredOf(inf) /\ m # inf[a]
  <2>1. PICK k \in Ids : inf2[k] = m /\ inf2[k] # NoMsg
    BY <1>2 DEF UnansweredOf
  <2>2. k # a /\ inf[k] = m /\ m # NoMsg
    BY <1>1, <2>1
  <2>3. m # inf[a]
    BY <2>2 DEF Injective
  <2> QED
    BY <2>2, <2>3 DEF UnansweredOf
<1>3. ASSUME NEW m \in UnansweredOf(inf), m # inf[a] PROVE m \in UnansweredOf(inf2)
  <2>1. PICK k \in Ids : inf[k] = m /\ inf[k] # NoMsg
    BY <1>3 DEF UnansweredOf
  <2>2. k # a /\ inf2[k] = m
    BY <1>1, <1>3, <2>1
  <2> QED
    BY <2>1, <2>2 DEF UnansweredOf
<1>4. UnansweredOf(inf2) = UnansweredOf(inf) \ {inf[a]}
  BY <1>2, <1>3
<1> QED
  BY <1>4 DEF inf2

\* Every packet has an identifier, but for a DISCONNECT.
LEMMA PlaceIds ==
  ASSUME QoS # 0, NEW F \in Seq(FromBroker), NEW T \in Seq(ToBroker)
  PROVE  /\ \A i \in 1..Len(F) : F[i].id = 0 \/ F[i].id \in Ids
         /\ \A i \in 1..Len(T) : T[i].id = 0 \/ T[i].id \in Ids
         /\ \A i \in (1 - Len(F))..Len(T) : IdAt(F, T, i) = 0 \/ IdAt(F, T, i) \in Ids
<1>1. ASSUME NEW i \in 1..Len(F) PROVE F[i].id = 0 \/ F[i].id \in Ids
  <2>1. F[i] \in FromBroker
    OBVIOUS
  <2> QED
    BY <2>1, PacketIds, Zenon
<1>2. ASSUME NEW i \in 1..Len(T) PROVE T[i].id = 0 \/ T[i].id \in Ids
  <2>1. T[i] \in ToBroker
    OBVIOUS
  <2> QED
    BY <2>1, PacketIds, Zenon
<1>3. ASSUME NEW i \in (1 - Len(F))..Len(T) PROVE IdAt(F, T, i) = 0 \/ IdAt(F, T, i) \in Ids
  <2>1. IF i <= 0 THEN i + Len(F) \in 1..Len(F) /\ IdAt(F, T, i) = F[i + Len(F)].id
        ELSE i \in 1..Len(T) /\ IdAt(F, T, i) = T[i].id
    BY PlaceType
  <2> QED
    BY <1>1, <1>2, <2>1, Zenon
<1> QED
  BY <1>1, <1>2, <1>3

\* A pipeline that the packets agree with, channel and first halves being within its own.
LEMMA LinesUpWith ==
  ASSUME NEW F \in Seq(FromBroker), NEW T \in Seq(ToBroker), NEW inf, NEW P, NEW top \in Nat,
         NEW lo, NEW hi, lo = 1 - Len(F), hi = Len(T), NEW q, NEW H, NEW U, NEW D,
         Pipeline(lo, hi, q, H, U, D, top, Slack),
         \A i \in lo..hi : q[i] = MsgOf(inf, IdAt(F, T, i)),
         HandedOf(inf, P) \subseteq H, UnansweredOf(inf) = U, FirstsOf(inf, F, T) \subseteq D
  PROVE  LinesUp(inf, F, T, P, top)
<1>1. lo \in Int /\ hi \in Int /\ Slack \in Nat
  BY SlackType
<1>2. \A i \in lo..hi : PipeOf(inf, F, T)[i] = q[i]
  BY DEF PipeOf
<1>3. Pipeline(lo, hi, PipeOf(inf, F, T), HandedOf(inf, P), U, FirstsOf(inf, F, T), top, Slack)
  BY <1>1, <1>2, PipeThinned
<1> QED
  BY <1>3 DEF LinesUp

\* What the packets agree with.
LEMMA LinesUpMeans ==
  ASSUME QoS # 0, NEW F \in Seq(FromBroker), NEW T \in Seq(ToBroker), NEW inf \in [Ids -> Nat],
         NEW P \in Seq(Ids), NEW top \in Nat, LinesUp(inf, F, T, P, top)
  PROVE  LET q == PipeOf(inf, F, T) IN
         /\ Pipeline(1 - Len(F), Len(T), q, HandedOf(inf, P), UnansweredOf(inf), FirstsOf(inf, F, T), top, Slack)
         /\ 1 - Len(F) \in Int /\ Len(T) \in Int /\ Slack \in Nat
         /\ \A i \in (1 - Len(F))..Len(T) :
              q[i] = MsgOf(inf, IdAt(F, T, i)) /\ (IdAt(F, T, i) = 0 \/ IdAt(F, T, i) \in Ids)
<1>1. 1 - Len(F) \in Int /\ Len(T) \in Int /\ Slack \in Nat
  BY SlackType
<1>2. \A i \in (1 - Len(F))..Len(T) : PipeOf(inf, F, T)[i] = MsgOf(inf, IdAt(F, T, i))
  BY DEF PipeOf
<1> QED
  BY <1>1, <1>2, PlaceIds DEF LinesUp

\* What is under way is a number of a message, and none that was handed over.
LEMMA FirstsUnderWay ==
  ASSUME QoS # 0, NEW F \in Seq(FromBroker), NEW T \in Seq(ToBroker), NEW inf \in [Ids -> Nat],
         NEW P \in Seq(Ids), NEW top \in Nat, LinesUp(inf, F, T, P, top)
  PROVE  NoMsg \notin FirstsOf(inf, F, T) /\ \A m \in FirstsOf(inf, F, T) : m \notin HandedOf(inf, P)
<1> DEFINE q == PipeOf(inf, F, T)
<1>0. NoMsg \notin FirstsOf(inf, F, T)
  BY DEF FirstsOf
<1> SUFFICES ASSUME NEW m \in FirstsOf(inf, F, T) PROVE m \notin HandedOf(inf, P)
  BY <1>0
<1>1. \/ \E i \in 1..Len(F) : m = MsgOf(inf, F[i].id)
      \/ \E i \in 1..Len(T) : m = MsgOf(inf, T[i].id)
  BY DEF FirstsOf
<1>2. \E k \in (1 - Len(F))..Len(T) : m = MsgOf(inf, IdAt(F, T, k))
  <2>1. CASE \E i \in 1..Len(F) : m = MsgOf(inf, F[i].id)
    <3>1. PICK i \in 1..Len(F) : m = MsgOf(inf, F[i].id)
      BY <2>1
    <3>2. i - Len(F) \in (1 - Len(F))..Len(T) /\ IdAt(F, T, i - Len(F)) = F[i].id
      BY PlaceType
    <3> QED
      BY <3>1, <3>2
  <2>2. CASE \E i \in 1..Len(T) : m = MsgOf(inf, T[i].id)
    <3>1. PICK i \in 1..Len(T) : m = MsgOf(inf, T[i].id)
      BY <2>2
    <3>2. i \in (1 - Len(F))..Len(T) /\ IdAt(F, T, i) = T[i].id
      BY PlaceType
    <3> QED
      BY <3>1, <3>2
  <2> QED
    BY <1>1, <2>1, <2>2
<1>3. PICK k \in (1 - Len(F))..Len(T) : m = MsgOf(inf, IdAt(F, T, k))
  BY <1>2
<1>4. q[k] = m
  BY <1>3, LinesUpMeans
<1>5. Live(1 - Len(F), Len(T), q, HandedOf(inf, P), UnansweredOf(inf))
  BY DEF LinesUp, Pipeline
<1> QED
  BY <1>0, <1>4, <1>5 DEF Live

\* What of the first halves is left when the ack task has read a packet.
LEMMA FirstsAfterRead ==
  ASSUME QoS # 0, NEW F \in Seq(FromBroker), NEW T \in Seq(ToBroker), F # <<>>, NEW inf, NEW inf2,
         \A k : k = 0 \/ k \in Ids => MsgOf(inf2, k) = NoMsg \/ MsgOf(inf2, k) = MsgOf(inf, k)
  PROVE  FirstsOf(inf2, Tail(F), T) \subseteq FirstsOf(inf, F, T)
<1>1. /\ Tail(F) \in Seq(FromBroker) /\ Len(Tail(F)) = Len(F) - 1 /\ Len(F) \in Nat \ {0}
      /\ \A i \in 1..Len(Tail(F)) : Tail(F)[i] = F[i + 1]
  BY PlacesAfterRead
<1>2. ASSUME NEW i \in 1..Len(Tail(F)), Tail(F)[i].type \in {"PUBACK", "PUBREC"}
      PROVE  MsgOf(inf2, Tail(F)[i].id) = NoMsg \/ MsgOf(inf2, Tail(F)[i].id) \in FirstsOf(inf, F, T)
  <2>1. i + 1 \in 1..Len(F) /\ Tail(F)[i] = F[i + 1]
    BY <1>1
  <2>2. F[i + 1].id = 0 \/ F[i + 1].id \in Ids
    BY <2>1, PlaceIds
  <2>3. MsgOf(inf, F[i + 1].id) = NoMsg \/ MsgOf(inf, F[i + 1].id) \in FirstsOf(inf, F, T)
    BY <1>2, <2>1, FirstsHold
  <2> QED
    BY <2>1, <2>2, <2>3
<1>3. ASSUME NEW i \in 1..Len(T), T[i].type = "PUBLISH"
      PROVE  MsgOf(inf2, T[i].id) = NoMsg \/ MsgOf(inf2, T[i].id) \in FirstsOf(inf, F, T)
  <2>1. T[i].id = 0 \/ T[i].id \in Ids
    BY PlaceIds
  <2>2. MsgOf(inf, T[i].id) = NoMsg \/ MsgOf(inf, T[i].id) \in FirstsOf(inf, F, T)
    BY <1>3, FirstsHold
  <2> QED
    BY <2>1, <2>2
<1> QED
  BY <1>2, <1>3, FirstsWithin

\* The place of the packet the ack task reads, and the places of the others.
LEMMA FirstPlace ==
  ASSUME NEW F \in Seq(FromBroker), NEW T \in Seq(ToBroker), F # <<>>
  PROVE  /\ 1 - Len(F) <= Len(T) /\ 1 - Len(F) \in (1 - Len(F))..Len(T)
         /\ IdAt(F, T, 1 - Len(F)) = F[1].id
         /\ (1 - Len(F)) + 1 = 1 - Len(Tail(F))
         /\ \A i \in (1 - Len(Tail(F)))..Len(T) :
              i \in (1 - Len(F))..Len(T) /\ 1 - Len(F) < i /\ IdAt(Tail(F), T, i) = IdAt(F, T, i)
<1>1. /\ Len(Tail(F)) = Len(F) - 1 /\ Len(F) \in Nat \ {0} /\ Len(T) \in Nat
      /\ \A i \in (2 - Len(F))..Len(T) : IdAt(Tail(F), T, i) = IdAt(F, T, i)
  BY PlacesAfterRead
<1>2. 1 - Len(F) <= 0 /\ (1 - Len(F)) + Len(F) = 1 /\ 1 - Len(Tail(F)) = 2 - Len(F)
  BY <1>1
<1>3. IdAt(F, T, 1 - Len(F)) = F[1].id
  BY <1>2 DEF IdAt
<1> QED
  BY <1>1, <1>2, <1>3

\* complete_ack removes the entry of the first packet from the broker.
LEMMA AnsweredLinesUp ==
  ASSUME QoS # 0, NEW F \in Seq(FromBroker), NEW T \in Seq(ToBroker), NEW inf \in [Ids -> Nat],
         NEW P \in Seq(Ids), NEW top \in Nat, LinesUp(inf, F, T, P, top),
         Injective(inf), F # <<>>, NEW a \in Ids, F[1].id = a, inf[a] # NoMsg
  PROVE  LinesUp([inf EXCEPT ![a] = NoMsg], Tail(F), T, P, top)
<1> DEFINE inf2 == [inf EXCEPT ![a] = NoMsg]
           q == PipeOf(inf, F, T)
           H == HandedOf(inf, P)
           U == UnansweredOf(inf)
           D == FirstsOf(inf, F, T)
           lo == 1 - Len(F)
           hi == Len(T)
<1>0. /\ \A k \in Ids : inf2[k] = IF k = a THEN NoMsg ELSE inf[k]
      /\ \A k : k = 0 \/ k \in Ids => MsgOf(inf2, k) = IF k = a THEN NoMsg ELSE MsgOf(inf, k)
      /\ a # 0 /\ MsgOf(inf, a) = inf[a]
  BY DEF MsgOf, Ids
<1>1. UnansweredOf(inf2) = U \ {inf[a]}
  BY UnansweredLess
<1>2. /\ Pipeline(lo, hi, q, H, U, D, top, Slack) /\ lo \in Int /\ hi \in Int /\ Slack \in Nat
      /\ \A i \in lo..hi : q[i] = MsgOf(inf, IdAt(F, T, i)) /\ (IdAt(F, T, i) = 0 \/ IdAt(F, T, i) \in Ids)
  BY LinesUpMeans
<1>3. /\ lo <= hi /\ lo \in lo..hi /\ IdAt(F, T, lo) = a /\ lo + 1 = 1 - Len(Tail(F))
      /\ \A i \in (lo + 1)..hi : i \in lo..hi /\ lo < i /\ IdAt(Tail(F), T, i) = IdAt(F, T, i)
  BY FirstPlace
<1>4. FirstsOf(inf2, Tail(F), T) \subseteq D
  <2> HIDE DEF inf2
  <2>1. \A k : k = 0 \/ k \in Ids => MsgOf(inf2, k) = NoMsg \/ MsgOf(inf2, k) = MsgOf(inf, k)
    BY <1>0
  <2> QED
    BY <2>1, FirstsAfterRead
<1>5. Tail(F) \in Seq(FromBroker)
  OBVIOUS
<1> HIDE DEF q, H, U, D, lo, hi, inf2
<1>6. q[lo] = inf[a]
  BY <1>0, <1>2, <1>3
<1>7. Pipeline(lo + 1, hi, q, H, U \ {inf[a]}, D, top, Slack)
  BY <1>2, <1>3, <1>6, PipeAnswered
<1>8. ASSUME NEW i \in (lo + 1)..hi PROVE q[i] = MsgOf(inf2, IdAt(Tail(F), T, i))
  <2>1. q[i] # inf[a]
    BY <1>2, <1>3, <1>6 DEF Pipeline, Live
  <2> QED
    BY <1>0, <1>2, <1>3, <2>1
<1>9. HandedOf(inf2, P) \subseteq H
  <2> SUFFICES ASSUME NEW i \in 1..Len(P) PROVE inf2[P[i]] \in H
    BY DEF HandedOf
  <2>1. P[i] \in Ids /\ inf[P[i]] \in H
    BY DEF H, HandedOf
  <2>2. inf[a] \notin H
    BY <1>2, <1>3, <1>6 DEF Pipeline, Live
  <2> QED
    BY <1>0, <2>1, <2>2
<1>10. LinesUp(inf2, Tail(F), T, P, top)
  <2> DEFINE V == U \ {inf[a]}
             first == lo + 1
  <2>1. hi = Len(T) /\ Pipeline(first, hi, q, H, V, D, top, Slack) /\ UnansweredOf(inf2) = V
    BY <1>1, <1>7 DEF hi
  <2>2. first = 1 - Len(Tail(F)) /\ \A i \in first..hi : q[i] = MsgOf(inf2, IdAt(Tail(F), T, i))
    BY <1>3, <1>8
  <2> HIDE DEF V, first
  <2> QED
    BY <1>4, <1>5, <1>9, <2>1, <2>2, LinesUpWith
<1> QED
  BY <1>10 DEF inf2

\* The ack task reads a PUBREC that goes on: the identifier is handed to the writer, or
\* nobody takes it any more.
LEMMA HandedLinesUp ==
  ASSUME QoS # 0, NEW F \in Seq(FromBroker), NEW T \in Seq(ToBroker), NEW inf \in [Ids -> Nat],
         NEW P \in Seq(Ids), NEW top \in Nat, LinesUp(inf, F, T, P, top),
         F # <<>>, NEW a \in Ids, F[1].id = a, inf[a] # NoMsg, top <= inf[a] + Slack
  PROVE  /\ LinesUp(inf, Tail(F), T, P, top) /\ LinesUp(inf, Tail(F), T, Append(P, a), top)
         /\ inf[a] \notin HandedOf(inf, P)
<1> DEFINE q == PipeOf(inf, F, T)
           H == HandedOf(inf, P)
           U == UnansweredOf(inf)
           D == FirstsOf(inf, F, T)
           lo == 1 - Len(F)
           hi == Len(T)
<1>0. a # 0 /\ MsgOf(inf, a) = inf[a]
  BY DEF MsgOf, Ids
<1>2. /\ Pipeline(lo, hi, q, H, U, D, top, Slack) /\ lo \in Int /\ hi \in Int /\ Slack \in Nat
      /\ \A i \in lo..hi : q[i] = MsgOf(inf, IdAt(F, T, i)) /\ (IdAt(F, T, i) = 0 \/ IdAt(F, T, i) \in Ids)
  BY LinesUpMeans
<1>3. /\ lo <= hi /\ lo \in lo..hi /\ IdAt(F, T, lo) = a /\ lo + 1 = 1 - Len(Tail(F))
      /\ \A i \in (lo + 1)..hi : i \in lo..hi /\ lo < i /\ IdAt(Tail(F), T, i) = IdAt(F, T, i)
  BY FirstPlace
<1>4. FirstsOf(inf, Tail(F), T) \subseteq D
  BY FirstsAfterRead
<1>5. Tail(F) \in Seq(FromBroker) /\ Append(P, a) \in Seq(Ids)
  OBVIOUS
<1>6. HandedOf(inf, Append(P, a)) \subseteq H \cup {inf[a]}
  <2> SUFFICES ASSUME NEW i \in 1..Len(Append(P, a)) PROVE inf[Append(P, a)[i]] \in H \cup {inf[a]}
    BY DEF HandedOf
  <2>1. Append(P, a)[i] = a \/ (i \in 1..Len(P) /\ Append(P, a)[i] = P[i])
    OBVIOUS
  <2> QED
    BY <2>1 DEF HandedOf
<1> HIDE DEF q, H, U, D, lo, hi
<1>7. q[lo] = inf[a]
  BY <1>0, <1>2, <1>3
<1>8. Pipeline(lo + 1, hi, q, H, U, D, top, Slack) /\ Pipeline(lo + 1, hi, q, H \cup {inf[a]}, U, D, top, Slack)
  BY <1>2, <1>3, <1>7, PipeHandedOver
<1>9. \A i \in (lo + 1)..hi : q[i] = MsgOf(inf, IdAt(Tail(F), T, i))
  BY <1>2, <1>3
<1>10. inf[a] \notin HandedOf(inf, P)
  BY <1>2, <1>3, <1>7 DEF Pipeline, Live, H
<1>11. hi = Len(T) /\ HandedOf(inf, P) = H /\ UnansweredOf(inf) = U
  BY DEF hi, H, U
<1>12. LinesUp(inf, Tail(F), T, P, top)
  BY <1>3, <1>4, <1>5, <1>8, <1>9, <1>11, LinesUpWith
<1>13. LinesUp(inf, Tail(F), T, Append(P, a), top)
  <2> DEFINE G == H \cup {inf[a]}
             first == lo + 1
             P2 == Append(P, a)
  <2>1. HandedOf(inf, P2) \subseteq G /\ Pipeline(first, hi, q, G, U, D, top, Slack)
    BY <1>6, <1>8
  <2>2. first = 1 - Len(Tail(F)) /\ \A i \in first..hi : q[i] = MsgOf(inf, IdAt(Tail(F), T, i))
    BY <1>3, <1>9
  <2>3. LinesUp(inf, Tail(F), T, P2, top)
    <3> HIDE DEF G, first, P2
    <3> QED
      BY <1>4, <1>5, <1>11, <2>1, <2>2, LinesUpWith
  <2> QED
    BY <2>3
<1> QED
  BY <1>10, <1>12, <1>13

\* The ack task reads a DISCONNECT.
LEMMA SkippedLinesUp ==
  ASSUME QoS # 0, NEW F \in Seq(FromBroker), NEW T \in Seq(ToBroker), NEW inf \in [Ids -> Nat],
         NEW P \in Seq(Ids), NEW top \in Nat, LinesUp(inf, F, T, P, top),
         F # <<>>, F[1].id = 0
  PROVE  LinesUp(inf, Tail(F), T, P, top)
<1> DEFINE q == PipeOf(inf, F, T)
           H == HandedOf(inf, P)
           U == UnansweredOf(inf)
           D == FirstsOf(inf, F, T)
           E == FirstsOf(inf, Tail(F), T)
           lo == 1 - Len(F)
           first == lo + 1
           hi == Len(T)
           e == [i \in Int |-> i]
<1>1. MsgOf(inf, 0) = NoMsg
  BY DEF MsgOf
<1>2. /\ Pipeline(lo, hi, q, H, U, D, top, Slack) /\ lo \in Int /\ hi \in Int /\ Slack \in Nat
      /\ \A i \in lo..hi : q[i] = MsgOf(inf, IdAt(F, T, i)) /\ (IdAt(F, T, i) = 0 \/ IdAt(F, T, i) \in Ids)
  BY LinesUpMeans
<1>3. /\ lo <= hi /\ lo \in lo..hi /\ IdAt(F, T, lo) = 0 /\ first = 1 - Len(Tail(F))
      /\ \A i \in first..hi : i \in lo..hi /\ lo < i /\ IdAt(Tail(F), T, i) = IdAt(F, T, i)
  BY FirstPlace
<1>4. E \subseteq D /\ NoMsg \notin E
  <2>1. NoMsg \notin E
    BY DEF FirstsOf
  <2> QED
    BY <2>1, FirstsAfterRead
<1>5. Tail(F) \in Seq(FromBroker) /\ H \subseteq H
  OBVIOUS
<1>6. first \in Int /\ \A i \in first..hi : e[i] = i
  BY <1>2
<1>7. \A k \in lo..hi : k = lo \/ k \in first..hi
  BY <1>2
<1> HIDE DEF q, H, U, D, E, lo, first, hi, e
<1>8. q[lo] = NoMsg
  BY <1>1, <1>2, <1>3
<1>9. Pipeline(first, hi, q, H, U, E, top, Slack)
  <2>1. \A i \in first..hi : q[i] = NoMsg \/ (e[i] \in lo..hi /\ q[i] = q[e[i]])
    BY <1>3, <1>6
  <2>2. \A i, j \in first..hi : i < j /\ q[i] # NoMsg /\ q[j] # NoMsg => e[i] < e[j]
    BY <1>6
  <2>3. \A k \in lo..hi : q[k] # NoMsg => \E i \in first..hi : e[i] = k /\ q[i] = q[k]
    BY <1>6, <1>7, <1>8
  <2> QED
    <3>1. SameOrder(lo, hi, q, first, hi, q, e)
      BY <2>1, <2>2, <2>3 DEF SameOrder
    <3> QED
      BY <1>2, <1>4, <1>5, <1>6, <3>1, PipeMoved
<1>10. \A i \in first..hi : q[i] = MsgOf(inf, IdAt(Tail(F), T, i))
  BY <1>2, <1>3
<1>11. hi = Len(T) /\ HandedOf(inf, P) \subseteq H /\ UnansweredOf(inf) = U /\ FirstsOf(inf, Tail(F), T) \subseteq E
  BY DEF hi, H, U, E
<1> QED
  BY <1>3, <1>5, <1>9, <1>10, <1>11, LinesUpWith

\* A PUBREL that was lost with the connection, or the channel with its writer.
LEMMA DroppedLinesUp ==
  ASSUME NEW F, NEW T, NEW inf, NEW P, NEW P2, NEW top \in Nat, Len(F) \in Nat, Len(T) \in Nat,
         LinesUp(inf, F, T, P, top), HandedOf(inf, P2) \subseteq HandedOf(inf, P)
  PROVE  LinesUp(inf, F, T, P2, top)
<1> DEFINE q == PipeOf(inf, F, T)
           H == HandedOf(inf, P)
           G == HandedOf(inf, P2)
           U == UnansweredOf(inf)
           D == FirstsOf(inf, F, T)
           lo == 1 - Len(F)
           hi == Len(T)
<1>1. Pipeline(lo, hi, q, H, U, D, top, Slack) /\ lo \in Int /\ hi \in Int /\ Slack \in Nat
  BY SlackType DEF LinesUp
<1>2. (\A i \in lo..hi : q[i] = q[i]) /\ D \subseteq D
  OBVIOUS
<1>3. Pipeline(lo, hi, q, G, U, D, top, Slack)
  <2> HIDE DEF q, H, G, U, D, lo, hi
  <2>1. G \subseteq H
    BY DEF G, H
  <2> QED
    BY <1>1, <1>2, <2>1, PipeThinned
<1> QED
  BY <1>3 DEF LinesUp

\* What of the first halves there is when packets other than PUBLISH were written.
LEMMA FirstsAfterWrite ==
  ASSUME NEW F \in Seq(FromBroker), NEW T \in Seq(ToBroker), NEW S \in Seq(ToBroker), NEW inf, NEW M,
         \A i \in 1..Len(S) : S[i].type = "PUBLISH" => MsgOf(inf, S[i].id) \in M
  PROVE  FirstsOf(inf, F, T \o S) \subseteq FirstsOf(inf, F, T) \cup M
<1> DEFINE D == FirstsOf(inf, F, T)
<1> SUFFICES ASSUME NEW m \in FirstsOf(inf, F, T \o S) PROVE m \in D \/ m \in M
  OBVIOUS
<1>1. m # NoMsg
  BY DEF FirstsOf
<1>2. \/ \E i \in 1..Len(F) : F[i].type \in {"PUBACK", "PUBREC"} /\ m = MsgOf(inf, F[i].id)
      \/ \E i \in 1..Len(T \o S) : (T \o S)[i].type = "PUBLISH" /\ m = MsgOf(inf, (T \o S)[i].id)
  BY DEF FirstsOf
<1>3. CASE \E i \in 1..Len(F) : F[i].type \in {"PUBACK", "PUBREC"} /\ m = MsgOf(inf, F[i].id)
  BY <1>1, <1>3, FirstsHold
<1>4. CASE \E i \in 1..Len(T \o S) : (T \o S)[i].type = "PUBLISH" /\ m = MsgOf(inf, (T \o S)[i].id)
  <2>1. PICK i \in 1..Len(T \o S) : (T \o S)[i].type = "PUBLISH" /\ m = MsgOf(inf, (T \o S)[i].id)
    BY <1>4
  <2>2. i \in 1..Len(T) \/ \E j \in 1..Len(S) : i = Len(T) + j
    <3>1. Len(T \o S) = Len(T) + Len(S) /\ Len(T) \in Nat /\ Len(S) \in Nat
      OBVIOUS
    <3>2. i \in 1..Len(T) \/ (i - Len(T) \in 1..Len(S) /\ i = Len(T) + (i - Len(T)))
      BY <3>1
    <3> QED
      BY <3>2
  <2>3. CASE i \in 1..Len(T)
    <3>1. (T \o S)[i] = T[i]
      BY <2>3, PlacesAfterWrite
    <3> QED
      BY <1>1, <2>1, <2>3, <3>1, FirstsHold
  <2>4. CASE \E j \in 1..Len(S) : i = Len(T) + j
    <3>1. PICK j \in 1..Len(S) : i = Len(T) + j
      BY <2>4
    <3>2. (T \o S)[i] = S[j]
      BY <3>1, PlacesAfterWrite
    <3> QED
      BY <2>1, <3>2
  <2> QED
    BY <2>2, <2>3, <2>4
<1> QED
  BY <1>2, <1>3, <1>4

\* The identifiers that packets are under way for.
IdsOf(s) == {s[i].id : i \in 1..Len(s)}
UnderWay(F, T, P) == IdsOf(F) \cup IdsOf(T) \cup {P[i] : i \in 1..Len(P)}

\* An entry of in_flight that packets are under way for is in the pipeline, or was handed
\* over.
LEMMA UnderWayPlace ==
  ASSUME NEW F \in Seq(FromBroker), NEW T \in Seq(ToBroker), NEW P \in Seq(Ids), NEW id
  PROVE  /\ id \in UnderWay(F, T, P) <=> \/ \E k \in (1 - Len(F))..Len(T) : IdAt(F, T, k) = id
                                         \/ \E k \in 1..Len(P) : P[k] = id
<1>1. ASSUME NEW k \in (1 - Len(F))..Len(T), IdAt(F, T, k) = id PROVE id \in IdsOf(F) \cup IdsOf(T)
  <2>1. IF k <= 0 THEN k + Len(F) \in 1..Len(F) /\ IdAt(F, T, k) = F[k + Len(F)].id
        ELSE k \in 1..Len(T) /\ IdAt(F, T, k) = T[k].id
    BY PlaceType
  <2> QED
    BY <1>1, <2>1, Zenon DEF IdsOf
<1>2. ASSUME id \in IdsOf(F) PROVE \E k \in (1 - Len(F))..Len(T) : IdAt(F, T, k) = id
  <2>1. PICK i \in 1..Len(F) : id = F[i].id
    BY <1>2, Zenon DEF IdsOf
  <2>2. i - Len(F) \in (1 - Len(F))..Len(T) /\ IdAt(F, T, i - Len(F)) = F[i].id
    BY PlaceType
  <2> QED
    BY <2>1, <2>2
<1>3. ASSUME id \in IdsOf(T) PROVE \E k \in (1 - Len(F))..Len(T) : IdAt(F, T, k) = id
  <2>1. PICK i \in 1..Len(T) : id = T[i].id
    BY <1>3, Zenon DEF IdsOf
  <2>2. i \in (1 - Len(F))..Len(T) /\ IdAt(F, T, i) = T[i].id
    BY PlaceType
  <2> QED
    BY <2>1, <2>2
<1> QED
  BY <1>1, <1>2, <1>3, Zenon DEF UnderWay

\* The same for a message: packets are under way for its identifier exactly when it is in
\* the pipeline or was handed over.
LEMMA Located ==
  ASSUME QoS # 0, NEW F \in Seq(FromBroker), NEW T \in Seq(ToBroker), NEW inf \in [Ids -> Nat],
         NEW P \in Seq(Ids), Injective(inf), NEW id \in Ids, inf[id] # NoMsg
  PROVE  id \in UnderWay(F, T, P) <=> \/ \E k \in (1 - Len(F))..Len(T) : PipeOf(inf, F, T)[k] = inf[id]
                                      \/ inf[id] \in HandedOf(inf, P)
<1>0. id # 0 /\ MsgOf(inf, id) = inf[id]
  BY DEF MsgOf, Ids
<1>1. \A k \in (1 - Len(F))..Len(T) : PipeOf(inf, F, T)[k] = MsgOf(inf, IdAt(F, T, k))
  BY DEF PipeOf
<1>2. ASSUME NEW k \in (1 - Len(F))..Len(T) PROVE PipeOf(inf, F, T)[k] = inf[id] <=> IdAt(F, T, k) = id
  <2>1. IdAt(F, T, k) = 0 \/ IdAt(F, T, k) \in Ids
    BY PlaceIds
  <2>2. CASE IdAt(F, T, k) = 0
    BY <1>0, <1>1, <2>2 DEF MsgOf
  <2>3. CASE IdAt(F, T, k) \in Ids
    <3>1. PipeOf(inf, F, T)[k] = inf[IdAt(F, T, k)]
      BY <1>1, <2>3 DEF MsgOf, Ids
    <3> QED
      BY <2>3, <3>1 DEF Injective
  <2> QED
    BY <2>1, <2>2, <2>3
<1>3. inf[id] \in HandedOf(inf, P) <=> \E k \in 1..Len(P) : P[k] = id
  <2>1. \A k \in 1..Len(P) : P[k] \in Ids
    OBVIOUS
  <2> QED
    BY <2>1 DEF HandedOf, Injective
<1> QED
  BY <1>2, <1>3, UnderWayPlace

\* The identifiers of in_flight that no packet is under way for.
Unaccounted(inf, F, T, P) == {id \in Ids : inf[id] # NoMsg /\ id \notin UnderWay(F, T, P)}

\* The PUBLISH of the newest message is written.
LEMMA PublishedLinesUp ==
  ASSUME QoS # 0, NEW F \in Seq(FromBroker), NEW T \in Seq(ToBroker), NEW inf \in [Ids -> Nat],
         NEW P \in Seq(Ids), NEW top \in Nat, LinesUp(inf, F, T, P, top), Injective(inf),
         NEW b \in Ids, inf[b] = top, Unaccounted(inf, F, T, P) = {b},
         NEW x \in ToBroker, x.id = b
  PROVE  LinesUp(inf, F, T \o <<x>>, P, top)
<1> DEFINE q == PipeOf(inf, F, T)
           S == <<x>>
           T2 == T \o S
           r == PipeOf(inf, F, T2)
           H == HandedOf(inf, P)
           U == UnansweredOf(inf)
           D == FirstsOf(inf, F, T)
           E == FirstsOf(inf, F, T2)
           lo == 1 - Len(F)
           hi == Len(T)
<1>0. b # 0 /\ MsgOf(inf, b) = top /\ top # NoMsg /\ b \notin UnderWay(F, T, P)
  BY DEF MsgOf, Ids, Unaccounted
<1>1. /\ Pipeline(lo, hi, q, H, U, D, top, Slack) /\ lo \in Int /\ hi \in Int /\ Slack \in Nat
      /\ \A i \in lo..hi : q[i] = MsgOf(inf, IdAt(F, T, i)) /\ (IdAt(F, T, i) = 0 \/ IdAt(F, T, i) \in Ids)
  BY LinesUpMeans
<1>2. S \in Seq(ToBroker) /\ Len(S) = 1 /\ S[1] = x /\ 1 \in 1..Len(S)
  OBVIOUS
<1>3. /\ T2 \in Seq(ToBroker) /\ Len(T2) = hi + 1 /\ Len(T) \in Nat
      /\ IdAt(F, T2, hi + 1) = b
      /\ \A i \in lo..hi : IdAt(F, T2, i) = IdAt(F, T, i)
  <2> HIDE DEF S
  <2>1. IdAt(F, T2, hi + 1) = S[1].id
    BY <1>2, PlacesAfterWrite
  <2>2. IdAt(F, T2, hi + 1) = b
    BY <1>2, <2>1
  <2>3. T2 \in Seq(ToBroker) /\ Len(T2) = hi + 1 /\ Len(T) \in Nat
    <3>1. T2 \in Seq(ToBroker) /\ Len(T2) = Len(T) + Len(S) /\ Len(T) \in Nat
      BY <1>2, PlacesAfterWrite, Zenon
    <3> QED
      BY <1>2, <3>1, Zenon
  <2>4. \A i \in lo..hi : IdAt(F, T2, i) = IdAt(F, T, i)
    BY <1>2, PlacesAfterWrite
  <2> QED
    BY <2>2, <2>3, <2>4
<1>4. \A i \in lo..(hi + 1) : r[i] = MsgOf(inf, IdAt(F, T2, i))
  <2> HIDE DEF T2
  <2> QED
    BY <1>3 DEF PipeOf
<1>5. E \subseteq D \cup {top}
  <2>1. \A i \in 1..Len(S) : MsgOf(inf, S[i].id) \in {top}
    BY <1>0, <1>2
  <2> HIDE DEF S
  <2> QED
    BY <1>2, <2>1, FirstsAfterWrite
<1>6. top \in U
  BY <1>0 DEF UnansweredOf
<1>7. top \notin H /\ \A i \in lo..hi : q[i] # top
  BY <1>0, Located
<1>8. ASSUME NEW u \in U PROVE (\E i \in lo..hi : q[i] = u) \/ u \in H \/ u = top
  <2>1. PICK id \in Ids : inf[id] = u /\ inf[id] # NoMsg
    BY <1>8 DEF UnansweredOf
  <2>2. id \in UnderWay(F, T, P) \/ id = b
    BY <2>1 DEF Unaccounted
  <2> QED
    BY <2>1, <2>2, Located
<1>9. lo <= hi + 1
  BY <1>3
<1>10. LinesUp(inf, F, T2, P, top) <=> Pipeline(lo, hi + 1, r, H, U, E, top, Slack)
  BY <1>3 DEF LinesUp
<1>11. LinesUp(inf, F, T2, P, top)
  <2> HIDE DEF q, r, T2, H, U, D, E, lo, hi
  <2>1. (\A i \in lo..hi : r[i] = q[i]) /\ r[hi + 1] = top
    <3>1. \A i \in lo..hi : i \in lo..(hi + 1)
      BY <1>1
    <3>2. hi + 1 \in lo..(hi + 1)
      BY <1>1, <1>9
    <3> QED
      BY <1>0, <1>1, <1>3, <1>4, <3>1, <3>2
  <2>2. \A u \in U : (\E i \in lo..hi : q[i] = u) \/ u \in H \/ u = top
    BY <1>8
  <2>3. Pipeline(lo, hi + 1, r, H, U, E, top, Slack)
    BY <1>1, <1>5, <1>6, <1>7, <1>9, <2>1, <2>2, PipePublished
  <2> QED
    BY <1>10, <2>3
<1> QED
  BY <1>11

\* The writer turns the first n identifiers of the channel into the PUBRELs of S, which
\* otherwise has no more than a DISCONNECT, and P2 is what the channel keeps.
Releases(S, P, P2, n) ==
    /\ n \in 0..Len(P) /\ n <= Len(S)
    /\ \A i \in 1..n : S[i].id = P[i]
    /\ \A i \in (n + 1)..Len(S) : S[i].id = 0
    /\ \A i \in 1..Len(S) : S[i].type # "PUBLISH"
    /\ Len(P2) = Len(P) - n
    /\ \A i \in 1..Len(P2) : P2[i] = P[n + i]

Distinct(P) == \A i, j \in 1..Len(P) : i < j => P[i] # P[j]

\* drain_pubrels and the shutdown write PUBRELs, and the shutdown a DISCONNECT.
LEMMA ReleasedLinesUp ==
  ASSUME QoS # 0, NEW F \in Seq(FromBroker), NEW T \in Seq(ToBroker), NEW inf \in [Ids -> Nat],
         NEW P \in Seq(Ids), NEW top \in Nat, LinesUp(inf, F, T, P, top), Injective(inf),
         Unaccounted(inf, F, T, P) = {}, Distinct(P), \A i \in 1..Len(P) : inf[P[i]] # NoMsg,
         NEW S \in Seq(ToBroker), NEW P2 \in Seq(Ids), NEW n, Releases(S, P, P2, n)
  PROVE  LinesUp(inf, F, T \o S, P2, top)
<1> DEFINE q == PipeOf(inf, F, T)
           T2 == T \o S
           r == PipeOf(inf, F, T2)
           H == HandedOf(inf, P)
           G == HandedOf(inf, P2)
           U == UnansweredOf(inf)
           D == FirstsOf(inf, F, T)
           E == FirstsOf(inf, F, T2)
           lo == 1 - Len(F)
           hi == Len(T)
           end == Len(T) + Len(S)
<1>1. /\ Pipeline(lo, hi, q, H, U, D, top, Slack) /\ lo \in Int /\ hi \in Int /\ Slack \in Nat
      /\ \A i \in lo..hi : q[i] = MsgOf(inf, IdAt(F, T, i)) /\ (IdAt(F, T, i) = 0 \/ IdAt(F, T, i) \in Ids)
  BY LinesUpMeans
<1>2. /\ T2 \in Seq(ToBroker) /\ Len(T2) = end /\ Len(T) \in Nat /\ Len(S) \in Nat /\ end \in Int /\ hi <= end
      /\ lo <= hi + 1
      /\ \A i \in 1..Len(S) : IdAt(F, T2, hi + i) = S[i].id
      /\ \A i \in lo..hi : IdAt(F, T2, i) = IdAt(F, T, i)
  BY PlacesAfterWrite
<1>3. \A i \in lo..end : r[i] = MsgOf(inf, IdAt(F, T2, i))
  <2> HIDE DEF T2
  <2> QED
    BY <1>2 DEF PipeOf
<1>4. E \subseteq D
  <2>1. \A i \in 1..Len(S) : S[i].type = "PUBLISH" => MsgOf(inf, S[i].id) \in {}
    BY DEF Releases
  <2>2. E \subseteq D \cup {}
    BY <2>1, FirstsAfterWrite
  <2> QED
    BY <2>2
<1>5. \A i \in lo..hi : r[i] = q[i]
  <2>1. \A i \in lo..hi : i \in lo..end
    BY <1>1, <1>2
  <2> HIDE DEF r, q, T2, lo, hi, end
  <2> QED
    BY <1>1, <1>2, <1>3, <2>1
<1>6. \A i \in (hi + 1)..end : i - hi \in 1..Len(S) /\ r[i] = MsgOf(inf, S[i - hi].id)
  <2> SUFFICES ASSUME NEW i \in (hi + 1)..end PROVE i - hi \in 1..Len(S) /\ r[i] = MsgOf(inf, S[i - hi].id)
    OBVIOUS
  <2>1. i - hi \in 1..Len(S) /\ hi + (i - hi) = i /\ i \in lo..end
    BY <1>2
  <2>2. IdAt(F, T2, hi + (i - hi)) = S[i - hi].id
    BY <1>2, <2>1
  <2> QED
    BY <1>3, <2>1, <2>2
<1>7. \A k \in 1..Len(P) : P[k] \in Ids /\ P[k] # 0 /\ inf[P[k]] \in H
  <2>1. \A k \in 1..Len(P) : P[k] \in Ids
    OBVIOUS
  <2> QED
    BY <2>1 DEF HandedOf, Ids
<1>8. n \in Nat /\ n <= Len(P) /\ Len(P) \in Nat /\ \A k \in 1..n : k \in 1..Len(P) /\ S[k].id = P[k]
  BY DEF Releases
<1>9. \A k \in 1..Len(S) : (k \in 1..n /\ MsgOf(inf, S[k].id) = inf[P[k]]) \/ (~(k \in 1..n) /\ MsgOf(inf, S[k].id) = NoMsg)
  <2>1. \A k \in 1..Len(S) : k \in 1..n \/ (~(k \in 1..n) /\ k \in (n + 1)..Len(S))
    BY <1>8
  <2> SUFFICES ASSUME NEW k \in 1..Len(S)
               PROVE  \/ k \in 1..n /\ MsgOf(inf, S[k].id) = inf[P[k]]
                      \/ ~(k \in 1..n) /\ MsgOf(inf, S[k].id) = NoMsg
    OBVIOUS
  <2>2. CASE k \in 1..n
    <3>1. S[k].id = P[k] /\ P[k] # 0
      BY <1>7, <1>8, <2>2
    <3> QED
      BY <2>2, <3>1 DEF MsgOf
  <2>3. CASE ~(k \in 1..n)
    <3>1. S[k].id = 0
      BY <2>1, <2>3 DEF Releases
    <3> QED
      BY <2>3, <3>1 DEF MsgOf
  <2> QED
    BY <2>2, <2>3
<1>10. G = {inf[P2[i]] : i \in 1..Len(P2)} /\ \A i \in 1..Len(P2) : n + i \in 1..Len(P) /\ P2[i] = P[n + i]
  <2>1. Len(P2) = Len(P) - n /\ \A i \in 1..Len(P2) : P2[i] = P[n + i]
    BY DEF Releases
  <2> QED
    BY <1>8, <2>1 DEF HandedOf
<1>11. G \subseteq H
  <2> SUFFICES ASSUME NEW i \in 1..Len(P2) PROVE inf[P2[i]] \in H
    BY <1>10
  <2> QED
    BY <1>7, <1>10
<1>12. \A k \in 1..n : inf[P[k]] \notin G
  <2> SUFFICES ASSUME NEW k \in 1..n, NEW i \in 1..Len(P2) PROVE inf[P[k]] # inf[P2[i]]
    BY <1>10
  <2>1. k \in 1..Len(P) /\ n + i \in 1..Len(P) /\ k < n + i /\ P2[i] = P[n + i]
    BY <1>8, <1>10
  <2>2. P[k] # P[n + i]
    BY <2>1 DEF Distinct
  <2> QED
    BY <1>7, <2>1, <2>2 DEF Injective
<1>13. NoMsg \notin D /\ \A h \in H : h \notin D
  BY FirstsUnderWay
<1>14. \A i \in (hi + 1)..end : r[i] = NoMsg \/ (r[i] \in H /\ r[i] \notin G /\ r[i] \notin D)
  <2> HIDE DEF H, G, D, r, hi, end
  <2> SUFFICES ASSUME NEW i \in (hi + 1)..end
               PROVE  r[i] = NoMsg \/ (r[i] \in H /\ r[i] \notin G /\ r[i] \notin D)
    OBVIOUS
  <2> DEFINE k == i - hi
  <2>1. k \in 1..Len(S) /\ r[i] = MsgOf(inf, S[k].id)
    BY <1>6
  <2> HIDE DEF k
  <2>2. CASE k \in 1..n
    <3>1. r[i] = inf[P[k]] /\ k \in 1..Len(P)
      BY <1>8, <1>9, <2>1, <2>2
    <3>2. inf[P[k]] \in H /\ inf[P[k]] \notin G
      BY <1>7, <1>12, <2>2, <3>1
    <3> QED
      BY <1>13, <3>1, <3>2
  <2>3. CASE ~(k \in 1..n)
    BY <1>9, <2>1, <2>3
  <2> QED
    BY <2>2, <2>3
<1>15. ASSUME NEW i \in (hi + 1)..end, NEW j \in (hi + 1)..end, i < j, r[i] # NoMsg PROVE r[i] # r[j]
  <2>1. i - hi \in 1..Len(S) /\ j - hi \in 1..Len(S) /\ i - hi < j - hi
    BY <1>1, <1>2, <1>6, <1>15
  <2>2. i - hi \in 1..n /\ r[i] = inf[P[i - hi]]
    BY <1>6, <1>9, <1>15
  <2>3. CASE j - hi \in 1..n
    <3>1. r[j] = inf[P[j - hi]]
      BY <1>6, <1>9, <2>3
    <3>2. P[i - hi] # P[j - hi]
      BY <1>8, <2>1, <2>2, <2>3 DEF Distinct
    <3>3. P[i - hi] \in Ids /\ P[j - hi] \in Ids
      BY <1>7, <1>8, <2>2, <2>3
    <3>4. inf[P[i - hi]] # NoMsg
      BY <1>15, <2>2
    <3>5. inf[P[i - hi]] # inf[P[j - hi]]
      BY <3>2, <3>3, <3>4, Zenon DEF Injective
    <3> QED
      BY <2>2, <3>1, <3>5, Zenon
  <2>4. CASE ~(j - hi \in 1..n)
    BY <1>6, <1>9, <1>15, <2>4
  <2> QED
    BY <2>3, <2>4
<1>16. ASSUME NEW u \in U PROVE (\E i \in lo..hi : q[i] = u) \/ u \in H
  <2>1. PICK id \in Ids : inf[id] = u /\ inf[id] # NoMsg
    BY <1>16 DEF UnansweredOf
  <2>2. id \in UnderWay(F, T, P)
    BY <2>1 DEF Unaccounted
  <2> QED
    BY <2>1, <2>2, Located
<1>17. Pipeline(lo, end, r, G, U, D, top, Slack)
  <2> HIDE DEF q, r, T2, H, G, U, D, E, lo, hi, end
  <2> QED
    <3>1. Released(hi, end, r, H, G, D)
      BY <1>14, <1>15 DEF Released
    <3>2. Covers(lo, hi, q, H, U, {})
      BY <1>16 DEF Covers
    <3> QED
      BY <1>1, <1>2, <1>5, <1>11, <1>13, <3>1, <3>2, PipeReleased
<1>18. Pipeline(lo, end, r, G, U, E, top, Slack)
  <2> HIDE DEF q, r, T2, H, G, U, D, E, lo, hi, end
  <2>1. (\A i \in lo..end : r[i] = r[i]) /\ G \subseteq G
    OBVIOUS
  <2> QED
    BY <1>1, <1>2, <1>4, <1>17, <2>1, PipeThinned
<1> QED
  BY <1>2, <1>18 DEF LinesUp

\* The same packets, as seen from another in_flight that agrees on their identifiers.
LEMMA SamePackets ==
  ASSUME QoS # 0, NEW F \in Seq(FromBroker), NEW T \in Seq(ToBroker), NEW inf, NEW inf2, NEW P \in Seq(Ids),
         \A id \in UnderWay(F, T, P) : MsgOf(inf2, id) = MsgOf(inf, id)
  PROVE  /\ \A i \in (1 - Len(F))..Len(T) : MsgOf(inf2, IdAt(F, T, i)) = MsgOf(inf, IdAt(F, T, i))
         /\ HandedOf(inf2, P) \subseteq HandedOf(inf, P)
         /\ FirstsOf(inf2, F, T) \subseteq FirstsOf(inf, F, T)
<1>1. ASSUME NEW i \in (1 - Len(F))..Len(T) PROVE MsgOf(inf2, IdAt(F, T, i)) = MsgOf(inf, IdAt(F, T, i))
  <2>1. IdAt(F, T, i) \in UnderWay(F, T, P)
    BY UnderWayPlace
  <2> QED
    BY <2>1
<1>2. HandedOf(inf2, P) \subseteq HandedOf(inf, P)
  <2> SUFFICES ASSUME NEW i \in 1..Len(P) PROVE inf2[P[i]] \in HandedOf(inf, P)
    BY DEF HandedOf
  <2>1. P[i] \in Ids /\ P[i] # 0 /\ P[i] \in UnderWay(F, T, P)
    <3>1. P[i] \in Ids
      OBVIOUS
    <3>2. P[i] \in UnderWay(F, T, P)
      BY Zenon DEF UnderWay
    <3> QED
      BY <3>1, <3>2 DEF Ids
  <2>2. inf2[P[i]] = inf[P[i]]
    BY <2>1 DEF MsgOf
  <2> QED
    BY <2>2 DEF HandedOf
<1>3. \A i \in 1..Len(F) : MsgOf(inf2, F[i].id) = MsgOf(inf, F[i].id)
  <2>1. \A i \in 1..Len(F) : F[i].id \in UnderWay(F, T, P)
    BY DEF UnderWay, IdsOf
  <2> QED
    BY <2>1
<1>4. \A i \in 1..Len(T) : MsgOf(inf2, T[i].id) = MsgOf(inf, T[i].id)
  <2>1. \A i \in 1..Len(T) : T[i].id \in UnderWay(F, T, P)
    BY DEF UnderWay, IdsOf
  <2> QED
    BY <2>1
<1>5. FirstsOf(inf2, F, T) \subseteq FirstsOf(inf, F, T)
  BY <1>3, <1>4, FirstsHold, FirstsWithin
<1> QED
  BY <1>1, <1>2, <1>5

\* The writer enters the next message into in_flight.
LEMMA InsertedLinesUp ==
  ASSUME QoS # 0, NEW F \in Seq(FromBroker), NEW T \in Seq(ToBroker), NEW inf \in [Ids -> Nat],
         NEW P \in Seq(Ids), NEW top \in Nat, LinesUp(inf, F, T, P, top),
         NEW b \in Ids, inf[b] = NoMsg, b \notin UnderWay(F, T, P),
         \A h \in HandedOf(inf, P) : top < h + Slack
  PROVE  LinesUp([inf EXCEPT ![b] = top + 1], F, T, P, top + 1)
<1> DEFINE inf2 == [inf EXCEPT ![b] = top + 1]
           q == PipeOf(inf, F, T)
           H == HandedOf(inf, P)
           U == UnansweredOf(inf)
           V == U \cup {top + 1}
           D == FirstsOf(inf, F, T)
           lo == 1 - Len(F)
           hi == Len(T)
           next == top + 1
<1>1. /\ Pipeline(lo, hi, q, H, U, D, top, Slack) /\ lo \in Int /\ hi \in Int /\ Slack \in Nat
      /\ \A i \in lo..hi : q[i] = MsgOf(inf, IdAt(F, T, i)) /\ (IdAt(F, T, i) = 0 \/ IdAt(F, T, i) \in Ids)
  BY LinesUpMeans
<1>2. \A k \in Ids : inf2[k] = IF k = b THEN next ELSE inf[k]
  OBVIOUS
<1>3. \A id \in UnderWay(F, T, P) : MsgOf(inf2, id) = MsgOf(inf, id)
  <2>1. ASSUME NEW id \in UnderWay(F, T, P) PROVE id = 0 \/ (id \in Ids /\ id # b)
    <3>1. \/ \E k \in lo..hi : IdAt(F, T, k) = id
          \/ \E k \in 1..Len(P) : P[k] = id
      BY UnderWayPlace
    <3>2. \A k \in 1..Len(P) : P[k] \in Ids
      OBVIOUS
    <3> QED
      BY <1>1, <3>1, <3>2
  <2> HIDE DEF inf2
  <2> QED
    BY <1>2, <2>1 DEF MsgOf
<1>4. UnansweredOf(inf2) = V
  <2>1. next # NoMsg /\ \A k \in Ids : inf2[k] # NoMsg <=> (k = b \/ inf[k] # NoMsg)
    BY <1>2 DEF NoMsg
  <2> HIDE DEF inf2, next
  <2>2. \A m : m \in UnansweredOf(inf2) <=> \E k \in Ids : inf2[k] # NoMsg /\ m = inf2[k]
    BY DEF UnansweredOf
  <2>3. \A m : m \in U <=> \E k \in Ids : inf[k] # NoMsg /\ m = inf[k]
    BY DEF UnansweredOf
  <2>4. \A m : m \in UnansweredOf(inf2) <=> m \in U \/ m = next
    BY <1>2, <2>1, <2>2, <2>3
  <2> QED
    BY <2>4 DEF next
<1>5. Pipeline(lo, hi, q, H, V, D, next, Slack)
  BY <1>1, PipeInserted
<1>6. /\ \A i \in lo..hi : q[i] = MsgOf(inf2, IdAt(F, T, i))
      /\ HandedOf(inf2, P) \subseteq H /\ FirstsOf(inf2, F, T) \subseteq D
  <2> HIDE DEF inf2
  <2>1. /\ \A i \in lo..hi : MsgOf(inf2, IdAt(F, T, i)) = MsgOf(inf, IdAt(F, T, i))
        /\ HandedOf(inf2, P) \subseteq H /\ FirstsOf(inf2, F, T) \subseteq D
    BY <1>3, SamePackets
  <2> HIDE DEF q, H, D, lo, hi
  <2> QED
    BY <1>1, <2>1
<1>7. next \in Nat /\ lo = 1 - Len(F) /\ hi = Len(T)
  OBVIOUS
<1>8. LinesUp(inf2, F, T, P, next)
  <2> HIDE DEF inf2, q, H, V, D, lo, hi, next
  <2> QED
    BY <1>4, <1>5, <1>6, <1>7, LinesUpWith
<1> QED
  BY <1>8

\* The write of a message fails: its entry is removed, and the channel goes with run.
LEMMA WithdrawnLinesUp ==
  ASSUME QoS # 0, NEW F \in Seq(FromBroker), NEW T \in Seq(ToBroker), NEW inf \in [Ids -> Nat],
         NEW P \in Seq(Ids), NEW top \in Nat, LinesUp(inf, F, T, P, top + 1), Injective(inf),
         NEW b \in Ids, inf[b] = top + 1, b \notin UnderWay(F, T, P)
  PROVE  LinesUp([inf EXCEPT ![b] = NoMsg], F, T, <<>>, top)
<1> DEFINE inf2 == [inf EXCEPT ![b] = NoMsg]
           q == PipeOf(inf, F, T)
           H == HandedOf(inf, P)
           U == UnansweredOf(inf)
           V == U \ {top + 1}
           D == FirstsOf(inf, F, T)
           lo == 1 - Len(F)
           hi == Len(T)
<1>0. top + 1 \in Nat /\ inf[b] # NoMsg
  BY DEF NoMsg
<1>1. /\ Pipeline(lo, hi, q, H, U, D, top + 1, Slack) /\ lo \in Int /\ hi \in Int /\ Slack \in Nat
      /\ \A i \in lo..hi : q[i] = MsgOf(inf, IdAt(F, T, i)) /\ (IdAt(F, T, i) = 0 \/ IdAt(F, T, i) \in Ids)
  BY <1>0, LinesUpMeans
<1>2. \A k \in Ids : inf2[k] = IF k = b THEN NoMsg ELSE inf[k]
  OBVIOUS
<1>3. \A id \in UnderWay(F, T, P) : MsgOf(inf2, id) = MsgOf(inf, id)
  <2>1. ASSUME NEW id \in UnderWay(F, T, P) PROVE id = 0 \/ (id \in Ids /\ id # b)
    <3>1. \/ \E k \in lo..hi : IdAt(F, T, k) = id
          \/ \E k \in 1..Len(P) : P[k] = id
      BY UnderWayPlace
    <3>2. \A k \in 1..Len(P) : P[k] \in Ids
      OBVIOUS
    <3> QED
      BY <1>1, <3>1, <3>2
  <2> HIDE DEF inf2
  <2> QED
    BY <1>2, <2>1 DEF MsgOf
<1>4. UnansweredOf(inf2) = V
  BY <1>0, UnansweredLess
<1>5. \A i \in lo..hi : q[i] # top + 1
  BY <1>0, Located
<1>6. Pipeline(lo, hi, q, {}, V, D, top, Slack)
  <2> HIDE DEF q, H, U, D, lo, hi
  <2> QED
    BY <1>1, <1>5, PipeWithdrawn
<1>7. \A i \in lo..hi : q[i] = MsgOf(inf2, IdAt(F, T, i))
  <2> HIDE DEF inf2
  <2>1. /\ \A i \in lo..hi : MsgOf(inf2, IdAt(F, T, i)) = MsgOf(inf, IdAt(F, T, i))
        /\ HandedOf(inf2, P) \subseteq H /\ FirstsOf(inf2, F, T) \subseteq D
    BY <1>3, SamePackets
  <2> HIDE DEF q, lo, hi
  <2> QED
    BY <1>1, <2>1
<1>8. HandedOf(inf2, <<>>) \subseteq {}
  <2>1. 1..Len(<<>>) = {}
    OBVIOUS
  <2> HIDE DEF inf2
  <2> QED
    BY <2>1 DEF HandedOf
<1>9. lo = 1 - Len(F) /\ hi = Len(T) /\ FirstsOf(inf2, F, T) \subseteq D
  <2> HIDE DEF inf2
  <2> QED
    BY <1>3, SamePackets
<1>10. LinesUp(inf2, F, T, <<>>, top)
  <2> DEFINE none == {}
             empty == <<>>
  <2>1. HandedOf(inf2, empty) \subseteq none /\ Pipeline(lo, hi, q, none, V, D, top, Slack)
    BY <1>6, <1>8
  <2>2. LinesUp(inf2, F, T, empty, top)
    <3> HIDE DEF inf2, q, H, V, D, lo, hi, none, empty
    <3> QED
      BY <1>4, <1>7, <1>9, <2>1, LinesUpWith
  <2> QED
    BY <2>2
<1> QED
  BY <1>10

\* What of the first halves is left when the broker has taken a packet, with answer y.
LEMMA FirstsAfterReply ==
  ASSUME NEW F \in Seq(FromBroker), NEW T \in Seq(ToBroker), T # <<>>, NEW y \in FromBroker, y.id = T[1].id,
         y.type \in {"PUBACK", "PUBREC"} => T[1].type = "PUBLISH", NEW inf
  PROVE  FirstsOf(inf, Append(F, y), Tail(T)) \subseteq FirstsOf(inf, F, T)
<1>1. /\ Len(Append(F, y)) = Len(F) + 1 /\ Len(Tail(T)) = Len(T) - 1
      /\ Len(F) \in Nat /\ Len(T) \in Nat \ {0}
      /\ Append(F, y)[Len(F) + 1] = y /\ \A i \in 1..Len(F) : Append(F, y)[i] = F[i]
      /\ \A i \in 1..Len(Tail(T)) : Tail(T)[i] = T[i + 1]
  BY PlacesAfterReply
<1>2. ASSUME NEW i \in 1..Len(Append(F, y)), Append(F, y)[i].type \in {"PUBACK", "PUBREC"}
      PROVE  MsgOf(inf, Append(F, y)[i].id) = NoMsg \/ MsgOf(inf, Append(F, y)[i].id) \in FirstsOf(inf, F, T)
  <2>1. i \in 1..Len(F) \/ i = Len(F) + 1
    BY <1>1
  <2>2. CASE i \in 1..Len(F)
    <3>1. Append(F, y)[i] = F[i]
      BY <1>1, <2>2
    <3> QED
      BY <1>2, <2>2, <3>1, FirstsHold
  <2>3. CASE i = Len(F) + 1
    <3>1. Append(F, y)[i] = y /\ 1 \in 1..Len(T)
      BY <1>1, <2>3
    <3> QED
      BY <1>2, <3>1, FirstsHold
  <2> QED
    BY <2>1, <2>2, <2>3
<1>3. ASSUME NEW i \in 1..Len(Tail(T)), Tail(T)[i].type = "PUBLISH"
      PROVE  MsgOf(inf, Tail(T)[i].id) = NoMsg \/ MsgOf(inf, Tail(T)[i].id) \in FirstsOf(inf, F, T)
  <2>1. i + 1 \in 1..Len(T) /\ Tail(T)[i] = T[i + 1]
    BY <1>1
  <2> QED
    BY <1>3, <2>1, FirstsHold
<1> QED
  BY <1>2, <1>3, FirstsWithin

\* The broker answers a packet.
LEMMA RepliedLinesUp ==
  ASSUME QoS # 0, NEW F \in Seq(FromBroker), NEW T \in Seq(ToBroker), NEW inf \in [Ids -> Nat],
         NEW P \in Seq(Ids), NEW top \in Nat, LinesUp(inf, F, T, P, top),
         T # <<>>, NEW y \in FromBroker, y.id = T[1].id,
         y.type \in {"PUBACK", "PUBREC"} => T[1].type = "PUBLISH"
  PROVE  LinesUp(inf, Append(F, y), Tail(T), P, top)
<1> DEFINE F2 == Append(F, y)
           T2 == Tail(T)
           q == PipeOf(inf, F, T)
           r == PipeOf(inf, F2, T2)
           H == HandedOf(inf, P)
           U == UnansweredOf(inf)
           D == FirstsOf(inf, F, T)
           E == FirstsOf(inf, F2, T2)
           lo == 1 - Len(F)
           hi == Len(T)
           first == 0 - Len(F)
           end == Len(T) - 1
           e == [i \in Int |-> i + 1]
<1>1. /\ Pipeline(lo, hi, q, H, U, D, top, Slack) /\ lo \in Int /\ hi \in Int /\ Slack \in Nat
      /\ \A i \in lo..hi : q[i] = MsgOf(inf, IdAt(F, T, i)) /\ (IdAt(F, T, i) = 0 \/ IdAt(F, T, i) \in Ids)
  BY LinesUpMeans
<1>2. /\ F2 \in Seq(FromBroker) /\ T2 \in Seq(ToBroker)
      /\ Len(F2) = Len(F) + 1 /\ Len(T2) = Len(T) - 1 /\ Len(F) \in Nat /\ Len(T) \in Nat \ {0}
      /\ \A i \in first..end : IdAt(F2, T2, i) = IdAt(F, T, i + 1)
  BY PlacesAfterReply
<1>3. /\ first \in Int /\ end \in Int /\ first = 1 - Len(F2) /\ end = Len(T2)
      /\ \A i \in first..end : i + 1 \in lo..hi /\ e[i] = i + 1
      /\ \A k \in lo..hi : k - 1 \in first..end /\ (k - 1) + 1 = k
  BY <1>2
<1>4. E \subseteq D /\ NoMsg \notin E
  <2>1. NoMsg \notin E
    BY DEF FirstsOf
  <2> QED
    BY <2>1, FirstsAfterReply
<1>5. \A i \in first..end : r[i] = q[i + 1]
  <2>1. \A i \in first..end : r[i] = MsgOf(inf, IdAt(F2, T2, i))
    <3> HIDE DEF F2, T2
    <3> QED
      BY <1>3 DEF PipeOf
  <2> HIDE DEF r, q, first, end, lo, hi, F2, T2
  <2> SUFFICES ASSUME NEW i \in first..end PROVE r[i] = q[i + 1]
    OBVIOUS
  <2>2. i + 1 \in lo..hi
    BY <1>3
  <2>3. q[i + 1] = MsgOf(inf, IdAt(F, T, i + 1))
    BY <1>1, <2>2
  <2> QED
    BY <1>1, <1>2, <1>3, <2>1, <2>2, <2>3
<1>6. SameOrder(lo, hi, q, first, end, r, e)
  <2> HIDE DEF r, q, first, end, lo, hi, e
  <2>1. \A i \in first..end : e[i] \in lo..hi /\ r[i] = q[e[i]]
    BY <1>3, <1>5
  <2>2. \A i, j \in first..end : i < j => e[i] < e[j]
    BY <1>3
  <2>3. ASSUME NEW k \in lo..hi PROVE \E i \in first..end : e[i] = k /\ r[i] = q[k]
    <3>1. k - 1 \in first..end /\ (k - 1) + 1 = k
      BY <1>3
    <3>2. e[k - 1] = k
      BY <1>3, <3>1
    <3>3. r[k - 1] = q[k]
      BY <1>5, <3>1
    <3> QED
      BY <3>1, <3>2, <3>3
  <2> QED
    BY <2>1, <2>2, <2>3 DEF SameOrder
<1>7. Pipeline(first, end, r, H, U, E, top, Slack)
  <2> HIDE DEF r, q, first, end, lo, hi, e, H, U, D, E
  <2>1. H \subseteq H
    OBVIOUS
  <2> QED
    BY <1>1, <1>3, <1>4, <1>6, <2>1, PipeMoved
<1> QED
  BY <1>3, <1>7 DEF LinesUp

\* The places after the broker has sent a DISCONNECT of its own.
LEMMA PlacesAfterLoss ==
  ASSUME NEW F \in Seq(FromBroker), NEW T \in Seq(ToBroker), NEW y \in FromBroker, y.id = 0
  PROVE  /\ Append(F, y) \in Seq(FromBroker) /\ Len(Append(F, y)) = Len(F) + 1
         /\ Len(F) \in Nat /\ Len(T) \in Nat
         /\ Append(F, y)[Len(F) + 1] = y /\ \A i \in 1..Len(F) : Append(F, y)[i] = F[i]
         /\ \A i \in (0 - Len(F))..Len(T) :
              IdAt(Append(F, y), T, i) = IF i < 0 THEN IdAt(F, T, i + 1) ELSE IF i = 0 THEN 0 ELSE IdAt(F, T, i)
<1>1. /\ Append(F, y) \in Seq(FromBroker) /\ Len(Append(F, y)) = Len(F) + 1
      /\ Len(F) \in Nat /\ Len(T) \in Nat
      /\ Append(F, y)[Len(F) + 1] = y /\ \A i \in 1..Len(F) : Append(F, y)[i] = F[i]
  OBVIOUS
<1>2. ASSUME NEW i \in (0 - Len(F))..Len(T)
      PROVE  IdAt(Append(F, y), T, i) = IF i < 0 THEN IdAt(F, T, i + 1) ELSE IF i = 0 THEN 0 ELSE IdAt(F, T, i)
  <2>1. CASE i < 0
    <3>1. i <= 0 /\ i + 1 <= 0 /\ i + Len(Append(F, y)) = (i + 1) + Len(F) /\ (i + 1) + Len(F) \in 1..Len(F)
      BY <1>1, <2>1
    <3> QED
      BY <1>1, <2>1, <3>1 DEF IdAt
  <2>2. CASE i = 0
    <3>1. i + Len(Append(F, y)) = Len(F) + 1
      BY <1>1, <2>2
    <3> QED
      BY <1>1, <2>2, <3>1 DEF IdAt
  <2>3. CASE i > 0
    <3>1. ~(i <= 0) /\ ~(i < 0) /\ i # 0
      BY <1>1, <2>3
    <3> QED
      BY <3>1 DEF IdAt
  <2> QED
    BY <1>1, <2>1, <2>2, <2>3
<1> QED
  BY <1>1, <1>2

\* The connection is lost, after a DISCONNECT of the broker.
LEMMA LostLinesUp ==
  ASSUME QoS # 0, NEW F \in Seq(FromBroker), NEW T \in Seq(ToBroker), NEW inf \in [Ids -> Nat],
         NEW P \in Seq(Ids), NEW top \in Nat, LinesUp(inf, F, T, P, top),
         NEW y \in FromBroker, y.id = 0
  PROVE  LinesUp(inf, Append(F, y), T, P, top)
<1> DEFINE F2 == Append(F, y)
           q == PipeOf(inf, F, T)
           r == PipeOf(inf, F2, T)
           H == HandedOf(inf, P)
           U == UnansweredOf(inf)
           D == FirstsOf(inf, F, T)
           E == FirstsOf(inf, F2, T)
           lo == 1 - Len(F)
           hi == Len(T)
           first == 0 - Len(F)
           e == [i \in Int |-> IF i < 0 THEN i + 1 ELSE i]
<1>1. /\ Pipeline(lo, hi, q, H, U, D, top, Slack) /\ lo \in Int /\ hi \in Int /\ Slack \in Nat
      /\ \A i \in lo..hi : q[i] = MsgOf(inf, IdAt(F, T, i)) /\ (IdAt(F, T, i) = 0 \/ IdAt(F, T, i) \in Ids)
  BY LinesUpMeans
<1>2. /\ F2 \in Seq(FromBroker) /\ Len(F2) = Len(F) + 1 /\ Len(F) \in Nat /\ Len(T) \in Nat
      /\ F2[Len(F) + 1] = y /\ \A i \in 1..Len(F) : F2[i] = F[i]
      /\ \A i \in first..hi : IdAt(F2, T, i) = IF i < 0 THEN IdAt(F, T, i + 1) ELSE IF i = 0 THEN 0 ELSE IdAt(F, T, i)
  BY PlacesAfterLoss
<1>3. /\ first \in Int /\ first = 1 - Len(F2) /\ lo <= 1 /\ first + 1 = lo /\ hi \in Nat
      /\ \A i \in first..hi : e[i] = IF i < 0 THEN i + 1 ELSE i
      /\ MsgOf(inf, 0) = NoMsg
  BY <1>2 DEF MsgOf
<1>4. E \subseteq D /\ NoMsg \notin E
  <2>1. ASSUME NEW i \in 1..Len(F2), F2[i].type \in {"PUBACK", "PUBREC"}
        PROVE  MsgOf(inf, F2[i].id) = NoMsg \/ MsgOf(inf, F2[i].id) \in D
    <3> HIDE DEF F2
    <3>1. i \in 1..Len(F) \/ i = Len(F) + 1
      BY <1>2
    <3>2. CASE i \in 1..Len(F)
      BY <1>2, <2>1, <3>2, FirstsHold
    <3>3. CASE i = Len(F) + 1
      BY <1>2, <1>3, <3>3
    <3> QED
      BY <3>1, <3>2, <3>3
  <2>2. \A i \in 1..Len(T) : T[i].type = "PUBLISH" => MsgOf(inf, T[i].id) = NoMsg \/ MsgOf(inf, T[i].id) \in D
    BY FirstsHold
  <2> HIDE DEF F2
  <2> QED
    BY <2>1, <2>2, FirstsWithin
<1>5. \A i \in first..hi : r[i] = MsgOf(inf, IdAt(F2, T, i))
  <2> HIDE DEF F2
  <2> QED
    BY <1>3 DEF PipeOf
<1> HIDE DEF F2, r, q, first, lo, hi, e, H, U, D, E
<1>6. \A i \in first..hi : r[i] = NoMsg \/ (e[i] \in lo..hi /\ r[i] = q[e[i]])
  <2> SUFFICES ASSUME NEW i \in first..hi PROVE r[i] = NoMsg \/ (e[i] \in lo..hi /\ r[i] = q[e[i]])
    OBVIOUS
  <2>1. CASE i < 0
    <3>1. e[i] = i + 1 /\ i + 1 \in lo..hi
      BY <1>1, <1>3, <2>1
    <3>2. r[i] = MsgOf(inf, IdAt(F, T, i + 1))
      BY <1>2, <1>5, <2>1
    <3> QED
      BY <1>1, <3>1, <3>2
  <2>2. CASE i = 0
    BY <1>2, <1>3, <1>5, <2>2
  <2>3. CASE i > 0
    <3>1. e[i] = i /\ i \in lo..hi /\ ~(i < 0) /\ i # 0
      BY <1>1, <1>3, <2>3
    <3>2. r[i] = MsgOf(inf, IdAt(F, T, i))
      BY <1>2, <1>5, <3>1
    <3> QED
      BY <1>1, <3>1, <3>2
  <2> QED
    BY <1>3, <2>1, <2>2, <2>3
<1>7. r[0] = NoMsg
  <2>1. 0 \in first..hi
    BY <1>1, <1>2, <1>3 DEF first
  <2> QED
    BY <1>2, <1>3, <1>5, <2>1
<1>8. ASSUME NEW i \in first..hi, NEW j \in first..hi, i < j, r[i] # NoMsg, r[j] # NoMsg PROVE e[i] < e[j]
  <2>1. i # 0 /\ j # 0 /\ i \in Int /\ j \in Int
    BY <1>1, <1>3, <1>7, <1>8
  <2>2. e[i] = (IF i < 0 THEN i + 1 ELSE i) /\ e[j] = (IF j < 0 THEN j + 1 ELSE j)
    BY <1>3
  <2> QED
    BY <1>8, <2>1, <2>2
<1>9. ASSUME NEW k \in lo..hi, q[k] # NoMsg PROVE \E i \in first..hi : e[i] = k /\ r[i] = q[k]
  <2>1. CASE k <= 0
    <3>1. k - 1 \in first..hi /\ k - 1 < 0 /\ (k - 1) + 1 = k
      BY <1>1, <1>3, <2>1
    <3>2. e[k - 1] = k
      BY <1>3, <3>1
    <3>3. r[k - 1] = MsgOf(inf, IdAt(F, T, k))
      BY <1>2, <1>5, <3>1
    <3> QED
      BY <1>1, <3>1, <3>2, <3>3
  <2>2. CASE ~(k <= 0)
    <3>1. k \in first..hi /\ ~(k < 0) /\ k # 0
      BY <1>1, <1>3, <2>2
    <3>2. e[k] = k /\ r[k] = MsgOf(inf, IdAt(F, T, k))
      BY <1>2, <1>3, <1>5, <3>1
    <3> QED
      BY <1>1, <3>1, <3>2
  <2> QED
    BY <2>1, <2>2
<1>10. SameOrder(lo, hi, q, first, hi, r, e)
  BY <1>6, <1>8, <1>9 DEF SameOrder
<1>11. Pipeline(first, hi, r, H, U, E, top, Slack)
  <2>1. H \subseteq H
    OBVIOUS
  <2> QED
    BY <1>1, <1>3, <1>4, <1>10, <2>1, PipeMoved
<1>12. LinesUp(inf, F2, T, P, top)
  BY <1>3, <1>11 DEF LinesUp, r, H, U, E, hi
<1> QED
  BY <1>12 DEF F2

\* The broker reads the DISCONNECT and answers nothing.
LEMMA ClosedLinesUp ==
  ASSUME QoS # 0, NEW F \in Seq(FromBroker), NEW T \in Seq(ToBroker), NEW inf \in [Ids -> Nat],
         NEW P \in Seq(Ids), NEW top \in Nat, LinesUp(inf, F, T, P, top),
         T # <<>>, T[1].id = 0
  PROVE  LinesUp(inf, F, Tail(T), P, top)
<1> DEFINE T2 == Tail(T)
           q == PipeOf(inf, F, T)
           r == PipeOf(inf, F, T2)
           H == HandedOf(inf, P)
           U == UnansweredOf(inf)
           D == FirstsOf(inf, F, T)
           E == FirstsOf(inf, F, T2)
           lo == 1 - Len(F)
           hi == Len(T)
           end == Len(T) - 1
           e == [i \in Int |-> IF i <= 0 THEN i ELSE i + 1]
<1>1. /\ Pipeline(lo, hi, q, H, U, D, top, Slack) /\ lo \in Int /\ hi \in Int /\ Slack \in Nat
      /\ \A i \in lo..hi : q[i] = MsgOf(inf, IdAt(F, T, i)) /\ (IdAt(F, T, i) = 0 \/ IdAt(F, T, i) \in Ids)
  BY LinesUpMeans
<1>2. /\ T2 \in Seq(ToBroker) /\ Len(T2) = Len(T) - 1 /\ Len(F) \in Nat /\ Len(T) \in Nat \ {0}
      /\ \A i \in 1..Len(T2) : T2[i] = T[i + 1]
  OBVIOUS
<1>3. /\ end \in Int /\ end = Len(T2) /\ lo <= 1 /\ hi = end + 1 /\ end \in Nat
      /\ \A i \in lo..end : e[i] = IF i <= 0 THEN i ELSE i + 1
      /\ MsgOf(inf, 0) = NoMsg
  BY <1>2 DEF MsgOf
<1>4. E \subseteq D /\ NoMsg \notin E
  <2>1. ASSUME NEW i \in 1..Len(T2), T2[i].type = "PUBLISH"
        PROVE  MsgOf(inf, T2[i].id) = NoMsg \/ MsgOf(inf, T2[i].id) \in D
    <3> HIDE DEF T2
    <3>1. i + 1 \in 1..Len(T) /\ T2[i] = T[i + 1]
      BY <1>2
    <3> QED
      BY <2>1, <3>1, FirstsHold
  <2>2. \A i \in 1..Len(F) : F[i].type \in {"PUBACK", "PUBREC"} => MsgOf(inf, F[i].id) = NoMsg \/ MsgOf(inf, F[i].id) \in D
    BY FirstsHold
  <2> HIDE DEF T2
  <2> QED
    BY <2>1, <2>2, FirstsWithin
<1>5. \A i \in lo..end : r[i] = MsgOf(inf, IdAt(F, T, e[i])) /\ e[i] \in lo..hi
  <2> SUFFICES ASSUME NEW i \in lo..end PROVE r[i] = MsgOf(inf, IdAt(F, T, e[i])) /\ e[i] \in lo..hi
    OBVIOUS
  <2> HIDE DEF T2, e
  <2>1. r[i] = MsgOf(inf, IdAt(F, T2, i))
    BY <1>3 DEF PipeOf
  <2>2. e[i] \in lo..hi
    BY <1>1, <1>3
  <2>3. CASE i <= 0
    BY <1>3, <2>1, <2>2, <2>3 DEF IdAt
  <2>4. CASE ~(i <= 0)
    <3>1. e[i] = i + 1 /\ ~(i + 1 <= 0) /\ i \in 1..Len(T2)
      BY <1>3, <2>4
    <3>2. IdAt(F, T2, i) = T[i + 1].id /\ IdAt(F, T, i + 1) = T[i + 1].id
      BY <1>2, <2>4, <3>1 DEF IdAt
    <3> QED
      BY <2>1, <2>2, <3>1, <3>2
  <2> QED
    BY <2>3, <2>4
<1>6. IdAt(F, T, 1) = 0 /\ 1 \in lo..hi
  BY <1>1, <1>2, <1>3 DEF IdAt
<1> HIDE DEF T2, r, q, end, lo, hi, e, H, U, D, E
<1>7. \A i \in lo..end : e[i] \in lo..hi /\ r[i] = q[e[i]]
  BY <1>1, <1>5
<1>8. \A i, j \in lo..end : i < j => e[i] < e[j]
  BY <1>1, <1>3
<1>9. ASSUME NEW k \in lo..hi, q[k] # NoMsg PROVE \E i \in lo..end : e[i] = k /\ r[i] = q[k]
  <2>1. k # 1
    BY <1>1, <1>3, <1>6, <1>9
  <2>2. CASE k <= 0
    <3>1. k \in lo..end /\ e[k] = k
      BY <1>1, <1>3, <2>2
    <3> QED
      BY <1>7, <3>1
  <2>3. CASE ~(k <= 0)
    <3>1. k - 1 \in lo..end /\ ~(k - 1 <= 0) /\ (k - 1) + 1 = k
      BY <1>1, <1>3, <2>1, <2>3
    <3>2. e[k - 1] = k
      BY <1>3, <3>1
    <3> QED
      BY <1>7, <3>1, <3>2
  <2> QED
    BY <2>2, <2>3
<1>10. SameOrder(lo, hi, q, lo, end, r, e)
  BY <1>7, <1>8, <1>9 DEF SameOrder
<1>11. Pipeline(lo, end, r, H, U, E, top, Slack)
  <2>1. H \subseteq H
    OBVIOUS
  <2> QED
    BY <1>1, <1>3, <1>4, <1>10, <2>1, PipeMoved
<1>12. LinesUp(inf, F, T2, P, top)
  BY <1>3, <1>11 DEF LinesUp, r, H, U, E, lo
<1> QED
  BY <1>12 DEF T2

-----------------------------------------------------------------------------
(***************************************************************************)
(* The invariant.                                                          *)
(***************************************************************************)

\* What the theorems below are about: QoS 1 or 2, a broker that answers each packet once,
\* and at QoS 2 twice as many identifiers as the window has permits.
AnswersOnce == QoS # 0 /\ MaxStray = 0 /\ (QoS = 2 => 2 * Window <= MaxId)

\* The newest message whose PUBLISH was tried, and the newest that was not given up.
Newest == IF wpc \in {"write", "count"} \/ pubErrors > 0 THEN sent + 1 ELSE sent
Top == IF wpc \in {"write", "count"} THEN sent + 1 ELSE sent

\* Identifiers are given out in turn: what in_flight holds under one tells how many
\* messages ago it was given out.
Slots ==
    /\ nextId <= Newest
    /\ (pubErrors > 0 => wpc = "returned")
    /\ \A id \in Ids : inFlight[id] # NoMsg =>
         inFlight[id] = Newest - nextId + id - (IF id > nextId THEN MaxId ELSE 0)

\* The messages are answered in the order of the pipeline, and while the connection is open
\* each message in flight is in it, but for one that is being written.
Order ==
    /\ LinesUp(inFlight, fromBroker, toBroker, pubrels, Top)
    /\ Distinct(pubrels)
    /\ wpc \in {"pace", "acquire", "insert"} => \A h \in HandedOf(inFlight, pubrels) : Top < h + Slack
    /\ wpc = "write" => /\ nextId \in Ids /\ inFlight[nextId] = Top
                        /\ nextId \notin UnderWay(fromBroker, toBroker, pubrels)
    /\ conn = "open" /\ wpc # "returned" =>
         Unaccounted(inFlight, fromBroker, toBroker, pubrels) \subseteq IF wpc = "write" THEN {nextId} ELSE {}

\* What a packet from the broker says of its message.
AnswerTrue(inf, awt, acc, p) ==
    \/ p.type = "DISCONNECT"
    \/ /\ QoS = 1 /\ p.type = "PUBACK"
       /\ inf[p.id] # NoMsg /\ awt[p.id] = NoMsg /\ (~p.err => inf[p.id] \in acc)
    \/ /\ QoS = 2 /\ p.type = "PUBREC"
       /\ inf[p.id] # NoMsg /\ (awt[p.id] # NoMsg <=> ~p.err)
    \/ /\ QoS = 2 /\ p.type = "PUBCOMP"
       /\ inf[p.id] # NoMsg /\ awt[p.id] = NoMsg /\ ~p.err /\ inf[p.id] \in acc

\* What a packet to the broker finds there.
RequestTrue(inf, awt, p) ==
    \/ p.type = "DISCONNECT"
    \/ p.type = "PUBLISH" /\ p.msg # NoMsg /\ inf[p.id] = p.msg /\ awt[p.id] = NoMsg
    \/ p.type = "PUBREL" /\ QoS = 2 /\ inf[p.id] # NoMsg /\ awt[p.id] # NoMsg

\* The identifier of a PUBREC that was handed to the writer.
ReleaseTrue(inf, awt, id) == QoS = 2 /\ inf[id] # NoMsg /\ awt[id] # NoMsg

\* The packets under way agree with in_flight and with the broker.
Packets ==
    /\ \A i \in 1..Len(fromBroker) : AnswerTrue(inFlight, awaiting, accepted, fromBroker[i])
    /\ \A i \in 1..Len(toBroker) : RequestTrue(inFlight, awaiting, toBroker[i])
    /\ \A i \in 1..Len(pubrels) : ReleaseTrue(inFlight, awaiting, pubrels[i])
    /\ \A id \in Ids : awaiting[id] # NoMsg => inFlight[id] = awaiting[id] /\ inFlight[id] \in accepted
    /\ wpc = "write" => awaiting[nextId] = NoMsg

\* The counters.
Books ==
    /\ published = sent
    /\ acked \subseteq accepted
    /\ \A m \in acked : m \in 1..Newest /\ \A id \in Ids : inFlight[id] # m
    /\ Accounting

\* The window holds after run has returned too, when the writer's permit may be back in the
\* semaphore and its message in flight no more.
FlightBound == Cardinality(InFlightIds) <= Window

OrderInv == FlightBound /\ Slots /\ Order /\ Packets /\ Books

-----------------------------------------------------------------------------
(***************************************************************************)
(* What follows from the invariant in every state.                         *)
(***************************************************************************)

\* A message is under one identifier only.
LEMMA SlotsInjective == ASSUME TypeOK, Slots PROVE Injective(inFlight)
<1> SUFFICES ASSUME NEW j \in Ids, NEW k \in Ids, inFlight[j] = inFlight[k], inFlight[j] # NoMsg PROVE j = k
  BY DEF Injective
<1>1. Newest \in Nat /\ nextId \in Nat /\ MaxId \in Nat /\ j \in 1..MaxId /\ k \in 1..MaxId
  BY MaxIdAssumption DEF TypeOK, Newest, Ids
<1>2. /\ inFlight[j] = Newest - nextId + j - (IF j > nextId THEN MaxId ELSE 0)
      /\ inFlight[k] = Newest - nextId + k - (IF k > nextId THEN MaxId ELSE 0)
  BY DEF Slots
<1>3. j - (IF j > nextId THEN MaxId ELSE 0) = k - (IF k > nextId THEN MaxId ELSE 0)
  <2> DEFINE base == Newest - nextId
             jj == j - (IF j > nextId THEN MaxId ELSE 0)
             kk == k - (IF k > nextId THEN MaxId ELSE 0)
  <2>1. base \in Int /\ jj \in Int /\ kk \in Int
    BY <1>1
  <2>2. inFlight[j] = base + jj /\ inFlight[k] = base + kk
    BY <1>1, <1>2
  <2> HIDE DEF base, jj, kk
  <2>3. base + jj = base + kk
    BY <2>2, Zenon
  <2>4. jj = kk
    BY <2>1, <2>3
  <2> QED
    BY <2>4 DEF jj, kk
<1> QED
  BY <1>1, <1>3

\* There are no more messages in flight than identifiers that hold one.
LEMMA FlightCount ==
  ASSUME NEW inf \in [Ids -> Nat], NEW S, S \subseteq UnansweredOf(inf)
  PROVE  /\ IsFiniteSet(S) /\ IsFiniteSet({id \in Ids : inf[id] # NoMsg})
         /\ Cardinality(S) <= Cardinality({id \in Ids : inf[id] # NoMsg})
<1> DEFINE K == {id \in Ids : inf[id] # NoMsg}
           f == [m \in S |-> CHOOSE id \in K : inf[id] = m]
<1>1. IsFiniteSet(K)
  <2>1. IsFiniteSet(Ids)
    BY MaxIdAssumption, FS_Interval DEF Ids
  <2> QED
    BY <2>1, FS_Subset
<1>2. ASSUME NEW m \in S PROVE f[m] \in K /\ inf[f[m]] = m
  <2>1. \E id \in K : inf[id] = m
    BY DEF UnansweredOf
  <2> QED
    BY <2>1, Zenon
<1>3. f \in [S -> K]
  BY <1>2
<1>4. \A m, n \in S : f[m] = f[n] => m = n
  <2> HIDE DEF f
  <2> QED
    BY <1>2
<1>5. f \in Injection(S, K)
  <2> HIDE DEF f, K
  <2> QED
    BY <1>3, <1>4 DEF Injection, IsInjective
<1> QED
  <2> HIDE DEF f, K
  <2>1. IsFiniteSet(S) /\ Cardinality(S) <= Cardinality(K)
    BY <1>1, <1>5, FS_Injection
  <2> QED
    BY <1>1, <2>1 DEF K

\* A message that is unanswered only makes room when no packet identifier is: with the
\* identifier that comes next still in use, there would be a window of messages in flight
\* besides the one whose permit the writer holds.
LEMMA NextIdIsFree ==
  ASSUME AnswersOnce, TypeOK, WindowBounded, Slots, Order
  PROVE  NoIdCollision
<1> SUFFICES ASSUME wpc = "insert", inFlight[NextId(nextId)] # NoMsg PROVE FALSE
  BY DEF NoIdCollision
<1> DEFINE b == NextId(nextId)
           m == inFlight[b]
           U == UnansweredOf(inFlight)
           S == (m + Slack + 1)..sent
<1>0. /\ sent \in Nat /\ nextId \in 0..MaxId /\ MaxId \in Nat /\ MaxId > 0 /\ Window \in Nat /\ Window > 0
      /\ Window <= MaxId /\ Slack \in Nat /\ QoS # 0 /\ permits \in Nat
  BY MaxIdAssumption, WindowType, SlackType DEF TypeOK, AnswersOnce
<1>1. b \in Ids /\ m \in Nat /\ b = IF nextId = MaxId THEN 1 ELSE nextId + 1
  <2>1. b \in Ids
    BY <1>0, NextIdType
  <2>2. b = IF nextId = MaxId THEN 1 ELSE nextId + 1
    <3>1. CASE nextId = MaxId
      <4>1. (nextId + 1) % (MaxId + 1) = 0
        BY <1>0, <3>1
      <4> QED
        BY <3>1, <4>1 DEF NextId
    <3>2. CASE nextId # MaxId
      <4>1. (nextId + 1) % (MaxId + 1) = nextId + 1
        BY <1>0, <3>2
      <4> QED
        BY <1>0, <3>2, <4>1 DEF NextId
    <3> QED
      BY <3>1, <3>2
  <2>3. m \in Nat
    BY <2>1 DEF TypeOK
  <2> QED
    BY <2>1, <2>2, <2>3
<1>2. Newest = sent /\ Top = sent
  BY <1>0 DEF Newest, Top, Slots, TypeOK
<1>3. m = sent + 1 - MaxId
  <2>1. m = sent - nextId + b - (IF b > nextId THEN MaxId ELSE 0)
    BY <1>1, <1>2 DEF Slots
  <2> HIDE DEF b, m
  <2> QED
    BY <1>0, <1>1, <2>1
<1>4. MaxId - Slack >= Window
  BY <1>0, QoSAssumption DEF Slack, AnswersOnce
<1>5. m \in U
  BY <1>1 DEF UnansweredOf
<1>6. S \subseteq U
  BY <1>2, <1>5 DEF Order, LinesUp, Pipeline, Recent
<1>7. {id \in Ids : inFlight[id] # NoMsg} = InFlightIds
  BY DEF InFlightIds
<1> HIDE DEF b, m, U
<1>8. IsFiniteSet(S \cup {m}) /\ Cardinality(S \cup {m}) = MaxId - Slack
  <2>1. IsFiniteSet(S) /\ Cardinality(S) = IF m + Slack + 1 > sent THEN 0 ELSE sent - (m + Slack + 1) + 1
    BY <1>0, <1>1, FS_Interval
  <2>2. m \notin S
    BY <1>0, <1>1
  <2>3. Cardinality(S) = MaxId - Slack - 1
    BY <1>0, <1>1, <1>3, <1>4, <2>1
  <2>4. Cardinality(S \cup {m}) = Cardinality(S) + 1 /\ IsFiniteSet(S \cup {m})
    <3> HIDE DEF S
    <3> QED
      BY <2>1, <2>2, FS_AddElement
  <2> QED
    BY <1>0, <2>3, <2>4
<1>9. Cardinality(S \cup {m}) <= Cardinality(InFlightIds)
  <2>1. inFlight \in [Ids -> Nat]
    BY DEF TypeOK
  <2>2. S \cup {m} \subseteq UnansweredOf(inFlight)
    BY <1>5, <1>6 DEF U
  <2> HIDE DEF S
  <2> QED
    BY <1>7, <2>1, <2>2, FlightCount
<1>10. Pending = 1 /\ Cardinality(InFlightIds) \in Nat
  BY <1>0, InFlightFinite DEF Pending
<1>11. permits + Cardinality(InFlightIds) + 1 <= Window
  BY <1>10 DEF WindowBounded
<1> QED
  BY <1>0, <1>4, <1>8, <1>9, <1>10, <1>11

\* While the first half of an exchange is under way, no message as new as its own has been
\* answered for good: the newest is within a window of it.
LEMMA FirstHalfIsRecent ==
  ASSUME TypeOK, FlightBound, Order, QoS # 0, fromBroker # <<>>, fromBroker[1].type \in {"PUBACK", "PUBREC"},
         NEW a \in Ids, fromBroker[1].id = a, inFlight[a] # NoMsg
  PROVE  Top < inFlight[a] + Window
<1> DEFINE F == fromBroker
           T == toBroker
           q == PipeOf(inFlight, F, T)
           U == UnansweredOf(inFlight)
           D == FirstsOf(inFlight, F, T)
           m == inFlight[a]
           lo == 1 - Len(F)
<1>0. /\ F \in Seq(FromBroker) /\ T \in Seq(ToBroker) /\ inFlight \in [Ids -> Nat] /\ pubrels \in Seq(Ids)
      /\ Top \in Nat /\ m \in Nat /\ Window \in Nat
  BY SlackType DEF TypeOK, Top
<1>1. LinesUp(inFlight, F, T, pubrels, Top)
  BY DEF Order
<1>2. lo \in lo..Len(T) /\ IdAt(F, T, lo) = a
  BY <1>0, FirstPlace
<1>3. q[lo] = m
  <2>1. q[lo] = MsgOf(inFlight, a)
    BY <1>0, <1>1, <1>2, LinesUpMeans
  <2> QED
    BY <2>1 DEF MsgOf, Ids
<1>4. m \in D
  <2>1. 1 \in 1..Len(F)
    BY <1>0
  <2>2. MsgOf(inFlight, F[1].id) = m
    BY DEF MsgOf, Ids
  <2>3. MsgOf(inFlight, F[1].id) = NoMsg \/ MsgOf(inFlight, F[1].id) \in D
    BY <2>1, FirstsHold
  <2> QED
    BY <2>2, <2>3
<1>5. FirstHalves(lo, Len(T), q, U, D, Top)
  BY <1>1 DEF LinesUp, Pipeline
<1>6. \A n \in m..Top : n \in U
  <2> HIDE DEF m, D, U, q, lo
  <2> QED
    BY <1>2, <1>3, <1>4, <1>5 DEF FirstHalves
<1>7. Cardinality(m..Top) <= Cardinality(InFlightIds)
  <2>1. m..Top \subseteq UnansweredOf(inFlight)
    BY <1>6
  <2>2. {id \in Ids : inFlight[id] # NoMsg} = InFlightIds
    BY DEF InFlightIds
  <2> DEFINE S == m..Top
  <2> HIDE DEF S
  <2>3. Cardinality(S) <= Cardinality(InFlightIds)
    BY <1>0, <2>1, <2>2, FlightCount DEF S
  <2> QED
    BY <2>3 DEF S
<1>8. Cardinality(m..Top) = IF m > Top THEN 0 ELSE Top - m + 1
  <2> HIDE DEF m
  <2> QED
    BY <1>0, FS_Interval
<1>9. Cardinality(InFlightIds) \in Nat /\ Cardinality(InFlightIds) <= Window /\ Window > 0
  BY InFlightFinite, SlackType DEF FlightBound
<1> HIDE DEF m
<1>10. Top < m + Window
  BY <1>0, <1>7, <1>8, <1>9
<1> QED
  BY <1>10 DEF m

-----------------------------------------------------------------------------
(***************************************************************************)
(* The steps.                                                              *)
(***************************************************************************)

\* Steps that leave in_flight and the counters alone; the broker may accept a message.
LEMMA CountersKept ==
  ASSUME TypeOK, FlightBound, Slots, Books,
         UNCHANGED <<sent, nextId, pubErrors, published, inFlight, acked, refused>>, accepted \subseteq accepted',
         wpc \in {"write", "count"} <=> wpc' \in {"write", "count"}, pubErrors > 0 => wpc' = "returned"
  PROVE  FlightBound' /\ Slots' /\ Books' /\ Newest' = Newest /\ Top' = Top
<1>1. Newest' = Newest /\ Top' = Top
  BY DEF Newest, Top
<1>2. InFlightIds' = InFlightIds
  BY DEF InFlightIds
<1>3. FlightBound'
  BY <1>2 DEF FlightBound
<1>4. Slots'
  BY <1>1 DEF Slots
<1>5. Accounting'
  BY <1>2 DEF Accounting, Books
<1> QED
  BY <1>1, <1>3, <1>4, <1>5 DEF Books

\* Steps that leave the packets and what they are about alone.
LEMMA PacketsKept ==
  ASSUME Packets, UNCHANGED <<inFlight, awaiting, accepted, fromBroker, toBroker, pubrels, nextId>>,
         wpc' = "write" => wpc = "write"
  PROVE  Packets'
BY DEF Packets, AnswerTrue, RequestTrue, ReleaseTrue

\* An empty channel holds nothing.
LEMMA EmptyChannel ==
  ASSUME NEW inf
  PROVE  HandedOf(inf, <<>>) = {} /\ Distinct(<<>>) /\ {<<>>[i] : i \in 1..Len(<<>>)} = {} /\ <<>> \in Seq(Ids)
<1>1. 1..Len(<<>>) = {}
  OBVIOUS
<1> QED
  BY <1>1 DEF HandedOf, Distinct

\* The steps of the two tasks that touch neither packets nor in_flight: LoopTop, the
\* pacing, the acquisition of a permit, the end of the ack task and of run, and the stop
\* signal.
Quiet ==
    /\ UNCHANGED <<sent, nextId, pubErrors, published, inFlight, acked, refused, awaiting, accepted,
                   fromBroker, toBroker, pubrels, conn>>
    /\ \/ wpc' = wpc
       \/ /\ wpc \notin {"write", "count", "returned"} /\ wpc' \notin {"write", "count"}
          /\ wpc' \in {"pace", "acquire", "insert"} => wpc \in {"pace", "acquire", "insert"} \/ pubrels = <<>>

\* They keep the invariant.
LEMMA QuietKeeps ==
  ASSUME TypeOK, OrderInv, Quiet
  PROVE  OrderInv'
<1> USE DEF OrderInv
<1>1. /\ wpc \in {"write", "count"} <=> wpc' \in {"write", "count"}
      /\ pubErrors > 0 => wpc' = "returned"
      /\ wpc' = "write" <=> wpc = "write"
      /\ wpc' # "returned" => wpc # "returned"
  BY DEF Quiet, Slots
<1>2. FlightBound' /\ Slots' /\ Books' /\ Top' = Top
  BY <1>1, CountersKept DEF Quiet
<1>3. Packets'
  BY <1>1, PacketsKept DEF Quiet
<1>4. Order'
  <2>1. UNCHANGED <<inFlight, fromBroker, toBroker, pubrels, nextId, conn>>
    BY DEF Quiet
  <2>2. LinesUp(inFlight', fromBroker', toBroker', pubrels', Top') /\ Distinct(pubrels')
    BY <1>2, <2>1 DEF Order
  <2>3. wpc' \in {"pace", "acquire", "insert"} => \A h \in HandedOf(inFlight', pubrels') : Top' < h + Slack
    <3>1. CASE wpc \in {"pace", "acquire", "insert"}
      BY <1>2, <2>1, <3>1 DEF Order
    <3>2. CASE pubrels = <<>>
      BY <2>1, <3>2, EmptyChannel
    <3>3. CASE wpc' \notin {"pace", "acquire", "insert"}
      BY <3>3
    <3> QED
      BY <3>1, <3>2, <3>3 DEF Quiet
  <2>4. wpc' = "write" => /\ nextId' \in Ids /\ inFlight'[nextId'] = Top'
                          /\ nextId' \notin UnderWay(fromBroker', toBroker', pubrels')
    BY <1>1, <1>2, <2>1 DEF Order
  <2>5. conn' = "open" /\ wpc' # "returned" =>
          Unaccounted(inFlight', fromBroker', toBroker', pubrels') \subseteq IF wpc' = "write" THEN {nextId'} ELSE {}
    BY <1>1, <2>1 DEF Order
  <2> QED
    BY <2>2, <2>3, <2>4, <2>5 DEF Order
<1> QED
  BY <1>2, <1>3, <1>4

\* The steps that are quiet.
LEMMA QuietSteps ==
  ASSUME TypeOK,
         \/ LoopTop \/ Pace \/ Acquire \/ AcquireClosed \/ AcquireStopped \/ Join \/ JoinTimeout
         \/ AckEof \/ AckError \/ RequestStop \/ UNCHANGED vars
  PROVE  Quiet
<1> USE DEF Quiet, writerVars, ackVars, windowVars, brokerVars
<1>1. CASE LoopTop
  BY <1>1 DEF LoopTop
<1>2. CASE Pace
  BY <1>2 DEF Pace
<1>3. CASE Acquire
  BY <1>3 DEF Acquire
<1>4. CASE AcquireClosed
  BY <1>4 DEF AcquireClosed
<1>5. CASE AcquireStopped
  BY <1>5 DEF AcquireStopped
<1>6. CASE Join
  BY <1>6 DEF Join, Return
<1>7. CASE JoinTimeout
  BY <1>7 DEF JoinTimeout, Return
<1>8. CASE AckEof
  BY <1>8 DEF AckEof
<1>9. CASE AckError
  BY <1>9 DEF AckError
<1>10. CASE RequestStop
  BY <1>10 DEF RequestStop
<1>11. CASE UNCHANGED vars
  BY <1>11 DEF vars
<1> QED
  BY <1>1, <1>2, <1>3, <1>4, <1>5, <1>6, <1>7, <1>8, <1>9, <1>10, <1>11

\* The counters after a write: the message that was being written is now one of those sent.
LEMMA CountPublishedKeeps ==
  ASSUME TypeOK, OrderInv, CountPublished
  PROVE  OrderInv'
<1> USE DEF OrderInv
<1>0. /\ wpc = "count" /\ published' = published + 1 /\ sent' = sent + 1 /\ wpc' = "top"
      /\ UNCHANGED <<nextId, pubErrors, inFlight, acked, refused, awaiting, accepted, fromBroker, toBroker, pubrels, conn>>
      /\ pubErrors \in Nat
  BY DEF CountPublished, ackVars, windowVars, brokerVars, TypeOK
<1>1. Top' = Top /\ Newest' = Newest /\ ~(pubErrors > 0)
  BY <1>0 DEF Top, Newest, Slots
<1>2. InFlightIds' = InFlightIds
  BY <1>0 DEF InFlightIds
<1>3. FlightBound' /\ Packets'
  BY <1>0, <1>2, PacketsKept DEF FlightBound
<1>4. Slots'
  BY <1>0, <1>1 DEF Slots
<1>5. Accounting'
  BY <1>0, <1>2 DEF Accounting, Books, TypeOK
<1>6. Books'
  BY <1>0, <1>1, <1>5 DEF Books
<1>7. Order'
  BY <1>0, <1>1 DEF Order
<1> QED
  BY <1>3, <1>4, <1>6, <1>7

\* What the writer takes out of the channel it writes.
LEMMA UnderWayReleased ==
  ASSUME NEW F \in Seq(FromBroker), NEW T \in Seq(ToBroker), NEW P \in Seq(Ids),
         NEW S \in Seq(ToBroker), NEW P2 \in Seq(Ids), NEW n, Releases(S, P, P2, n)
  PROVE  /\ UnderWay(F, T, P) \subseteq UnderWay(F, T \o S, P2)
         /\ \A i \in 1..Len(P2) : n + i \in 1..Len(P) /\ P2[i] = P[n + i]
         /\ n \in Nat
<1>0. n \in Nat /\ n <= Len(P) /\ n <= Len(S) /\ Len(P) \in Nat /\ Len(S) \in Nat /\ Len(P2) = Len(P) - n
  BY DEF Releases
<1>1. \A i \in 1..Len(P2) : n + i \in 1..Len(P) /\ P2[i] = P[n + i]
  BY <1>0 DEF Releases
<1>2. /\ \A i \in 1..Len(T) : i \in 1..Len(T \o S) /\ (T \o S)[i] = T[i]
      /\ \A i \in 1..Len(S) : Len(T) + i \in 1..Len(T \o S) /\ (T \o S)[Len(T) + i] = S[i]
  <2>1. Len(T \o S) = Len(T) + Len(S) /\ Len(T) \in Nat /\ Len(S) \in Nat
    OBVIOUS
  <2>2. \A i \in 1..Len(T) : (T \o S)[i] = T[i]
    BY PlacesAfterWrite
  <2>3. \A i \in 1..Len(S) : (T \o S)[Len(T) + i] = S[i]
    BY PlacesAfterWrite
  <2> QED
    BY <2>1, <2>2, <2>3
<1> DEFINE T2 == T \o S
<1> HIDE DEF T2
<1>3. ASSUME NEW id \in UnderWay(F, T, P) PROVE id \in UnderWay(F, T2, P2)
  <2>1. CASE id \in IdsOf(F)
    BY <2>1 DEF UnderWay
  <2>2. CASE id \in IdsOf(T)
    <3>1. PICK i \in 1..Len(T) : id = T[i].id
      BY <2>2, Zenon DEF IdsOf
    <3>2. i \in 1..Len(T2) /\ T2[i].id = id
      BY <1>2, <3>1 DEF T2
    <3> QED
      BY <3>2, Zenon DEF UnderWay, IdsOf
  <2>3. CASE \E k \in 1..Len(P) : id = P[k]
    <3>1. PICK k \in 1..Len(P) : id = P[k]
      BY <2>3
    <3>2. CASE k <= n
      <4>1. k \in 1..n /\ k \in 1..Len(S)
        BY <1>0, <3>2
      <4>2. S[k].id = id
        BY <3>1, <4>1 DEF Releases
      <4>3. Len(T) + k \in 1..Len(T2) /\ T2[Len(T) + k].id = id
        BY <1>2, <4>1, <4>2 DEF T2
      <4> QED
        BY <4>3, Zenon DEF UnderWay, IdsOf
    <3>3. CASE ~(k <= n)
      <4>1. k - n \in 1..Len(P2) /\ n + (k - n) = k
        BY <1>0, <3>3
      <4>2. P2[k - n] = id
        BY <1>1, <3>1, <4>1
      <4> QED
        BY <4>1, <4>2, Zenon DEF UnderWay
    <3> QED
      BY <3>2, <3>3
  <2> QED
    BY <2>1, <2>2, <2>3, Zenon DEF UnderWay
<1> QED
  BY <1>0, <1>1, <1>3 DEF T2

\* Turning the channel into PUBRELs: what drain_pubrels, the drain loop and the shutdown
\* have in common.
Draining(S, n) ==
    /\ wpc \in {"top", "drain", "disconnect"} /\ wpc' \in {"top", "drain", "join"}
    /\ Releases(S, pubrels, pubrels', n) /\ Deliver(S)
    /\ \A i \in 1..Len(S) : S[i].type = "DISCONNECT" \/ (S[i].type = "PUBREL" /\ i \in 1..n)
    /\ UNCHANGED <<sent, nextId, pubErrors, published, inFlight, acked, refused, awaiting, accepted, fromBroker, conn>>

\* It keeps the invariant.
LEMMA DrainingKeeps ==
  ASSUME QoS # 0, TypeOK, TypeOK', OrderInv, NEW S \in Seq(ToBroker), NEW n, Draining(S, n)
  PROVE  OrderInv'
<1> USE DEF OrderInv
<1> DEFINE F == fromBroker
           T == toBroker
           P == pubrels
           P2 == pubrels'
<1>0. /\ wpc \notin {"write", "count", "returned", "pace", "acquire", "insert"}
      /\ wpc' \notin {"write", "count", "returned", "pace", "acquire", "insert"}
      /\ Releases(S, P, P2, n)
      /\ toBroker' = (IF conn = "open" THEN T \o S ELSE T)
      /\ UNCHANGED <<sent, nextId, pubErrors, published, inFlight, acked, refused, awaiting, accepted, fromBroker, conn>>
      /\ P \in Seq(Ids) /\ P2 \in Seq(Ids) /\ F \in Seq(FromBroker) /\ T \in Seq(ToBroker) /\ toBroker' \in Seq(ToBroker)
      /\ inFlight \in [Ids -> Nat] /\ Top \in Nat
  BY DEF Draining, Deliver, TypeOK, Top
<1>1. FlightBound' /\ Slots' /\ Books' /\ Top' = Top
  BY <1>0, CountersKept DEF Slots
<1>2. /\ UnderWay(F, T, P) \subseteq UnderWay(F, T \o S, P2)
      /\ \A i \in 1..Len(P2) : n + i \in 1..Len(P) /\ P2[i] = P[n + i]
      /\ n \in Nat
  BY <1>0, UnderWayReleased
<1>3. \A i \in 1..Len(P) : inFlight[P[i]] # NoMsg
  BY DEF Packets, ReleaseTrue
<1>4. Injective(inFlight)
  BY SlotsInjective
<1> HIDE DEF F, T, P, P2
<1>5. Distinct(P2)
  <2> SUFFICES ASSUME NEW i \in 1..Len(P2), NEW j \in 1..Len(P2), i < j PROVE P2[i] # P2[j]
    BY DEF Distinct
  <2>1. Distinct(P)
    BY DEF Order, P
  <2>2. n + i < n + j
    BY <1>2
  <2> QED
    BY <1>2, <2>1, <2>2 DEF Distinct
<1>6. HandedOf(inFlight, P2) \subseteq HandedOf(inFlight, P)
  <2> SUFFICES ASSUME NEW i \in 1..Len(P2) PROVE inFlight[P2[i]] \in HandedOf(inFlight, P)
    BY DEF HandedOf
  <2>1. n + i \in 1..Len(P) /\ P2[i] = P[n + i]
    BY <1>2
  <2> QED
    BY <2>1, Zenon DEF HandedOf
<1>7. conn = "open" => Unaccounted(inFlight, F, T, P) = {} /\ Unaccounted(inFlight, F, T \o S, P2) = {}
  <2>1. conn = "open" => Unaccounted(inFlight, F, T, P) = {}
    BY <1>0 DEF Order, F, T, P
  <2> QED
    BY <1>2, <2>1 DEF Unaccounted
<1>8. LinesUp(inFlight, F, T, P, Top) /\ Distinct(P)
  BY DEF Order, F, T, P
<1>9. LinesUp(inFlight, F, toBroker', P2, Top)
  <2>1. CASE conn = "open"
    BY <1>0, <1>3, <1>4, <1>7, <1>8, <2>1, ReleasedLinesUp
  <2>2. CASE conn # "open"
    <3>1. Len(F) \in Nat /\ Len(T) \in Nat
      BY <1>0
    <3> QED
      BY <1>0, <1>6, <1>8, <2>2, <3>1, DroppedLinesUp
  <2> QED
    BY <2>1, <2>2
<1>10. Order'
  <2>1. LinesUp(inFlight', fromBroker', toBroker', pubrels', Top') /\ Distinct(pubrels')
    BY <1>0, <1>1, <1>5, <1>9 DEF F, P2
  <2>2. conn' = "open" /\ wpc' # "returned" =>
          Unaccounted(inFlight', fromBroker', toBroker', pubrels') \subseteq IF wpc' = "write" THEN {nextId'} ELSE {}
    BY <1>0, <1>7 DEF F, T, P2
  <2> QED
    BY <1>0, <2>1, <2>2 DEF Order
<1>11. Packets'
  <2>1. \A i \in 1..Len(T) : RequestTrue(inFlight, awaiting, T[i])
    BY DEF Packets, T
  <2>2. \A i \in 1..Len(P) : ReleaseTrue(inFlight, awaiting, P[i])
    BY DEF Packets, P
  <2>3. ASSUME NEW i \in 1..Len(S) PROVE RequestTrue(inFlight, awaiting, S[i])
    <3>1. S[i].type = "DISCONNECT" \/ (S[i].type = "PUBREL" /\ i \in 1..n)
      BY DEF Draining
    <3>2. CASE S[i].type = "DISCONNECT"
      BY <3>2 DEF RequestTrue
    <3>3. CASE S[i].type = "PUBREL" /\ i \in 1..n
      <4>1. i \in 1..Len(P) /\ S[i].id = P[i]
        BY <1>0, <3>3 DEF Releases
      <4>2. ReleaseTrue(inFlight, awaiting, P[i])
        BY <2>2, <4>1
      <4> QED
        BY <3>3, <4>1, <4>2 DEF ReleaseTrue, RequestTrue
    <3> QED
      BY <3>1, <3>2, <3>3
  <2>4. ASSUME NEW i \in 1..Len(toBroker') PROVE RequestTrue(inFlight, awaiting, toBroker'[i])
    <3>1. CASE conn # "open"
      BY <1>0, <2>1, <3>1
    <3>2. CASE conn = "open"
      <4>1. toBroker' = T \o S
        BY <1>0, <3>2
      <4>2. \/ i \in 1..Len(T) /\ toBroker'[i] = T[i]
            \/ i - Len(T) \in 1..Len(S) /\ toBroker'[i] = S[i - Len(T)]
        BY <1>0, <4>1
      <4> QED
        BY <2>1, <2>3, <4>2
    <3> QED
      BY <3>1, <3>2
  <2>5. ASSUME NEW i \in 1..Len(P2) PROVE ReleaseTrue(inFlight, awaiting, P2[i])
    BY <1>2, <2>2
  <2>6. \A i \in 1..Len(fromBroker) : AnswerTrue(inFlight, awaiting, accepted, fromBroker[i])
    BY DEF Packets
  <2>7. \A id \in Ids : awaiting[id] # NoMsg => inFlight[id] = awaiting[id] /\ inFlight[id] \in accepted
    BY DEF Packets
  <2> QED
    BY <1>0, <2>4, <2>5, <2>6, <2>7 DEF Packets, P2
<1> QED
  BY <1>1, <1>10, <1>11

\* drain_pubrels, between publishes and in the drain loop, and the two ways to shut down.
LEMMA DrainingSteps ==
  ASSUME QoS # 0, TypeOK, DrainPubrel \/ DrainTick \/ DrainDone \/ DisconnectClosed
  PROVE  \E S \in Seq(ToBroker), n \in Nat : Draining(S, n)
<1> USE DEF writerVars, ackVars, windowVars, brokerVars
<1>0. pubrels \in Seq(Ids) /\ Len(pubrels) \in Nat /\ Disconnect \in ToBroker
  BY DEF TypeOK, ToBroker
<1>1. CASE DrainPubrel \/ DrainTick
  <2> DEFINE x == Pubrel(Head(pubrels))
             S == <<x>>
  <2>0. pubrels # <<>> /\ pubrels' = Tail(pubrels) /\ Deliver(S)
    BY <1>1 DEF DrainPubrel, DrainTick
  <2>1. Head(pubrels) = pubrels[1] /\ Head(pubrels) \in Ids /\ Len(pubrels') = Len(pubrels) - 1 /\ 1 \in 0..Len(pubrels)
        /\ \A i \in 1..Len(pubrels') : pubrels'[i] = pubrels[i + 1]
    BY <1>0, <2>0
  <2>2. x \in ToBroker /\ x.id = pubrels[1] /\ x.type = "PUBREL"
    BY <2>1, PubrelType DEF Pubrel
  <2> HIDE DEF x
  <2>3. S \in Seq(ToBroker) /\ Len(S) = 1 /\ S[1] = x
    BY <2>2
  <2>4. \A i \in 1..Len(pubrels') : pubrels'[i] = pubrels[1 + i]
    BY <2>1
  <2> HIDE DEF S
  <2>5. Releases(S, pubrels, pubrels', 1)
    BY <2>1, <2>2, <2>3, <2>4 DEF Releases
  <2>6. \A i \in 1..Len(S) : S[i].type = "PUBREL" /\ i \in 1..1
    BY <2>2, <2>3
  <2>7. Draining(S, 1)
    BY <1>1, <2>0, <2>5, <2>6 DEF Draining, DrainPubrel, DrainTick
  <2> QED
    BY <2>3, <2>7
<1>2. CASE DrainDone
  <2> DEFINE n == Len(pubrels)
             R == [i \in 1..n |-> Pubrel(pubrels[i])]
             S == R \o <<Disconnect>>
  <2>1. R \in Seq(ToBroker) /\ Len(R) = n /\ \A i \in 1..n : R[i].id = pubrels[i] /\ R[i].type = "PUBREL"
    <3>1. \A i \in 1..n : Pubrel(pubrels[i]) \in ToBroker /\ Pubrel(pubrels[i]).id = pubrels[i] /\ Pubrel(pubrels[i]).type = "PUBREL"
      BY <1>0, PubrelType DEF Pubrel
    <3> QED
      BY <1>0, <3>1
  <2> HIDE DEF R
  <2>2. /\ S \in Seq(ToBroker) /\ Len(S) = n + 1 /\ S[n + 1] = Disconnect
        /\ \A i \in 1..n : S[i] = R[i]
    BY <1>0, <2>1
  <2>3. pubrels' = <<>> /\ Len(pubrels') = 0 /\ Deliver(S)
    BY <1>2 DEF DrainDone, R
  <2> HIDE DEF S
  <2>4. \A i \in 1..Len(S) : (i \in 1..n /\ S[i].type = "PUBREL") \/ (i = n + 1 /\ S[i].type = "DISCONNECT" /\ S[i].id = 0)
    <3>1. \A i \in 1..Len(S) : i \in 1..n \/ i = n + 1
      BY <1>0, <2>2
    <3>2. Disconnect.type = "DISCONNECT" /\ Disconnect.id = 0
      BY DEF Disconnect
    <3> QED
      BY <2>1, <2>2, <3>1, <3>2
  <2>5. Releases(S, pubrels, pubrels', n)
    <3>1. \A i \in (n + 1)..Len(S) : S[i].id = 0
      BY <1>0, <2>2, <2>4
    <3>2. \A i \in 1..Len(S) : S[i].type # "PUBLISH"
      BY <2>4
    <3> QED
      BY <1>0, <2>1, <2>2, <2>3, <3>1, <3>2 DEF Releases
  <2>6. Draining(S, n)
    BY <1>2, <2>3, <2>4, <2>5 DEF Draining, DrainDone
  <2> QED
    BY <1>0, <2>2, <2>6
<1>3. CASE DisconnectClosed
  <2> DEFINE S == <<Disconnect>>
  <2>1. S \in Seq(ToBroker) /\ Len(S) = 1 /\ S[1].type = "DISCONNECT" /\ S[1].id = 0
    BY <1>0 DEF Disconnect
  <2>2. Deliver(S) /\ pubrels' = pubrels
    BY <1>3 DEF DisconnectClosed
  <2> HIDE DEF S
  <2>3. Releases(S, pubrels, pubrels', 0)
    BY <1>0, <2>1, <2>2 DEF Releases
  <2>4. Draining(S, 0)
    BY <1>3, <2>1, <2>2, <2>3 DEF Draining, DisconnectClosed
  <2> QED
    BY <2>1, <2>4
<1> QED
  BY <1>1, <1>2, <1>3

\* What a packet says stays true while its entry and the broker's stay the same.
LEMMA PacketStays ==
  ASSUME NEW inf, NEW awt, NEW acc, NEW inf2, NEW awt2, NEW acc2, acc \subseteq acc2, NEW id,
         id # 0 => inf2[id] = inf[id] /\ awt2[id] = awt[id]
  PROVE  /\ \A p \in FromBroker : QoS # 0 /\ p.id = id /\ AnswerTrue(inf, awt, acc, p) => AnswerTrue(inf2, awt2, acc2, p)
         /\ \A p \in ToBroker : QoS # 0 /\ p.id = id /\ RequestTrue(inf, awt, p) => RequestTrue(inf2, awt2, p)
<1>1. ASSUME NEW p \in FromBroker, QoS # 0, p.id = id, AnswerTrue(inf, awt, acc, p) PROVE AnswerTrue(inf2, awt2, acc2, p)
  <2>1. CASE p.type = "DISCONNECT"
    BY <2>1 DEF AnswerTrue
  <2>2. CASE p.type # "DISCONNECT"
    <3>1. inf2[p.id] = inf[p.id] /\ awt2[p.id] = awt[p.id]
      BY <1>1, <2>2, PacketIds, Zenon
    <3> QED
      BY <1>1, <2>2, <3>1, Zenon DEF AnswerTrue
  <2> QED
    BY <2>1, <2>2
<1>2. ASSUME NEW p \in ToBroker, QoS # 0, p.id = id, RequestTrue(inf, awt, p) PROVE RequestTrue(inf2, awt2, p)
  <2>1. CASE p.type = "DISCONNECT"
    BY <2>1 DEF RequestTrue
  <2>2. CASE p.type # "DISCONNECT"
    <3>1. inf2[p.id] = inf[p.id] /\ awt2[p.id] = awt[p.id]
      BY <1>2, <2>2, PacketIds, Zenon
    <3> QED
      BY <1>2, <2>2, <3>1, Zenon DEF RequestTrue
  <2> QED
    BY <2>1, <2>2
<1> QED
  BY <1>1, <1>2

\* Packets are under way only for identifiers that in_flight holds.
LEMMA UnderWayInFlight ==
  ASSUME QoS # 0, TypeOK, Packets, NEW id \in UnderWay(fromBroker, toBroker, pubrels)
  PROVE  id = 0 \/ (id \in Ids /\ inFlight[id] # NoMsg)
<1>1. CASE id \in IdsOf(fromBroker)
  <2>1. PICK i \in 1..Len(fromBroker) : id = fromBroker[i].id
    BY <1>1, Zenon DEF IdsOf
  <2>2. fromBroker[i] \in FromBroker /\ AnswerTrue(inFlight, awaiting, accepted, fromBroker[i])
    BY DEF TypeOK, Packets
  <2>3. IF fromBroker[i].type = "DISCONNECT" THEN id = 0 ELSE id \in Ids
    BY <2>1, <2>2, PacketIds, Zenon
  <2>4. fromBroker[i].type # "DISCONNECT" => inFlight[id] # NoMsg
    BY <2>1, <2>2, Zenon DEF AnswerTrue
  <2> QED
    BY <2>3, <2>4
<1>2. CASE id \in IdsOf(toBroker)
  <2>1. PICK i \in 1..Len(toBroker) : id = toBroker[i].id
    BY <1>2, Zenon DEF IdsOf
  <2>2. toBroker[i] \in ToBroker /\ RequestTrue(inFlight, awaiting, toBroker[i])
    BY DEF TypeOK, Packets
  <2>3. IF toBroker[i].type = "DISCONNECT" THEN id = 0 ELSE id \in Ids
    BY <2>1, <2>2, PacketIds, Zenon
  <2>4. toBroker[i].type # "DISCONNECT" => inFlight[id] # NoMsg
    BY <2>1, <2>2, Zenon DEF RequestTrue
  <2> QED
    BY <2>3, <2>4
<1>3. CASE \E i \in 1..Len(pubrels) : id = pubrels[i]
  BY <1>3 DEF TypeOK, Packets, ReleaseTrue
<1> QED
  BY <1>1, <1>2, <1>3, Zenon DEF UnderWay

\* The packets agree with in_flight and the broker after a step that takes no packet away
\* and adds none, when the entries of the packets stay.
LEMMA EntriesStay ==
  ASSUME QoS # 0, TypeOK, Packets, UNCHANGED <<fromBroker, toBroker, accepted, awaiting>>,
         pubrels' = pubrels \/ pubrels' = <<>>,
         NEW b \in Ids, b \notin UnderWay(fromBroker, toBroker, pubrels), awaiting[b] = NoMsg,
         \A id \in Ids \ {b} : inFlight'[id] = inFlight[id], wpc' = "write" => nextId' = b
  PROVE  Packets'
<1>1. ASSUME NEW i \in 1..Len(fromBroker) PROVE AnswerTrue(inFlight', awaiting, accepted, fromBroker[i])
  <2>1. fromBroker[i] \in FromBroker /\ AnswerTrue(inFlight, awaiting, accepted, fromBroker[i])
    BY DEF TypeOK, Packets
  <2>2. fromBroker[i].id \in UnderWay(fromBroker, toBroker, pubrels)
    BY Zenon DEF UnderWay, IdsOf
  <2>3. fromBroker[i].id = 0 \/ fromBroker[i].id \in Ids
    BY <2>2, UnderWayInFlight
  <2>4. fromBroker[i].id # b
    BY <2>2
  <2>5. fromBroker[i].id # 0 => inFlight'[fromBroker[i].id] = inFlight[fromBroker[i].id]
    BY <2>3, <2>4
  <2>6. fromBroker[i].id # 0 => /\ inFlight'[fromBroker[i].id] = inFlight[fromBroker[i].id]
                                /\ awaiting[fromBroker[i].id] = awaiting[fromBroker[i].id]
    BY <2>5
  <2>7. \A p \in FromBroker : QoS # 0 /\ p.id = fromBroker[i].id /\ AnswerTrue(inFlight, awaiting, accepted, p)
                               => AnswerTrue(inFlight', awaiting, accepted, p)
    BY <2>6, PacketStays
  <2> QED
    BY <2>1, <2>7, Zenon
<1>2. ASSUME NEW i \in 1..Len(toBroker) PROVE RequestTrue(inFlight', awaiting, toBroker[i])
  <2>1. toBroker[i] \in ToBroker /\ RequestTrue(inFlight, awaiting, toBroker[i])
    BY DEF TypeOK, Packets
  <2>2. toBroker[i].id \in UnderWay(fromBroker, toBroker, pubrels)
    BY Zenon DEF UnderWay, IdsOf
  <2>3. toBroker[i].id # 0 => inFlight'[toBroker[i].id] = inFlight[toBroker[i].id]
    BY <2>2, UnderWayInFlight
  <2> QED
    BY <2>1, <2>3, PacketStays
<1>3. ASSUME NEW i \in 1..Len(pubrels') PROVE ReleaseTrue(inFlight', awaiting, pubrels'[i])
  <2>1. pubrels' = pubrels
    BY <1>3
  <2>2. pubrels[i] \in UnderWay(fromBroker, toBroker, pubrels) /\ pubrels[i] \in Ids /\ i \in 1..Len(pubrels)
    <3>1. i \in 1..Len(pubrels)
      BY <2>1
    <3>2. pubrels[i] \in UnderWay(fromBroker, toBroker, pubrels)
      BY <3>1, Zenon DEF UnderWay
    <3> QED
      BY <3>1, <3>2 DEF TypeOK
  <2> QED
    BY <2>1, <2>2 DEF Packets, ReleaseTrue
<1>4. \A id \in Ids : awaiting[id] # NoMsg => inFlight'[id] = awaiting[id] /\ inFlight'[id] \in accepted
  BY DEF Packets
<1> QED
  BY <1>1, <1>2, <1>3, <1>4 DEF Packets

\* drain_pubrels fails: run returns and drops the channel.
LEMMA DrainPubrelFailsKeeps ==
  ASSUME TypeOK, OrderInv, DrainPubrelFails
  PROVE  OrderInv'
<1> USE DEF OrderInv
<1>0. /\ wpc = "top" /\ wpc' = "returned" /\ pubrels' = <<>>
      /\ UNCHANGED <<sent, nextId, pubErrors, published, inFlight, acked, refused, awaiting, accepted, fromBroker, toBroker, conn>>
      /\ Len(fromBroker) \in Nat /\ Len(toBroker) \in Nat /\ Top \in Nat
  BY DEF DrainPubrelFails, Return, ackVars, windowVars, brokerVars, TypeOK, Top
<1>1. FlightBound' /\ Slots' /\ Books' /\ Top' = Top
  BY <1>0, CountersKept
<1>2. Order'
  <2>1. LinesUp(inFlight, fromBroker, toBroker, pubrels, Top)
    BY DEF Order
  <2>2. HandedOf(inFlight, pubrels') \subseteq HandedOf(inFlight, pubrels) /\ Distinct(pubrels')
    BY <1>0, EmptyChannel
  <2>3. LinesUp(inFlight, fromBroker, toBroker, pubrels', Top)
    BY <1>0, <2>1, <2>2, DroppedLinesUp
  <2> QED
    BY <1>0, <1>1, <2>2, <2>3 DEF Order
<1>3. Packets'
  <2>1. \A i \in 1..Len(pubrels') : FALSE
    BY <1>0
  <2> QED
    BY <1>0, <2>1 DEF Packets
<1> QED
  BY <1>1, <1>2, <1>3

\* in_flight.insert of the next identifier.
LEMMA InsertKeeps ==
  ASSUME AnswersOnce, TypeOK, TypeOK', WindowBounded, OrderInv, Insert
  PROVE  OrderInv'
<1> USE DEF OrderInv
<1> DEFINE b == NextId(nextId)
<1>0. /\ QoS # 0 /\ wpc = "insert" /\ wpc' = "write" /\ nextId' = b
      /\ inFlight' = [inFlight EXCEPT ![b] = sent + 1]
      /\ UNCHANGED <<sent, pubErrors, published, acked, refused, awaiting, accepted, fromBroker, toBroker, pubrels, conn>>
  BY DEF Insert, AnswersOnce, ackVars, brokerVars
<1>1. inFlight[b] = NoMsg
  BY <1>0, NextIdIsFree DEF NoIdCollision
<1>2. b \in Ids /\ b = IF nextId = MaxId THEN 1 ELSE nextId + 1
  <2>0. nextId \in 0..MaxId /\ MaxId \in Nat
    BY MaxIdAssumption DEF TypeOK
  <2>1. b \in Ids
    BY <2>0, NextIdType
  <2>2. CASE nextId = MaxId
    <3>1. (nextId + 1) % (MaxId + 1) = 0
      BY <2>0, <2>2
    <3> QED
      BY <2>1, <2>2, <3>1 DEF NextId
  <2>3. CASE nextId # MaxId
    <3>1. (nextId + 1) % (MaxId + 1) = nextId + 1
      BY <2>0, <2>3
    <3> QED
      BY <2>0, <2>1, <2>3, <3>1 DEF NextId
  <2> QED
    BY <2>2, <2>3
<1> HIDE DEF b
<1>3. /\ sent \in Nat /\ nextId \in Nat /\ nextId <= MaxId /\ MaxId \in Nat /\ MaxId > 0 /\ b \in 1..MaxId
      /\ inFlight \in [Ids -> Nat] /\ pubErrors \in Nat /\ b # 0
      /\ \A id \in Ids : inFlight'[id] = IF id = b THEN sent + 1 ELSE inFlight[id]
  BY <1>0, <1>2, MaxIdAssumption DEF TypeOK, Ids
<1>4. /\ pubErrors = 0 /\ Newest = sent /\ Top = sent /\ Newest' = sent + 1 /\ Top' = sent + 1
  BY <1>0, <1>3 DEF Slots, Newest, Top
<1>5. b \notin UnderWay(fromBroker, toBroker, pubrels)
  BY <1>0, <1>1, <1>3, UnderWayInFlight
<1>6. awaiting[b] = NoMsg
  BY <1>1, <1>2 DEF Packets
<1>7. Packets'
  <2>1. \A id \in Ids \ {b} : inFlight'[id] = inFlight[id]
    BY <1>3
  <2>2. UNCHANGED <<fromBroker, toBroker, accepted, awaiting>> /\ pubrels' = pubrels /\ nextId' = b /\ QoS # 0
    BY <1>0
  <2> QED
    BY <1>2, <1>5, <1>6, <2>1, <2>2, EntriesStay
<1>8. Slots'
  <2>1. nextId' <= Newest'
    <3>1. nextId <= sent
      BY <1>4 DEF Slots
    <3> QED
      BY <1>0, <1>2, <1>3, <1>4, <3>1
  <2>2. ASSUME NEW id \in Ids, inFlight'[id] # NoMsg
        PROVE  inFlight'[id] = Newest' - nextId' + id - (IF id > nextId' THEN MaxId ELSE 0)
    <3>0. id \in 1..MaxId
      BY DEF Ids
    <3>1. CASE id = b
      <4>1. inFlight'[id] = sent + 1
        BY <1>3, <3>1
      <4>2. sent + 1 = (sent + 1) - b + b - (IF b > b THEN MaxId ELSE 0)
        BY <1>3
      <4> QED
        BY <1>0, <1>4, <3>1, <4>1, <4>2
    <3>2. CASE id # b
      <4>1. inFlight'[id] = inFlight[id] /\ inFlight[id] # NoMsg
        BY <1>3, <2>2, <3>2
      <4>2. inFlight[id] = sent - nextId + id - (IF id > nextId THEN MaxId ELSE 0)
        BY <1>4, <4>1 DEF Slots
      <4>3. sent - nextId + id - (IF id > nextId THEN MaxId ELSE 0)
              = (sent + 1) - b + id - (IF id > b THEN MaxId ELSE 0)
        BY <1>2, <1>3, <3>0, <3>2
      <4> QED
        BY <1>0, <1>4, <4>1, <4>2, <4>3
    <3> QED
      BY <3>1, <3>2
  <2>3. ~(pubErrors' > 0)
    BY <1>0, <1>3, <1>4
  <2> QED
    BY <2>1, <2>2, <2>3 DEF Slots
<1>9. InFlightIds' = InFlightIds \cup {b} /\ b \notin InFlightIds
  <2>1. sent + 1 # NoMsg
    BY <1>3 DEF NoMsg
  <2>2. b \notin InFlightIds
    BY <1>1 DEF InFlightIds
  <2>3. \A id \in Ids : inFlight'[id] # NoMsg <=> (id = b \/ inFlight[id] # NoMsg)
    BY <1>3, <2>1
  <2>4. InFlightIds' = {id \in Ids : inFlight'[id] # NoMsg}
    BY DEF InFlightIds
  <2> QED
    BY <1>2, <2>2, <2>3, <2>4 DEF InFlightIds
<1>10. Cardinality(InFlightIds') = Cardinality(InFlightIds) + 1 /\ Cardinality(InFlightIds) \in Nat
  BY <1>9, InFlightFinite, FS_AddElement
<1>11. FlightBound'
  <2>1. Pending = 1 /\ permits \in Nat /\ Window \in Nat
    BY <1>0, SlackType DEF Pending, TypeOK
  <2>2. permits + Cardinality(InFlightIds) + 1 <= Window
    BY <1>0, <2>1 DEF WindowBounded
  <2>3. Cardinality(InFlightIds') <= Window
    BY <1>10, <2>1, <2>2
  <2> QED
    BY <2>3 DEF FlightBound
<1>12. Books'
  <2>1. Accounting'
    <3>1. published + 0 = Cardinality(acked) + refused + Cardinality(InFlightIds)
      BY <1>0 DEF Books, Accounting
    <3>2. published + 1 = Cardinality(acked) + refused + (Cardinality(InFlightIds) + 1)
      <4>1. IsFiniteSet(acked) /\ Cardinality(acked) \in Nat
        <5>1. acked \subseteq 1..Newest
          BY DEF Books
        <5>2. IsFiniteSet(1..Newest)
          BY <1>3, <1>4, FS_Interval
        <5> QED
          BY <5>1, <5>2, FS_Subset, FS_CardinalityType
      <4>2. published \in Nat /\ refused \in Nat
        BY DEF TypeOK
      <4> QED
        BY <1>10, <3>1, <4>1, <4>2
    <3> QED
      BY <1>0, <1>10, <3>2 DEF Accounting
  <2>2. ASSUME NEW m \in acked PROVE m \in 1..Newest' /\ \A id \in Ids : inFlight'[id] # m
    <3>1. m \in 1..sent /\ \A id \in Ids : inFlight[id] # m
      BY <1>4 DEF Books
    <3> QED
      BY <1>3, <1>4, <3>1
  <2> QED
    BY <1>0, <2>1, <2>2 DEF Books
<1>13. Order'
  <2>0. /\ fromBroker \in Seq(FromBroker) /\ toBroker \in Seq(ToBroker) /\ pubrels \in Seq(Ids)
    BY DEF TypeOK
  <2>1. LinesUp(inFlight, fromBroker, toBroker, pubrels, sent) /\ Distinct(pubrels)
        /\ \A h \in HandedOf(inFlight, pubrels) : sent < h + Slack
    BY <1>0, <1>4 DEF Order
  <2>2. LinesUp(inFlight', fromBroker, toBroker, pubrels, sent + 1)
    BY <1>0, <1>1, <1>2, <1>3, <1>5, <2>0, <2>1, InsertedLinesUp
  <2>3. inFlight'[b] = sent + 1
    BY <1>2, <1>3
  <2>4. conn = "open" => Unaccounted(inFlight', fromBroker, toBroker, pubrels) \subseteq {b}
    <3>1. conn = "open" => Unaccounted(inFlight, fromBroker, toBroker, pubrels) = {}
      BY <1>0 DEF Order
    <3> QED
      BY <1>3, <3>1 DEF Unaccounted
  <2> QED
    BY <1>0, <1>2, <1>4, <1>5, <2>1, <2>2, <2>3, <2>4 DEF Order
<1> QED
  BY <1>7, <1>8, <1>11, <1>12, <1>13

\* One more packet is written.
LEMMA UnderWayWritten ==
  ASSUME NEW F \in Seq(FromBroker), NEW T \in Seq(ToBroker), NEW P \in Seq(Ids), NEW x \in ToBroker
  PROVE  /\ UnderWay(F, T, P) \cup {x.id} \subseteq UnderWay(F, T \o <<x>>, P)
         /\ \A i \in 1..Len(T \o <<x>>) : (i \in 1..Len(T) /\ (T \o <<x>>)[i] = T[i]) \/ (T \o <<x>>)[i] = x
<1> DEFINE T2 == T \o <<x>>
<1>1. /\ Len(T2) = Len(T) + 1 /\ Len(T) \in Nat /\ T2[Len(T) + 1] = x
      /\ \A i \in 1..Len(T) : T2[i] = T[i]
  OBVIOUS
<1> HIDE DEF T2
<1>2. /\ \A i \in 1..Len(T) : i \in 1..Len(T2)
      /\ Len(T) + 1 \in 1..Len(T2)
      /\ \A i \in 1..Len(T2) : i \in 1..Len(T) \/ i = Len(T) + 1
  BY <1>1
<1>3. IdsOf(T) \subseteq IdsOf(T2) /\ x.id \in IdsOf(T2)
  <2>1. ASSUME NEW id \in IdsOf(T) PROVE id \in IdsOf(T2)
    <3>1. PICK i \in 1..Len(T) : id = T[i].id
      BY <2>1, Zenon DEF IdsOf
    <3>2. i \in 1..Len(T2) /\ T2[i].id = id
      BY <1>1, <1>2, <3>1
    <3> QED
      BY <3>2, Zenon DEF IdsOf
  <2>2. x.id \in IdsOf(T2)
    BY <1>1, <1>2, Zenon DEF IdsOf
  <2> QED
    BY <2>1, <2>2
<1>4. UnderWay(F, T, P) \cup {x.id} \subseteq UnderWay(F, T2, P)
  BY <1>3 DEF UnderWay
<1>5. \A i \in 1..Len(T2) : (i \in 1..Len(T) /\ T2[i] = T[i]) \/ T2[i] = x
  BY <1>1, <1>2
<1> QED
  BY <1>4, <1>5 DEF T2

\* The PUBLISH goes out, or is lost with the connection.
LEMMA WritePublishKeeps ==
  ASSUME QoS # 0, TypeOK, OrderInv, WritePublish
  PROVE  OrderInv'
<1> USE DEF OrderInv
<1> DEFINE x == Publish(nextId, sent + 1)
           F == fromBroker
           T == toBroker
           P == pubrels
           T2 == T \o <<x>>
<1>0. /\ wpc = "write" /\ wpc' = "count" /\ toBroker' = (IF conn = "open" THEN T2 ELSE T)
      /\ UNCHANGED <<sent, nextId, pubErrors, published, inFlight, acked, refused, awaiting, accepted, fromBroker, pubrels, conn>>
  BY DEF WritePublish, Deliver, writerVars, ackVars, windowVars, brokerVars
<1>1. /\ F \in Seq(FromBroker) /\ T \in Seq(ToBroker) /\ P \in Seq(Ids) /\ inFlight \in [Ids -> Nat]
      /\ nextId \in Ids /\ sent \in Nat /\ Top = sent + 1 /\ Top \in Nat /\ Top # NoMsg
  BY <1>0 DEF TypeOK, Top, NoMsg
<1>2. x \in ToBroker /\ x.id = nextId /\ x.type = "PUBLISH" /\ x.msg = Top
  <2>1. x \in ToBroker
    BY <1>1, PublishType
  <2> QED
    BY <1>1, <2>1 DEF Publish
<1>3. FlightBound' /\ Slots' /\ Books' /\ Top' = Top
  BY <1>0, CountersKept DEF Slots
<1>4. /\ LinesUp(inFlight, F, T, P, Top) /\ Distinct(P) /\ inFlight[nextId] = Top
      /\ nextId \notin UnderWay(F, T, P)
      /\ conn = "open" => Unaccounted(inFlight, F, T, P) \subseteq {nextId}
  BY <1>0 DEF Order
<1>5. conn = "open" => Unaccounted(inFlight, F, T, P) = {nextId}
  BY <1>1, <1>4 DEF Unaccounted
<1> HIDE DEF x
<1>6. /\ UnderWay(F, T, P) \cup {nextId} \subseteq UnderWay(F, T2, P)
      /\ \A i \in 1..Len(T2) : (i \in 1..Len(T) /\ T2[i] = T[i]) \/ T2[i] = x
  BY <1>1, <1>2, UnderWayWritten
<1>7. conn = "open" => LinesUp(inFlight, F, T2, P, Top)
  <2>1. Injective(inFlight)
    BY SlotsInjective
  <2> HIDE DEF F, T, P
  <2> QED
    BY <1>1, <1>2, <1>4, <1>5, <2>1, PublishedLinesUp
<1>8. conn = "open" => Unaccounted(inFlight, F, T2, P) = {}
  <2> HIDE DEF T2
  <2> QED
    BY <1>5, <1>6 DEF Unaccounted
<1>9. Order'
  <2>1. LinesUp(inFlight', fromBroker', toBroker', pubrels', Top') /\ Distinct(pubrels')
    BY <1>0, <1>3, <1>4, <1>7
  <2>2. conn' = "open" => Unaccounted(inFlight', fromBroker', toBroker', pubrels') = {}
    BY <1>0, <1>8
  <2> QED
    BY <1>0, <2>1, <2>2 DEF Order
<1>10. Packets'
  <2>1. RequestTrue(inFlight, awaiting, x)
    <3>1. awaiting[nextId] = NoMsg
      BY <1>0 DEF Packets
    <3> QED
      BY <1>1, <1>2, <1>4, <3>1 DEF RequestTrue
  <2>2. \A i \in 1..Len(T) : RequestTrue(inFlight, awaiting, T[i])
    BY DEF Packets
  <2> HIDE DEF T2
  <2>3. \A i \in 1..Len(T2) : RequestTrue(inFlight, awaiting, T2[i])
    BY <1>6, <2>1, <2>2
  <2>4. \A i \in 1..Len(toBroker') : RequestTrue(inFlight, awaiting, toBroker'[i])
    BY <1>0, <2>2, <2>3
  <2> QED
    BY <1>0, <2>4 DEF Packets
<1> QED
  BY <1>3, <1>9, <1>10

\* The PUBLISH cannot be written: its entry is removed.
LEMMA WriteFailsKeeps ==
  ASSUME QoS # 0, TypeOK, OrderInv, WriteFails
  PROVE  OrderInv'
<1> USE DEF OrderInv
<1> DEFINE b == nextId
           F == fromBroker
           T == toBroker
           P == pubrels
<1>0. /\ wpc = "write" /\ wpc' = "returned" /\ pubErrors' = pubErrors + 1 /\ pubrels' = <<>>
      /\ inFlight' = [inFlight EXCEPT ![b] = NoMsg]
      /\ UNCHANGED <<sent, nextId, published, acked, refused, awaiting, accepted, fromBroker, toBroker, conn>>
  BY DEF WriteFails, Return, ackVars, brokerVars
<1>1. /\ F \in Seq(FromBroker) /\ T \in Seq(ToBroker) /\ P \in Seq(Ids) /\ inFlight \in [Ids -> Nat]
      /\ b \in Ids /\ sent \in Nat /\ Top = sent + 1 /\ Newest = sent + 1 /\ pubErrors \in Nat
  BY <1>0 DEF TypeOK, Top, Newest
<1>2. Top' = sent /\ Newest' = Newest /\ pubErrors' > 0
  BY <1>0, <1>1 DEF Top, Newest
<1>3. \A id \in Ids : inFlight'[id] = IF id = b THEN NoMsg ELSE inFlight[id]
  BY <1>0, <1>1
<1>4. /\ LinesUp(inFlight, F, T, P, sent + 1) /\ inFlight[b] = sent + 1 /\ inFlight[b] # NoMsg
      /\ b \notin UnderWay(F, T, P) /\ awaiting[b] = NoMsg
  BY <1>0, <1>1 DEF Order, Packets, NoMsg
<1>5. Injective(inFlight)
  BY SlotsInjective
<1>6. Slots'
  BY <1>0, <1>2, <1>3 DEF Slots
<1>7. Cardinality(InFlightIds') = Cardinality(InFlightIds) - 1 /\ Cardinality(InFlightIds) \in Nat
  BY <1>0, <1>1, <1>4, RemoveCount, InFlightFinite
<1>8. FlightBound'
  BY <1>7, SlackType DEF FlightBound
<1>9. Books'
  <2>1. Accounting'
    <3>1. published + 1 = Cardinality(acked) + refused + Cardinality(InFlightIds)
      BY <1>0 DEF Books, Accounting
    <3>2. IsFiniteSet(acked) /\ Cardinality(acked) \in Nat
      <4>1. acked \subseteq 1..Newest
        BY DEF Books
      <4>2. IsFiniteSet(1..Newest)
        BY <1>1, FS_Interval
      <4> QED
        BY <4>1, <4>2, FS_Subset, FS_CardinalityType
    <3>3. published \in Nat /\ refused \in Nat
      BY DEF TypeOK
    <3>4. published + 0 = Cardinality(acked) + refused + (Cardinality(InFlightIds) - 1)
      BY <1>7, <3>1, <3>2, <3>3
    <3> QED
      BY <1>0, <1>7, <3>4 DEF Accounting
  <2>2. ASSUME NEW m \in acked PROVE m \in 1..Newest' /\ \A id \in Ids : inFlight'[id] # m
    <3>1. m \in 1..Newest /\ \A id \in Ids : inFlight[id] # m
      BY DEF Books
    <3>2. m # NoMsg
      BY <1>1, <3>1 DEF NoMsg
    <3> QED
      BY <1>2, <1>3, <3>1, <3>2
  <2> QED
    BY <1>0, <2>1, <2>2 DEF Books
<1>10. Packets'
  <2>1. \A id \in Ids \ {b} : inFlight'[id] = inFlight[id]
    BY <1>3
  <2> HIDE DEF b
  <2> QED
    BY <1>0, <1>1, <1>4, <2>1, EntriesStay
<1>11. Order'
  <2>1. LinesUp(inFlight', fromBroker, toBroker, <<>>, sent)
    <3> HIDE DEF b
    <3> QED
      BY <1>0, <1>1, <1>4, <1>5, WithdrawnLinesUp
  <2>2. Distinct(<<>>)
    BY EmptyChannel
  <2> QED
    BY <1>0, <1>2, <2>1, <2>2 DEF Order
<1> QED
  BY <1>6, <1>8, <1>9, <1>10, <1>11

\* The identifiers in a queue that a packet is added to or taken from.
LEMMA QueueIds ==
  ASSUME NEW S, NEW s \in Seq(S)
  PROVE  /\ \A y : y \in S => IdsOf(Append(s, y)) = IdsOf(s) \cup {y.id}
         /\ s # <<>> => IdsOf(s) = IdsOf(Tail(s)) \cup {s[1].id}
<1>1. ASSUME NEW y \in S PROVE IdsOf(Append(s, y)) = IdsOf(s) \cup {y.id}
  <2> DEFINE t == Append(s, y)
  <2>1. /\ Len(t) = Len(s) + 1 /\ Len(s) \in Nat /\ t[Len(s) + 1] = y /\ \A i \in 1..Len(s) : t[i] = s[i]
    OBVIOUS
  <2> HIDE DEF t
  <2>2. /\ \A i \in 1..Len(s) : i \in 1..Len(t)
        /\ Len(s) + 1 \in 1..Len(t)
        /\ \A i \in 1..Len(t) : i \in 1..Len(s) \/ i = Len(s) + 1
    BY <2>1
  <2>3. ASSUME NEW id \in IdsOf(t) PROVE id \in IdsOf(s) \/ id = y.id
    <3>1. PICK i \in 1..Len(t) : id = t[i].id
      BY <2>3, Zenon DEF IdsOf
    <3> QED
      BY <2>1, <2>2, <3>1, Zenon DEF IdsOf
  <2>4. ASSUME NEW id \in IdsOf(s) PROVE id \in IdsOf(t)
    <3>1. PICK i \in 1..Len(s) : id = s[i].id
      BY <2>4, Zenon DEF IdsOf
    <3> QED
      BY <2>1, <2>2, <3>1, Zenon DEF IdsOf
  <2>5. y.id \in IdsOf(t)
    BY <2>1, <2>2, Zenon DEF IdsOf
  <2>6. IdsOf(t) = IdsOf(s) \cup {y.id}
    BY <2>3, <2>4, <2>5
  <2> QED
    BY <2>6 DEF t
<1>2. ASSUME s # <<>> PROVE IdsOf(s) = IdsOf(Tail(s)) \cup {s[1].id}
  <2> DEFINE t == Tail(s)
  <2>1. /\ Len(t) = Len(s) - 1 /\ Len(s) \in Nat \ {0} /\ \A i \in 1..Len(t) : t[i] = s[i + 1]
    BY <1>2
  <2> HIDE DEF t
  <2>2. /\ \A i \in 1..Len(t) : i + 1 \in 1..Len(s)
        /\ 1 \in 1..Len(s)
        /\ \A i \in 1..Len(s) : i = 1 \/ (i - 1 \in 1..Len(t) /\ (i - 1) + 1 = i)
    BY <2>1
  <2>3. ASSUME NEW id \in IdsOf(s) PROVE id \in IdsOf(t) \/ id = s[1].id
    <3>1. PICK i \in 1..Len(s) : id = s[i].id
      BY <2>3, Zenon DEF IdsOf
    <3>2. CASE i # 1
      <4>1. i - 1 \in 1..Len(t) /\ t[i - 1] = s[i]
        BY <2>1, <2>2, <3>2
      <4> QED
        BY <3>1, <4>1, Zenon DEF IdsOf
    <3> QED
      BY <3>1, <3>2
  <2>4. ASSUME NEW id \in IdsOf(t) PROVE id \in IdsOf(s)
    <3>1. PICK i \in 1..Len(t) : id = t[i].id
      BY <2>4, Zenon DEF IdsOf
    <3> QED
      BY <2>1, <2>2, <3>1, Zenon DEF IdsOf
  <2>5. s[1].id \in IdsOf(s)
    BY <2>2, Zenon DEF IdsOf
  <2>6. IdsOf(s) = IdsOf(t) \cup {s[1].id}
    BY <2>3, <2>4, <2>5
  <2> QED
    BY <2>6 DEF t
<1> QED
  BY <1>1, <1>2

\* The connection is lost.
LEMMA ConnectionLostKeeps ==
  ASSUME QoS # 0, TypeOK, OrderInv, ConnectionLost
  PROVE  OrderInv'
<1> USE DEF OrderInv
<1> DEFINE y == Ack("DISCONNECT", 0, FALSE)
           F == fromBroker
           F2 == fromBroker'
<1>0. /\ conn' # "open" /\ F2 \in {F, Append(F, y)}
      /\ UNCHANGED <<wpc, sent, nextId, pubErrors, published, inFlight, acked, refused, awaiting, accepted, toBroker, pubrels>>
  BY EnvironmentAssumption DEF ConnectionLost, writerVars, ackVars, windowVars, brokerVars
<1>1. /\ F \in Seq(FromBroker) /\ toBroker \in Seq(ToBroker) /\ pubrels \in Seq(Ids) /\ inFlight \in [Ids -> Nat] /\ Top \in Nat
      /\ y \in FromBroker /\ y.id = 0 /\ y.type = "DISCONNECT"
  BY DEF TypeOK, Top, FromBroker, Ack
<1>2. FlightBound' /\ Slots' /\ Books' /\ Top' = Top
  BY <1>0, CountersKept DEF Slots
<1> HIDE DEF y, F, F2
<1>3. LinesUp(inFlight, F2, toBroker, pubrels, Top)
  <2>1. LinesUp(inFlight, F, toBroker, pubrels, Top)
    BY DEF Order, F
  <2>2. LinesUp(inFlight, Append(F, y), toBroker, pubrels, Top)
    BY <1>1, <2>1, LostLinesUp
  <2> QED
    BY <1>0, <2>1, <2>2
<1>4. wpc = "write" => nextId \notin UnderWay(F2, toBroker, pubrels)
  <2>1. IdsOf(F2) \subseteq IdsOf(F) \cup {0}
    <3>1. IdsOf(Append(F, y)) = IdsOf(F) \cup {y.id}
      BY <1>1, QueueIds
    <3> QED
      BY <1>0, <1>1, <3>1
  <2>2. wpc = "write" => nextId \notin UnderWay(F, toBroker, pubrels) /\ nextId # 0
    BY DEF Order, F, Ids
  <2> QED
    BY <2>1, <2>2 DEF UnderWay
<1>5. Order'
  BY <1>0, <1>2, <1>3, <1>4 DEF Order, F2
<1>6. Packets'
  <2>1. AnswerTrue(inFlight, awaiting, accepted, y)
    BY <1>1 DEF AnswerTrue
  <2>2. \A i \in 1..Len(F) : AnswerTrue(inFlight, awaiting, accepted, F[i])
    BY DEF Packets, F
  <2>3. \A i \in 1..Len(F2) : (i \in 1..Len(F) /\ F2[i] = F[i]) \/ F2[i] = y
    <3>1. CASE F2 = F
      BY <3>1
    <3>2. CASE F2 = Append(F, y)
      BY <1>1, <3>2
    <3> QED
      BY <1>0, <3>1, <3>2
  <2>4. \A i \in 1..Len(F2) : AnswerTrue(inFlight, awaiting, accepted, F2[i])
    BY <2>1, <2>2, <2>3
  <2> QED
    BY <1>0, <2>4 DEF Packets, F2
<1> QED
  BY <1>2, <1>5, <1>6

\* The packet at place k is the only one about identifier a.
Alone(F, T, P, k, a) ==
    /\ \A i \in 1..Len(F) : i - Len(F) # k => F[i].id # a
    /\ \A i \in 1..Len(T) : i # k => T[i].id # a
    /\ \A i \in 1..Len(P) : P[i] # a

\* A packet about a message in flight is the only one about it.
LEMMA HeadAlone ==
  ASSUME QoS # 0, NEW F \in Seq(FromBroker), NEW T \in Seq(ToBroker), NEW inf \in [Ids -> Nat],
         NEW P \in Seq(Ids), NEW top \in Nat, LinesUp(inf, F, T, P, top),
         NEW k \in (1 - Len(F))..Len(T), NEW a \in Ids, IdAt(F, T, k) = a, inf[a] # NoMsg
  PROVE  Alone(F, T, P, k, a)
<1> DEFINE q == PipeOf(inf, F, T)
<1>0. /\ \A i \in (1 - Len(F))..Len(T) : q[i] = MsgOf(inf, IdAt(F, T, i))
      /\ MsgOf(inf, a) = inf[a]
  <2>1. \A i \in (1 - Len(F))..Len(T) : q[i] = MsgOf(inf, IdAt(F, T, i))
    BY LinesUpMeans
  <2> HIDE DEF q
  <2> QED
    BY <2>1 DEF MsgOf, Ids
<1>1. Live(1 - Len(F), Len(T), q, HandedOf(inf, P), UnansweredOf(inf))
  BY DEF LinesUp, Pipeline
<1>2. ASSUME NEW i \in (1 - Len(F))..Len(T), i # k PROVE IdAt(F, T, i) # a
  <2>1. i < k \/ k < i
    BY <1>2, PlaceType
  <2>2. q[k] = inf[a]
    BY <1>0
  <2>3. IdAt(F, T, i) = a => q[i] = inf[a]
    BY <1>0
  <2> HIDE DEF q
  <2> QED
    BY <1>1, <2>1, <2>2, <2>3 DEF Live
<1>3. ASSUME NEW i \in 1..Len(P) PROVE P[i] # a
  <2>1. inf[P[i]] \in HandedOf(inf, P)
    BY DEF HandedOf
  <2>2. q[k] = inf[a]
    BY <1>0
  <2> HIDE DEF q
  <2>3. inf[a] \notin HandedOf(inf, P)
    BY <1>1, <2>2 DEF Live
  <2> QED
    BY <2>1, <2>3
<1>4. ASSUME NEW i \in 1..Len(F), i - Len(F) # k PROVE F[i].id # a
  <2>1. i - Len(F) \in (1 - Len(F))..Len(T) /\ IdAt(F, T, i - Len(F)) = F[i].id
    BY PlaceType
  <2> QED
    BY <1>2, <1>4, <2>1
<1>5. ASSUME NEW i \in 1..Len(T), i # k PROVE T[i].id # a
  <2>1. i \in (1 - Len(F))..Len(T) /\ IdAt(F, T, i) = T[i].id
    BY PlaceType
  <2> QED
    BY <1>2, <1>5, <2>1
<1> QED
  BY <1>3, <1>4, <1>5 DEF Alone

\* The broker answers the packet at the head of its queue with y.
Answering(y) ==
    /\ toBroker # <<>> /\ toBroker[1].type # "DISCONNECT" /\ y.id = toBroker[1].id
    /\ y.type \in {"PUBACK", "PUBREC"} => toBroker[1].type = "PUBLISH"
    /\ fromBroker' = Append(fromBroker, y) /\ toBroker' = Tail(toBroker)
    /\ AnswerTrue(inFlight, awaiting', accepted', y)
    /\ accepted \subseteq accepted'
    /\ \A id \in Ids : id # y.id => awaiting'[id] = awaiting[id]
    /\ awaiting'[y.id] # NoMsg => inFlight[y.id] = awaiting'[y.id] /\ inFlight[y.id] \in accepted'
    /\ UNCHANGED <<wpc, sent, nextId, pubErrors, published, inFlight, acked, refused, pubrels, conn>>

\* It keeps the invariant: nobody else is concerned with the message.
LEMMA AnsweringKeeps ==
  ASSUME QoS # 0, TypeOK, OrderInv, NEW y \in FromBroker, Answering(y)
  PROVE  OrderInv'
<1> USE DEF OrderInv
<1> DEFINE F == fromBroker
           T == toBroker
           P == pubrels
           F2 == Append(F, y)
           T2 == Tail(T)
           a == y.id
<1>0. /\ T # <<>> /\ T[1].type # "DISCONNECT" /\ a = T[1].id
      /\ y.type \in {"PUBACK", "PUBREC"} => T[1].type = "PUBLISH"
      /\ fromBroker' = F2 /\ toBroker' = T2
      /\ AnswerTrue(inFlight, awaiting', accepted', y)
      /\ accepted \subseteq accepted'
      /\ \A id \in Ids : id # a => awaiting'[id] = awaiting[id]
      /\ awaiting'[a] # NoMsg => inFlight[a] = awaiting'[a] /\ inFlight[a] \in accepted'
      /\ UNCHANGED <<wpc, sent, nextId, pubErrors, published, inFlight, acked, refused, pubrels, conn>>
  BY DEF Answering
<1>1. /\ F \in Seq(FromBroker) /\ T \in Seq(ToBroker) /\ P \in Seq(Ids) /\ inFlight \in [Ids -> Nat] /\ Top \in Nat
  BY DEF TypeOK, Top
<1>2. FlightBound' /\ Slots' /\ Books' /\ Top' = Top
  BY <1>0, CountersKept DEF Slots
<1>3. LinesUp(inFlight, F, T, P, Top)
  BY DEF Order
<1>4. /\ 1 \in 1..Len(T) /\ T[1] \in ToBroker /\ a \in Ids /\ a # 0 /\ inFlight[a] # NoMsg
  <2>1. 1 \in 1..Len(T) /\ T[1] \in ToBroker
    BY <1>0, <1>1
  <2>2. RequestTrue(inFlight, awaiting, T[1])
    BY <2>1 DEF Packets
  <2>3. a \in Ids /\ a # 0
    BY <1>0, <2>1, PacketIds, Zenon
  <2>4. inFlight[a] # NoMsg
    BY <1>0, <2>2, Zenon DEF RequestTrue
  <2> QED
    BY <2>1, <2>3, <2>4
<1>5. /\ \A i \in 1..Len(F) : F[i].id # a
      /\ \A i \in 1..Len(T) : i # 1 => T[i].id # a
      /\ \A i \in 1..Len(P) : P[i] # a
  <2>1. 1 \in (1 - Len(F))..Len(T) /\ IdAt(F, T, 1) = a /\ Len(F) \in Nat
    BY <1>0, <1>1, <1>4, PlaceType
  <2>2. \A i \in 1..Len(F) : i - Len(F) # 1
    BY <2>1
  <2>3. /\ \A i \in 1..Len(F) : i - Len(F) # 1 => F[i].id # a
        /\ \A i \in 1..Len(T) : i # 1 => T[i].id # a
        /\ \A i \in 1..Len(P) : P[i] # a
    <3> DEFINE k == 1
    <3>1. k \in (1 - Len(F))..Len(T) /\ IdAt(F, T, k) = a
      BY <2>1
    <3> HIDE DEF F, T, P, a, k
    <3>2. Alone(F, T, P, k, a)
      BY <1>1, <1>3, <1>4, <3>1, HeadAlone
    <3> QED
      BY <3>2 DEF k, Alone
  <2> QED
    BY <2>2, <2>3
<1>6. LinesUp(inFlight, F2, T2, P, Top)
  <2> HIDE DEF F, T, P
  <2> QED
    BY <1>0, <1>1, <1>3, RepliedLinesUp
<1>7. UnderWay(F2, T2, P) = UnderWay(F, T, P)
  <2>1. IdsOf(F2) = IdsOf(F) \cup {a}
    BY <1>1, QueueIds
  <2>2. IdsOf(T) = IdsOf(T2) \cup {a}
    BY <1>0, <1>1, QueueIds
  <2> HIDE DEF F2, T2, F, T, P, a
  <2> QED
    BY <2>1, <2>2 DEF UnderWay
<1>8. Order'
  <2>1. LinesUp(inFlight', fromBroker', toBroker', pubrels', Top') /\ Distinct(pubrels')
    BY <1>0, <1>2, <1>6 DEF Order
  <2>2. UnderWay(fromBroker', toBroker', pubrels') = UnderWay(fromBroker, toBroker, pubrels)
    BY <1>0, <1>7
  <2>3. Unaccounted(inFlight', fromBroker', toBroker', pubrels') = Unaccounted(inFlight, fromBroker, toBroker, pubrels)
    BY <1>0, <2>2 DEF Unaccounted
  <2> QED
    BY <1>0, <1>2, <2>1, <2>2, <2>3 DEF Order
<1>9. Packets'
  <2>1. ASSUME NEW i \in 1..Len(F) PROVE AnswerTrue(inFlight, awaiting', accepted', F[i])
    <3>1. F[i] \in FromBroker /\ AnswerTrue(inFlight, awaiting, accepted, F[i])
      BY DEF TypeOK, Packets
    <3>2. F[i].id = 0 \/ F[i].id \in Ids
      BY <1>1, PlaceIds
    <3>3. F[i].id # 0 => awaiting'[F[i].id] = awaiting[F[i].id]
      BY <1>0, <1>5, <3>2
    <3> QED
      BY <1>0, <3>1, <3>3, PacketStays
  <2>2. ASSUME NEW i \in 1..Len(T), i # 1 PROVE RequestTrue(inFlight, awaiting', T[i])
    <3>1. T[i] \in ToBroker /\ RequestTrue(inFlight, awaiting, T[i])
      BY DEF TypeOK, Packets
    <3>2. T[i].id = 0 \/ T[i].id \in Ids
      BY <1>1, PlaceIds
    <3>3. T[i].id # 0 => awaiting'[T[i].id] = awaiting[T[i].id]
      BY <1>0, <1>5, <2>2, <3>2
    <3> QED
      BY <1>0, <3>1, <3>3, PacketStays
  <2>3. \A i \in 1..Len(F2) : AnswerTrue(inFlight, awaiting', accepted', F2[i])
    <3>1. \A i \in 1..Len(F2) : (i \in 1..Len(F) /\ F2[i] = F[i]) \/ F2[i] = y
      BY <1>1
    <3> HIDE DEF F2
    <3> QED
      BY <1>0, <2>1, <3>1
  <2>4. \A i \in 1..Len(T2) : RequestTrue(inFlight, awaiting', T2[i])
    <3>1. \A i \in 1..Len(T2) : i + 1 \in 1..Len(T) /\ i + 1 # 1 /\ T2[i] = T[i + 1]
      BY <1>0, <1>1
    <3> HIDE DEF T2
    <3> QED
      BY <2>2, <3>1
  <2>5. ASSUME NEW i \in 1..Len(P) PROVE ReleaseTrue(inFlight, awaiting', P[i])
    <3>1. P[i] \in Ids /\ P[i] # a /\ ReleaseTrue(inFlight, awaiting, P[i])
      BY <1>1, <1>5 DEF Packets
    <3> QED
      BY <1>0, <3>1 DEF ReleaseTrue
  <2>6. \A id \in Ids : awaiting'[id] # NoMsg => inFlight[id] = awaiting'[id] /\ inFlight[id] \in accepted'
    BY <1>0 DEF Packets
  <2>7. wpc = "write" => awaiting'[nextId] = NoMsg
    <3>1. wpc = "write" => nextId \in Ids /\ nextId # a
      <4>1. a \in UnderWay(F, T, P)
        BY <1>0, <1>4, Zenon DEF UnderWay, IdsOf
      <4> QED
        BY <4>1 DEF Order
    <3> QED
      BY <1>0, <3>1 DEF Packets
  <2> QED
    BY <1>0, <2>3, <2>4, <2>5, <2>6, <2>7 DEF Packets
<1> QED
  BY <1>2, <1>8, <1>9

\* The broker reads a PUBLISH or a PUBREL.
LEMMA BrokerAnswers ==
  ASSUME QoS # 0, TypeOK, OrderInv, BrokerRead, Head(toBroker).type # "DISCONNECT"
  PROVE  \E y \in FromBroker : Answering(y)
<1> USE DEF OrderInv
<1> DEFINE p == toBroker[1]
<1>0. /\ toBroker # <<>> /\ toBroker' = Tail(toBroker) /\ Head(toBroker) = p /\ p \in ToBroker /\ p.type # "DISCONNECT"
      /\ UNCHANGED <<wpc, sent, nextId, pubErrors, published, inFlight, acked, refused, pubrels>>
      /\ RequestTrue(inFlight, awaiting, p)
  <2>1. toBroker # <<>> /\ toBroker' = Tail(toBroker)
        /\ UNCHANGED <<wpc, sent, nextId, pubErrors, published, inFlight, acked, refused, pubrels>>
    BY DEF BrokerRead, writerVars, ackVars, windowVars
  <2>2. Head(toBroker) = p /\ p \in ToBroker /\ 1 \in 1..Len(toBroker)
    BY <2>1 DEF TypeOK
  <2> QED
    BY <2>1, <2>2 DEF Packets
<1>1. p.id \in Ids /\ p.id # 0
  BY <1>0, PacketIds, Zenon
<1>2. \/ p.type = "PUBLISH" /\ (\E err \in Codes : BrokerPublish(p, err)) /\ UNCHANGED conn
      \/ /\ p.type = "PUBREL"
         /\ Reply(Ack("PUBCOMP", p.id, awaiting[p.id] = NoMsg))
         /\ awaiting' = [awaiting EXCEPT ![p.id] = NoMsg]
         /\ UNCHANGED <<accepted, conn>>
  BY <1>0 DEF BrokerRead
<1>3. awaiting \in [Ids -> Nat] /\ Codes \in SUBSET BOOLEAN
  BY EnvironmentAssumption DEF TypeOK
<1> HIDE DEF p
<1>4. CASE p.type = "PUBLISH" /\ (\E err \in Codes : BrokerPublish(p, err)) /\ UNCHANGED conn
  <2>1. PICK err \in Codes : BrokerPublish(p, err)
    BY <1>4
  <2>2. p.msg # NoMsg /\ inFlight[p.id] = p.msg /\ awaiting[p.id] = NoMsg
    BY <1>0, <1>4 DEF RequestTrue
  <2>3. CASE QoS = 1
    <3> DEFINE y == Ack("PUBACK", p.id, err)
    <3>1. /\ accepted' = (IF err THEN accepted ELSE accepted \cup {p.msg})
          /\ fromBroker' = Append(fromBroker, y) /\ awaiting' = awaiting
      BY <2>1, <2>3 DEF BrokerPublish, Reply
    <3>2. y \in FromBroker /\ y.id = p.id /\ y.type = "PUBACK" /\ y.err = err
      BY <1>1, <1>3, AckType DEF Ack, AckTypes
    <3> HIDE DEF y
    <3>3. accepted \subseteq accepted' /\ (~err => p.msg \in accepted')
      BY <3>1
    <3>4. awaiting'[y.id] = NoMsg /\ \A id \in Ids : id # y.id => awaiting'[id] = awaiting[id]
      BY <2>2, <3>1, <3>2
    <3>5. AnswerTrue(inFlight, awaiting', accepted', y)
      BY <2>2, <2>3, <3>2, <3>3, <3>4, Zenon DEF AnswerTrue
    <3>6. Answering(y)
      BY <1>0, <1>4, <3>1, <3>2, <3>3, <3>4, <3>5, Zenon DEF Answering, p
    <3> QED
      BY <3>2, <3>6
  <2>4. CASE QoS = 2
    <3> DEFINE y == Ack("PUBREC", p.id, err)
    <3>1. /\ fromBroker' = Append(fromBroker, y)
          /\ IF err THEN UNCHANGED <<awaiting, accepted>>
             ELSE /\ awaiting' = [awaiting EXCEPT ![p.id] = p.msg]
                  /\ accepted' = accepted \cup {p.msg}
      BY <2>1, <2>2, <2>4 DEF BrokerPublish, Reply
    <3>2. y \in FromBroker /\ y.id = p.id /\ y.type = "PUBREC" /\ y.err = err
      BY <1>1, <1>3, AckType DEF Ack, AckTypes
    <3> HIDE DEF y
    <3>3. accepted \subseteq accepted' /\ (~err => p.msg \in accepted')
      BY <3>1
    <3>4. awaiting'[p.id] = (IF err THEN NoMsg ELSE p.msg) /\ \A id \in Ids : id # p.id => awaiting'[id] = awaiting[id]
      BY <1>1, <1>3, <2>2, <3>1
    <3>5. AnswerTrue(inFlight, awaiting', accepted', y)
      BY <2>2, <2>4, <3>2, <3>4, Zenon DEF AnswerTrue
    <3>6. awaiting'[y.id] # NoMsg => inFlight[y.id] = awaiting'[y.id] /\ inFlight[y.id] \in accepted'
      BY <2>2, <3>2, <3>3, <3>4, Zenon
    <3>7. \A id \in Ids : id # y.id => awaiting'[id] = awaiting[id]
      BY <3>2, <3>4
    <3>8. Answering(y)
      BY <1>0, <1>4, <3>1, <3>2, <3>3, <3>5, <3>6, <3>7, Zenon DEF Answering, p
    <3> QED
      BY <3>2, <3>8
  <2> QED
    BY <2>3, <2>4, QoSAssumption
<1>5. CASE /\ p.type = "PUBREL"
           /\ Reply(Ack("PUBCOMP", p.id, awaiting[p.id] = NoMsg))
           /\ awaiting' = [awaiting EXCEPT ![p.id] = NoMsg]
           /\ UNCHANGED <<accepted, conn>>
  <2> DEFINE err == (awaiting[p.id] = NoMsg)
             y == Ack("PUBCOMP", p.id, err)
  <2>1. QoS = 2 /\ inFlight[p.id] # NoMsg /\ awaiting[p.id] # NoMsg
    BY <1>0, <1>5 DEF RequestTrue
  <2>2. fromBroker' = Append(fromBroker, y) /\ accepted' = accepted
    BY <1>5 DEF Reply
  <2>3. err \in BOOLEAN /\ ~err
    BY <2>1
  <2> HIDE DEF err
  <2>4. y \in FromBroker /\ y.id = p.id /\ y.type = "PUBCOMP" /\ y.err = err
    BY <1>1, <2>3, AckType DEF Ack, AckTypes
  <2> HIDE DEF y
  <2>5. awaiting'[p.id] = NoMsg /\ \A id \in Ids : id # p.id => awaiting'[id] = awaiting[id]
    BY <1>1, <1>3, <1>5
  <2>6. inFlight[p.id] \in accepted'
    BY <1>1, <2>1, <2>2 DEF Packets
  <2>7. AnswerTrue(inFlight, awaiting', accepted', y)
    BY <2>1, <2>3, <2>4, <2>5, <2>6, Zenon DEF AnswerTrue
  <2>8. Answering(y)
    BY <1>0, <1>5, <2>2, <2>4, <2>5, <2>7, Zenon DEF Answering, p
  <2> QED
    BY <2>4, <2>8
<1> QED
  BY <1>2, <1>4, <1>5

\* The broker reads the DISCONNECT.
LEMMA BrokerCloses ==
  ASSUME QoS # 0, TypeOK, OrderInv, BrokerRead, Head(toBroker).type = "DISCONNECT"
  PROVE  OrderInv'
<1> USE DEF OrderInv
<1> DEFINE F == fromBroker
           T == toBroker
           P == pubrels
           T2 == Tail(T)
<1>0. /\ T # <<>> /\ toBroker' = T2 /\ conn' = "eof"
      /\ UNCHANGED <<wpc, sent, nextId, pubErrors, published, inFlight, acked, refused, pubrels, awaiting, accepted, fromBroker>>
  BY DEF BrokerRead, writerVars, ackVars, windowVars
<1>1. /\ F \in Seq(FromBroker) /\ T \in Seq(ToBroker) /\ P \in Seq(Ids) /\ inFlight \in [Ids -> Nat] /\ Top \in Nat
      /\ Head(T) = T[1] /\ T[1] \in ToBroker
  BY <1>0 DEF TypeOK, Top
<1>2. FlightBound' /\ Slots' /\ Books' /\ Top' = Top
  BY <1>0, CountersKept DEF Slots
<1>3. T[1].id = 0
  BY <1>1, PacketIds, Zenon
<1>4. LinesUp(inFlight, F, T, P, Top)
  BY DEF Order
<1>5. LinesUp(inFlight, F, T2, P, Top)
  <2> HIDE DEF F, T, P
  <2> QED
    BY <1>0, <1>1, <1>3, <1>4, ClosedLinesUp
<1>6. UnderWay(F, T2, P) \subseteq UnderWay(F, T, P)
  <2>1. IdsOf(T) = IdsOf(T2) \cup {T[1].id}
    BY <1>0, <1>1, QueueIds
  <2> HIDE DEF F, T, P, T2
  <2> QED
    BY <2>1 DEF UnderWay
<1>7. Order'
  <2>1. LinesUp(inFlight', fromBroker', toBroker', pubrels', Top') /\ Distinct(pubrels')
    BY <1>0, <1>2, <1>5 DEF Order
  <2>2. UnderWay(fromBroker', toBroker', pubrels') \subseteq UnderWay(fromBroker, toBroker, pubrels)
    BY <1>0, <1>6
  <2> QED
    BY <1>0, <1>2, <2>1, <2>2 DEF Order
<1>8. Packets'
  <2>1. \A i \in 1..Len(T2) : i + 1 \in 1..Len(T) /\ T2[i] = T[i + 1]
    BY <1>0, <1>1
  <2>2. \A i \in 1..Len(T) : RequestTrue(inFlight, awaiting, T[i])
    BY DEF Packets
  <2>3. \A i \in 1..Len(T2) : RequestTrue(inFlight, awaiting, T2[i])
    <3> HIDE DEF T2, T
    <3> QED
      BY <2>1, <2>2
  <2> QED
    BY <1>0, <2>3 DEF Packets
<1> QED
  BY <1>2, <1>7, <1>8

\* The first packet from the broker is the only one about its message.
LEMMA FirstAlone ==
  ASSUME QoS # 0, TypeOK, Order, fromBroker # <<>>, NEW a \in Ids, fromBroker[1].id = a, inFlight[a] # NoMsg
  PROVE  /\ \A i \in 1..Len(Tail(fromBroker)) : i + 1 \in 1..Len(fromBroker) /\ Tail(fromBroker)[i] = fromBroker[i + 1]
                                                /\ Tail(fromBroker)[i].id # a
         /\ \A i \in 1..Len(toBroker) : toBroker[i].id # a
         /\ \A i \in 1..Len(pubrels) : pubrels[i] # a
<1> DEFINE F == fromBroker
           T == toBroker
           P == pubrels
           k == 1 - Len(F)
<1>1. /\ F \in Seq(FromBroker) /\ T \in Seq(ToBroker) /\ P \in Seq(Ids) /\ inFlight \in [Ids -> Nat] /\ Top \in Nat
      /\ LinesUp(inFlight, F, T, P, Top)
  BY DEF TypeOK, Top, Order
<1>2. k \in (1 - Len(F))..Len(T) /\ IdAt(F, T, k) = a
  BY <1>1, FirstPlace
<1>3. Alone(F, T, P, k, a)
  <2> HIDE DEF F, T, P, k
  <2> QED
    BY <1>1, <1>2, HeadAlone
<1>4. \A i \in 1..Len(Tail(F)) : i + 1 \in 1..Len(F) /\ Tail(F)[i] = F[i + 1] /\ i + 1 # 1 /\ i \in Nat
  BY <1>1
<1>5. \A i \in 1..Len(F) : i # 1 => i - Len(F) # k
  BY <1>1
<1>6. \A i \in 1..Len(T) : i # k
  BY <1>1
<1> HIDE DEF k
<1>7. \A i \in 1..Len(Tail(F)) : Tail(F)[i].id # a
  BY <1>3, <1>4, <1>5 DEF Alone
<1> QED
  BY <1>3, <1>4, <1>6, <1>7 DEF Alone

\* complete_ack of the message that the first packet from the broker is about.
Completing(a, err) ==
    /\ fromBroker # <<>> /\ fromBroker[1].id = a
    /\ inFlight[a] # NoMsg /\ awaiting[a] = NoMsg /\ (~err => inFlight[a] \in accepted)
    /\ fromBroker' = Tail(fromBroker)
    /\ inFlight' = [inFlight EXCEPT ![a] = NoMsg]
    /\ refused' = refused + (IF err THEN 1 ELSE 0)
    /\ acked' = (IF err THEN acked ELSE acked \cup {inFlight[a]})
    /\ UNCHANGED <<wpc, sent, nextId, pubErrors, published, awaiting, accepted, toBroker, pubrels, conn>>

\* It keeps the books: what it counts was not counted before.
LEMMA CompletingBooks ==
  ASSUME QoS # 0, TypeOK, OrderInv, NEW a \in Ids, NEW err \in BOOLEAN, Completing(a, err)
  PROVE  FlightBound' /\ Slots' /\ Books' /\ Newest' = Newest /\ Top' = Top
<1> USE DEF OrderInv
<1> DEFINE m == inFlight[a]
<1>0. /\ m # NoMsg /\ (~err => m \in accepted)
      /\ inFlight' = [inFlight EXCEPT ![a] = NoMsg]
      /\ refused' = refused + (IF err THEN 1 ELSE 0)
      /\ acked' = (IF err THEN acked ELSE acked \cup {m})
      /\ UNCHANGED <<wpc, sent, nextId, pubErrors, published, accepted>>
  BY DEF Completing
<1>1. /\ inFlight \in [Ids -> Nat] /\ sent \in Nat /\ Newest \in Nat /\ refused \in Nat /\ published \in Nat
      /\ nextId \in 0..MaxId /\ MaxId \in Nat /\ m \in Nat
  BY MaxIdAssumption DEF TypeOK, Newest
<1>2. Top' = Top /\ Newest' = Newest
  BY <1>0 DEF Top, Newest
<1>3. \A id \in Ids : inFlight'[id] = IF id = a THEN NoMsg ELSE inFlight[id]
  BY <1>0, <1>1
<1>4. Slots'
  BY <1>0, <1>2, <1>3 DEF Slots
<1>5. Cardinality(InFlightIds') = Cardinality(InFlightIds) - 1 /\ Cardinality(InFlightIds) \in Nat
  BY <1>0, <1>1, RemoveCount, InFlightFinite
<1>6. FlightBound'
  BY <1>5, SlackType DEF FlightBound
<1>7. m \notin acked /\ m \in 1..Newest
  <2>1. m \notin acked
    BY DEF Books
  <2>2. m \in UnansweredOf(inFlight)
    BY <1>0 DEF UnansweredOf
  <2>3. UnansweredOf(inFlight) \subseteq 1..Top
    BY DEF Order, LinesUp, Pipeline
  <2>4. m \in 1..Newest
    BY <1>1, <2>2, <2>3 DEF Top, Newest
  <2> QED
    BY <2>1, <2>4
<1>8. IsFiniteSet(acked) /\ Cardinality(acked) \in Nat
  <2>1. acked \subseteq 1..Newest
    BY DEF Books
  <2>2. IsFiniteSet(1..Newest)
    BY <1>1, FS_Interval
  <2> QED
    BY <2>1, <2>2, FS_Subset, FS_CardinalityType
<1>9. Cardinality(acked') = Cardinality(acked) + (IF err THEN 0 ELSE 1)
  <2> HIDE DEF m
  <2>1. CASE err
    BY <1>0, <1>8, <2>1
  <2>2. CASE ~err
    <3>1. acked' = acked \cup {m}
      BY <1>0, <2>2
    <3>2. Cardinality(acked \cup {m}) = Cardinality(acked) + 1
      BY <1>7, <1>8, FS_AddElement
    <3> QED
      BY <2>2, <3>1, <3>2
  <2> QED
    BY <2>1, <2>2
<1>10. Accounting'
  <2> DEFINE w == IF wpc \in {"write", "count"} THEN 1 ELSE 0
             x == IF err THEN 1 ELSE 0
             y == IF err THEN 0 ELSE 1
             A == Cardinality(acked)
             I == Cardinality(InFlightIds)
  <2>1. published + w = A + refused + I /\ w \in Nat
    BY DEF Books, Accounting
  <2>2. x + y = 1 /\ x \in Nat /\ y \in Nat
    OBVIOUS
  <2>3. A \in Nat /\ I \in Nat
    BY <1>5, <1>8
  <2>4. /\ published' = published /\ w' = w /\ Cardinality(acked') = A + y /\ refused' = refused + x
        /\ Cardinality(InFlightIds') = I - 1
    BY <1>0, <1>5, <1>9
  <2> HIDE DEF x, y, A, I
  <2>5. published + w = (A + y) + (refused + x) + (I - 1)
    <3> HIDE DEF w
    <3> QED
      BY <1>1, <2>1, <2>2, <2>3
  <2>6. published' + w' = Cardinality(acked') + refused' + Cardinality(InFlightIds')
    BY <2>4, <2>5
  <2> QED
    BY <2>6 DEF Accounting
<1>11. acked' \subseteq accepted'
  <2>1. acked \subseteq accepted
    BY DEF Books
  <2> QED
    BY <1>0, <2>1, Zenon
<1>12. ASSUME NEW n \in acked' PROVE n \in 1..Newest' /\ \A id \in Ids : inFlight'[id] # n
  <2>1. CASE n \in acked
    <3>1. n \in 1..Newest /\ \A id \in Ids : inFlight[id] # n
      BY <2>1 DEF Books
    <3>2. n # NoMsg
      BY <3>1 DEF NoMsg
    <3> QED
      BY <1>2, <1>3, <3>1, <3>2
  <2>2. CASE n = m
    <3>1. Injective(inFlight)
      BY SlotsInjective
    <3>2. \A id \in Ids : inFlight'[id] # n
      BY <1>0, <1>3, <2>2, <3>1 DEF Injective
    <3> QED
      BY <1>2, <1>7, <2>2, <3>2
  <2> QED
    BY <1>0, <1>12, <2>1, <2>2
<1>13. Books'
  BY <1>0, <1>10, <1>11, <1>12 DEF Books
<1> QED
  BY <1>2, <1>4, <1>6, <1>13

\* It keeps the order, and what the other packets say.
LEMMA CompletingKeeps ==
  ASSUME QoS # 0, TypeOK, OrderInv, NEW a \in Ids, NEW err \in BOOLEAN, Completing(a, err)
  PROVE  OrderInv'
<1> USE DEF OrderInv
<1> DEFINE F == fromBroker
           T == toBroker
           P == pubrels
           F2 == Tail(F)
           inf2 == [inFlight EXCEPT ![a] = NoMsg]
<1>0. /\ F # <<>> /\ F[1].id = a /\ inFlight[a] # NoMsg /\ awaiting[a] = NoMsg
      /\ fromBroker' = F2 /\ inFlight' = inf2
      /\ UNCHANGED <<wpc, sent, nextId, pubErrors, published, awaiting, accepted, toBroker, pubrels, conn>>
  BY DEF Completing
<1>1. /\ F \in Seq(FromBroker) /\ T \in Seq(ToBroker) /\ P \in Seq(Ids) /\ inFlight \in [Ids -> Nat] /\ Top \in Nat
  BY DEF TypeOK, Top
<1>2. FlightBound' /\ Slots' /\ Books' /\ Top' = Top
  BY CompletingBooks
<1>3. /\ \A i \in 1..Len(F2) : i + 1 \in 1..Len(F) /\ F2[i] = F[i + 1] /\ F2[i].id # a
      /\ \A i \in 1..Len(T) : T[i].id # a
      /\ \A i \in 1..Len(P) : P[i] # a
  BY <1>0, FirstAlone
<1>4. \A id \in Ids : inf2[id] = IF id = a THEN NoMsg ELSE inFlight[id]
  BY <1>1
<1>5. LinesUp(inf2, F2, T, P, Top)
  <2>1. LinesUp(inFlight, F, T, P, Top) /\ Injective(inFlight)
    BY SlotsInjective DEF Order
  <2> HIDE DEF F, T, P
  <2> QED
    BY <1>0, <1>1, <2>1, AnsweredLinesUp
<1> HIDE DEF inf2
<1>6. UnderWay(F, T, P) = UnderWay(F2, T, P) \cup {a}
  <2>1. IdsOf(F) = IdsOf(F2) \cup {a}
    BY <1>0, <1>1, QueueIds
  <2> HIDE DEF F, T, P, F2
  <2> QED
    BY <2>1 DEF UnderWay
<1>7. Order'
  <2>1. LinesUp(inFlight', fromBroker', toBroker', pubrels', Top') /\ Distinct(pubrels')
    BY <1>0, <1>2, <1>5 DEF Order
  <2>2. HandedOf(inf2, P) \subseteq HandedOf(inFlight, P)
    <3> SUFFICES ASSUME NEW i \in 1..Len(P) PROVE inf2[P[i]] \in HandedOf(inFlight, P)
      BY DEF HandedOf
    <3>1. P[i] \in Ids /\ P[i] # a
      BY <1>1, <1>3
    <3> QED
      BY <1>4, <3>1 DEF HandedOf
  <2>3. wpc' \in {"pace", "acquire", "insert"} => \A h \in HandedOf(inFlight', pubrels') : Top' < h + Slack
    BY <1>0, <1>2, <2>2 DEF Order
  <2>4. wpc' = "write" => /\ nextId' \in Ids /\ inFlight'[nextId'] = Top'
                          /\ nextId' \notin UnderWay(fromBroker', toBroker', pubrels')
    <3>1. wpc = "write" => nextId \in Ids /\ inFlight[nextId] = Top /\ nextId \notin UnderWay(F, T, P)
      BY DEF Order
    <3> HIDE DEF F, T, P, F2
    <3>2. wpc = "write" => inf2[nextId] = Top /\ nextId \notin UnderWay(F2, T, P)
      BY <1>4, <1>6, <3>1
    <3> QED
      BY <1>0, <1>2, <3>1, <3>2 DEF F, T, P
  <2>5. Unaccounted(inf2, F2, T, P) \subseteq Unaccounted(inFlight, F, T, P)
    <3> HIDE DEF F, T, P, F2
    <3> QED
      BY <1>4, <1>6 DEF Unaccounted
  <2>6. conn' = "open" /\ wpc' # "returned" =>
          Unaccounted(inFlight', fromBroker', toBroker', pubrels') \subseteq IF wpc' = "write" THEN {nextId'} ELSE {}
    <3>1. conn = "open" /\ wpc # "returned" =>
            Unaccounted(inFlight, F, T, P) \subseteq IF wpc = "write" THEN {nextId} ELSE {}
      BY DEF Order
    <3>2. Unaccounted(inFlight', fromBroker', toBroker', pubrels') = Unaccounted(inf2, F2, T, P)
      BY <1>0
    <3> HIDE DEF F, T, P, F2
    <3> QED
      BY <1>0, <2>5, <3>1, <3>2
  <2> QED
    BY <2>1, <2>3, <2>4, <2>6 DEF Order
<1>8. Packets'
  <2>1. ASSUME NEW i \in 1..Len(F2) PROVE AnswerTrue(inf2, awaiting, accepted, F2[i])
    <3>1. F2[i] \in FromBroker /\ AnswerTrue(inFlight, awaiting, accepted, F2[i])
      BY <1>1, <1>3 DEF Packets
    <3>2. F2[i].id = 0 \/ F2[i].id \in Ids
      BY <3>1, PacketIds, Zenon
    <3>3. F2[i].id # 0 => inf2[F2[i].id] = inFlight[F2[i].id]
      BY <1>3, <1>4, <3>2
    <3> QED
      BY <3>1, <3>3, PacketStays
  <2>2. ASSUME NEW i \in 1..Len(T) PROVE RequestTrue(inf2, awaiting, T[i])
    <3>1. T[i] \in ToBroker /\ RequestTrue(inFlight, awaiting, T[i])
      BY <1>1 DEF Packets
    <3>2. T[i].id = 0 \/ T[i].id \in Ids
      BY <3>1, PacketIds, Zenon
    <3>3. T[i].id # 0 => inf2[T[i].id] = inFlight[T[i].id]
      BY <1>3, <1>4, <3>2
    <3> QED
      BY <3>1, <3>3, PacketStays
  <2>3. ASSUME NEW i \in 1..Len(P) PROVE ReleaseTrue(inf2, awaiting, P[i])
    <3>1. P[i] \in Ids /\ P[i] # a /\ ReleaseTrue(inFlight, awaiting, P[i])
      BY <1>1, <1>3 DEF Packets
    <3> QED
      BY <1>4, <3>1 DEF ReleaseTrue
  <2>4. \A id \in Ids : awaiting[id] # NoMsg => inf2[id] = awaiting[id] /\ inf2[id] \in accepted
    BY <1>0, <1>4 DEF Packets
  <2>5. wpc = "write" => awaiting[nextId] = NoMsg
    BY DEF Packets
  <2> HIDE DEF F2
  <2> QED
    BY <1>0, <2>1, <2>2, <2>3, <2>4, <2>5 DEF Packets
<1> QED
  BY <1>2, <1>7, <1>8

\* A PUBREC that goes on, read by the ack task: handed to the writer, while there is one.
Handing(a) ==
    /\ fromBroker # <<>> /\ fromBroker[1].id = a /\ fromBroker[1].type = "PUBREC" /\ QoS = 2
    /\ inFlight[a] # NoMsg /\ awaiting[a] # NoMsg
    /\ fromBroker' = Tail(fromBroker)
    /\ \/ pubrels' = pubrels /\ wpc = "returned"
       \/ pubrels' = Append(pubrels, a)
    /\ UNCHANGED <<wpc, sent, nextId, pubErrors, published, inFlight, acked, refused, awaiting, accepted, toBroker, conn>>

\* The PUBREL it asks for is for a message that the broker holds.
LEMMA HandingKeeps ==
  ASSUME QoS # 0, TypeOK, OrderInv, NEW a \in Ids, Handing(a)
  PROVE  OrderInv'
<1> USE DEF OrderInv
<1> DEFINE F == fromBroker
           T == toBroker
           P == pubrels
           F2 == Tail(F)
           m == inFlight[a]
<1>0. /\ F # <<>> /\ F[1].id = a /\ F[1].type = "PUBREC" /\ QoS = 2 /\ m # NoMsg /\ awaiting[a] # NoMsg
      /\ fromBroker' = F2
      /\ (pubrels' = P /\ wpc = "returned") \/ pubrels' = Append(P, a)
      /\ UNCHANGED <<wpc, sent, nextId, pubErrors, published, inFlight, acked, refused, awaiting, accepted, toBroker, conn>>
  BY DEF Handing
<1>1. /\ F \in Seq(FromBroker) /\ T \in Seq(ToBroker) /\ P \in Seq(Ids) /\ inFlight \in [Ids -> Nat] /\ Top \in Nat /\ m \in Nat
  BY DEF TypeOK, Top
<1>2. FlightBound' /\ Slots' /\ Books' /\ Top' = Top
  BY <1>0, CountersKept DEF Slots
<1>3. Top < m + Window /\ Slack = Window /\ Window \in Nat
  BY <1>0, FirstHalfIsRecent, SlackType DEF Slack
<1>4. /\ LinesUp(inFlight, F2, T, P, Top) /\ LinesUp(inFlight, F2, T, Append(P, a), Top)
      /\ m \notin HandedOf(inFlight, P)
  <2>1. LinesUp(inFlight, F, T, P, Top)
    BY DEF Order
  <2>2. Top <= inFlight[a] + Slack
    BY <1>1, <1>3
  <2> HIDE DEF F, T, P
  <2> QED
    BY <1>0, <1>1, <2>1, <2>2, HandedLinesUp
<1>5. IdsOf(F) = IdsOf(F2) \cup {a}
  BY <1>0, <1>1, QueueIds
<1>6. CASE pubrels' = P /\ wpc = "returned"
  <2>1. Order'
    BY <1>0, <1>2, <1>4, <1>6 DEF Order
  <2>2. Packets'
    <3>1. \A i \in 1..Len(F2) : i + 1 \in 1..Len(F) /\ F2[i] = F[i + 1]
      BY <1>0, <1>1
    <3>2. \A i \in 1..Len(F2) : AnswerTrue(inFlight, awaiting, accepted, F2[i])
      BY <3>1 DEF Packets
    <3> HIDE DEF F2
    <3> QED
      BY <1>0, <1>6, <3>2 DEF Packets
  <2> QED
    BY <1>2, <2>1, <2>2
<1>7. CASE pubrels' = Append(P, a)
  <2> DEFINE P2 == Append(P, a)
  <2>1. /\ Len(P2) = Len(P) + 1 /\ Len(P) \in Nat /\ P2[Len(P) + 1] = a
        /\ \A i \in 1..Len(P2) : (i \in 1..Len(P) /\ P2[i] = P[i]) \/ (i = Len(P) + 1 /\ P2[i] = a)
        /\ \A i \in 1..Len(P) : i \in 1..Len(P2) /\ P2[i] = P[i]
        /\ Len(P) + 1 \in 1..Len(P2)
    BY <1>1
  <2> HIDE DEF P2
  <2>2. UnderWay(F2, T, P2) = UnderWay(F, T, P)
    <3>1. {P2[i] : i \in 1..Len(P2)} = {P[i] : i \in 1..Len(P)} \cup {a}
      BY <2>1
    <3> HIDE DEF F, T, P, F2
    <3> QED
      BY <1>5, <3>1 DEF UnderWay
  <2>3. Distinct(P2)
    <3> SUFFICES ASSUME NEW i \in 1..Len(P2), NEW j \in 1..Len(P2), i < j PROVE P2[i] # P2[j]
      BY DEF Distinct
    <3>1. CASE j \in 1..Len(P)
      <4>1. i \in 1..Len(P) /\ P2[i] = P[i] /\ P2[j] = P[j]
        BY <2>1, <3>1
      <4> QED
        BY <3>1, <4>1 DEF Order, Distinct
    <3>2. CASE j = Len(P) + 1 /\ P2[j] = a
      <4>1. i \in 1..Len(P) /\ P2[i] = P[i]
        BY <2>1, <3>2
      <4>2. inFlight[P[i]] \in HandedOf(inFlight, P)
        BY <4>1 DEF HandedOf
      <4> QED
        BY <1>4, <3>2, <4>1, <4>2
    <3> QED
      BY <2>1, <3>1, <3>2
  <2>4. ASSUME wpc \in {"pace", "acquire", "insert"}, NEW h \in HandedOf(inFlight, P2) PROVE Top < h + Slack
    <3>1. h = m \/ h \in HandedOf(inFlight, P)
      BY <2>1, <2>4 DEF HandedOf
    <3> QED
      BY <1>3, <2>4, <3>1 DEF Order
  <2>5. Order'
    <3>1. LinesUp(inFlight', fromBroker', toBroker', pubrels', Top') /\ Distinct(pubrels')
      BY <1>0, <1>2, <1>4, <1>7, <2>3 DEF P2
    <3>2. UnderWay(fromBroker', toBroker', pubrels') = UnderWay(fromBroker, toBroker, pubrels)
      BY <1>0, <1>7, <2>2 DEF P2
    <3>3. Unaccounted(inFlight', fromBroker', toBroker', pubrels') = Unaccounted(inFlight, fromBroker, toBroker, pubrels)
      BY <1>0, <3>2 DEF Unaccounted
    <3>4. wpc' \in {"pace", "acquire", "insert"} => \A h \in HandedOf(inFlight', pubrels') : Top' < h + Slack
      BY <1>0, <1>2, <1>7, <2>4 DEF P2
    <3> QED
      BY <1>0, <1>2, <3>1, <3>2, <3>3, <3>4 DEF Order
  <2>6. Packets'
    <3>1. \A i \in 1..Len(F2) : i + 1 \in 1..Len(F) /\ F2[i] = F[i + 1]
      BY <1>0, <1>1
    <3>2. \A i \in 1..Len(F2) : AnswerTrue(inFlight, awaiting, accepted, F2[i])
      BY <3>1 DEF Packets
    <3>3. \A i \in 1..Len(P2) : ReleaseTrue(inFlight, awaiting, P2[i])
      BY <1>0, <2>1 DEF Packets, ReleaseTrue
    <3> HIDE DEF F2
    <3>4. pubrels' = P2
      BY <1>7 DEF P2
    <3> QED
      BY <1>0, <3>2, <3>3, <3>4 DEF Packets
  <2> QED
    BY <1>2, <2>5, <2>6
<1> QED
  BY <1>0, <1>6, <1>7

\* The ack task reads a DISCONNECT, which it ignores.
LEMMA SkippingKeeps ==
  ASSUME QoS # 0, TypeOK, OrderInv, fromBroker # <<>>, fromBroker[1].id = 0, fromBroker' = Tail(fromBroker),
         UNCHANGED <<wpc, sent, nextId, pubErrors, published, inFlight, acked, refused, awaiting, accepted, toBroker, pubrels, conn>>
  PROVE  OrderInv'
<1> USE DEF OrderInv
<1> DEFINE F == fromBroker
           T == toBroker
           P == pubrels
           F2 == Tail(F)
<1>1. /\ F \in Seq(FromBroker) /\ T \in Seq(ToBroker) /\ P \in Seq(Ids) /\ inFlight \in [Ids -> Nat] /\ Top \in Nat
  BY DEF TypeOK, Top
<1>2. FlightBound' /\ Slots' /\ Books' /\ Top' = Top
  BY CountersKept DEF Slots
<1>3. LinesUp(inFlight, F2, T, P, Top)
  <2>1. LinesUp(inFlight, F, T, P, Top) /\ F # <<>> /\ F[1].id = 0
    BY DEF Order
  <2> HIDE DEF F, T, P
  <2> QED
    BY <1>1, <2>1, SkippedLinesUp
<1>4. UnderWay(F, T, P) = UnderWay(F2, T, P) \cup {0}
  <2>1. IdsOf(F) = IdsOf(F2) \cup {0}
    BY <1>1, QueueIds
  <2> HIDE DEF F, T, P, F2
  <2> QED
    BY <2>1 DEF UnderWay
<1>5. Unaccounted(inFlight, F2, T, P) = Unaccounted(inFlight, F, T, P)
  <2> HIDE DEF F, T, P, F2
  <2> QED
    BY <1>4 DEF Unaccounted, Ids
<1>6. Order'
  <2>1. LinesUp(inFlight', fromBroker', toBroker', pubrels', Top')
    BY <1>2, <1>3
  <2>2. UnderWay(fromBroker', toBroker', pubrels') \subseteq UnderWay(fromBroker, toBroker, pubrels)
    BY <1>4
  <2>3. Unaccounted(inFlight', fromBroker', toBroker', pubrels') = Unaccounted(inFlight, fromBroker, toBroker, pubrels)
    BY <1>5
  <2> QED
    BY <1>2, <2>1, <2>2, <2>3 DEF Order
<1>7. Packets'
  <2>1. \A i \in 1..Len(F2) : i + 1 \in 1..Len(F) /\ F2[i] = F[i + 1]
    BY <1>1
  <2>2. \A i \in 1..Len(F2) : AnswerTrue(inFlight, awaiting, accepted, F2[i])
    BY <2>1 DEF Packets
  <2>3. fromBroker' = F2
    OBVIOUS
  <2> HIDE DEF F2
  <2> QED
    BY <2>2, <2>3 DEF Packets
<1> QED
  BY <1>2, <1>6, <1>7

\* One packet read by the ack task.
LEMMA AckReadKeeps ==
  ASSUME QoS # 0, TypeOK, OrderInv, AckRead
  PROVE  OrderInv'
<1> USE DEF OrderInv
<1> DEFINE p == fromBroker[1]
<1>0. /\ fromBroker # <<>> /\ fromBroker' = Tail(fromBroker) /\ Head(fromBroker) = p /\ p \in FromBroker
      /\ IF Terminal(p) THEN CompleteAck(p.id, p.err) ELSE UNCHANGED <<refused, inFlight, permits, acked>>
      /\ pubrels' = HandOver(p)
      /\ UNCHANGED <<wpc, sent, nextId, pubErrors, published, awaiting, accepted, toBroker, conn>>
      /\ AnswerTrue(inFlight, awaiting, accepted, p)
  <2>1. fromBroker # <<>> /\ fromBroker' = Tail(fromBroker)
    BY DEF AckRead
  <2>2. Head(fromBroker) = p /\ p \in FromBroker /\ 1 \in 1..Len(fromBroker)
    BY <2>1 DEF TypeOK
  <2>3. AnswerTrue(inFlight, awaiting, accepted, p)
    BY <2>2 DEF Packets
  <2>4. UNCHANGED <<wpc, sent, nextId, pubErrors, published, awaiting, accepted, toBroker, conn>>
    BY DEF AckRead, writerVars, brokerVars
  <2>5. /\ IF Terminal(Head(fromBroker)) THEN CompleteAck(Head(fromBroker).id, Head(fromBroker).err)
           ELSE UNCHANGED <<refused, inFlight, permits, acked>>
        /\ pubrels' = HandOver(Head(fromBroker))
    BY Zenon DEF AckRead
  <2> HIDE DEF p
  <2> QED
    BY <2>1, <2>2, <2>3, <2>4, <2>5
<1>1. p.type = "DISCONNECT" \/ (p.id \in Ids /\ p.err \in BOOLEAN)
  BY <1>0, AckPacket DEF FromBroker
<1>2. CASE p.type = "DISCONNECT"
  <2>1. p.id = 0
    BY <1>0, <1>2, PacketIds, Zenon
  <2>2. ~Terminal(p) /\ pubrels' = pubrels
    BY <1>0, <1>2 DEF Terminal, HandOver
  <2> QED
    BY <1>0, <2>1, <2>2, SkippingKeeps
<1>3. CASE Terminal(p)
  <2>1. p.id \in Ids /\ p.err \in BOOLEAN /\ p.type # "DISCONNECT"
    BY <1>1, <1>3 DEF Terminal
  <2>2. /\ inFlight[p.id] # NoMsg /\ awaiting[p.id] = NoMsg /\ (~p.err => inFlight[p.id] \in accepted)
    BY <1>0, <1>3, <2>1, Zenon DEF AnswerTrue, Terminal
  <2>3. pubrels' = pubrels
    BY <1>0, <1>3, Zenon DEF HandOver, Terminal
  <2>4. /\ refused' = refused + (IF p.err THEN 1 ELSE 0)
        /\ inFlight' = [inFlight EXCEPT ![p.id] = NoMsg]
        /\ acked' = IF p.err THEN acked ELSE acked \cup {inFlight[p.id]}
    BY <1>0, <1>3, <2>2, Zenon DEF CompleteAck
  <2>5. Completing(p.id, p.err)
    BY <1>0, <2>2, <2>3, <2>4, Zenon DEF Completing
  <2> HIDE DEF p
  <2> QED
    BY <2>1, <2>5, CompletingKeeps
<1>4. CASE p.type # "DISCONNECT" /\ ~Terminal(p)
  <2>1. p.type = "PUBREC" /\ ~p.err /\ p.id \in Ids
    BY <1>0, <1>1, <1>4, Zenon DEF AnswerTrue, Terminal
  <2>2. QoS = 2 /\ inFlight[p.id] # NoMsg /\ awaiting[p.id] # NoMsg
    BY <1>0, <2>1, Zenon DEF AnswerTrue
  <2>3. (pubrels' = pubrels /\ wpc = "returned") \/ pubrels' = Append(pubrels, p.id)
    BY <1>0, <2>1, Zenon DEF HandOver
  <2>4. Handing(p.id)
    BY <1>0, <1>4, <2>1, <2>2, <2>3, Zenon DEF Handing
  <2> HIDE DEF p
  <2> QED
    BY <2>1, <2>4, HandingKeeps
<1> QED
  BY <1>2, <1>3, <1>4

\* publisher::run starts with nothing in flight.
LEMMA OrderInit == ASSUME QoS # 0, Init PROVE OrderInv
<1> DEFINE inf == [id \in Ids |-> NoMsg]
<1>0. /\ wpc = "top" /\ sent = 0 /\ nextId = 0 /\ inFlight = inf /\ pubrels = <<>> /\ published = 0 /\ pubErrors = 0
      /\ acked = {} /\ refused = 0 /\ conn = "open" /\ toBroker = <<>> /\ fromBroker = <<>>
      /\ awaiting = inf /\ accepted = {}
  BY DEF Init
<1>1. \A id \in Ids : inFlight[id] = NoMsg /\ awaiting[id] = NoMsg
  BY <1>0
<1>2. InFlightIds = {} /\ Cardinality({}) = 0
  BY <1>1, FS_EmptySet DEF InFlightIds
<1>3. Newest = 0 /\ Top = 0
  BY <1>0 DEF Newest, Top
<1>4. FlightBound /\ Slots
  BY <1>0, <1>1, <1>2, <1>3, SlackType DEF FlightBound, Slots
<1>5. Books
  BY <1>0, <1>2 DEF Books, Accounting
<1>6. Packets
  BY <1>0, <1>1 DEF Packets
<1>7. Order
  <2>1. UnansweredOf(inFlight) = {}
    BY <1>1 DEF UnansweredOf
  <2>2. HandedOf(inFlight, pubrels) = {} /\ Distinct(pubrels)
    BY <1>0, EmptyChannel
  <2>3. Unaccounted(inFlight, fromBroker, toBroker, pubrels) = {}
    BY <1>1 DEF Unaccounted
  <2>4. (1 - Len(fromBroker))..Len(toBroker) = {}
    BY <1>0
  <2>5. LinesUp(inFlight, fromBroker, toBroker, pubrels, Top)
    BY <2>1, <2>2, <2>4 DEF LinesUp, Pipeline, Live, FirstHalves, OldestNext, Recent
  <2> QED
    BY <1>0, <2>2, <2>3, <2>5 DEF Order
<1> QED
  BY <1>4, <1>5, <1>6, <1>7 DEF OrderInv

\* Every step keeps the invariant.
LEMMA OrderStep ==
  ASSUME AnswersOnce, TypeOK, TypeOK', WindowBounded, OrderInv, [Next]_vars
  PROVE  OrderInv'
<1>0. QoS # 0 /\ MaxStray = 0
  BY DEF AnswersOnce
<1>1. CASE \/ LoopTop \/ Pace \/ Acquire \/ AcquireClosed \/ AcquireStopped \/ Join \/ JoinTimeout
           \/ AckEof \/ AckError \/ RequestStop \/ UNCHANGED vars
  BY <1>1, QuietSteps, QuietKeeps
<1>2. CASE DrainPubrel \/ DrainTick \/ DrainDone \/ DisconnectClosed
  <2>1. PICK S \in Seq(ToBroker), n \in Nat : Draining(S, n)
    BY <1>0, <1>2, DrainingSteps
  <2> QED
    BY <1>0, <2>1, DrainingKeeps
<1>3. CASE DrainPubrelFails
  BY <1>3, DrainPubrelFailsKeeps
<1>4. CASE Insert
  BY <1>4, InsertKeeps
<1>5. CASE WritePublish
  BY <1>0, <1>5, WritePublishKeeps
<1>6. CASE WriteFails
  BY <1>0, <1>6, WriteFailsKeeps
<1>7. CASE CountPublished
  BY <1>7, CountPublishedKeeps
<1>8. CASE AckRead
  BY <1>0, <1>8, AckReadKeeps
<1>9. CASE BrokerRead
  <2>1. CASE Head(toBroker).type = "DISCONNECT"
    BY <1>0, <1>9, <2>1, BrokerCloses
  <2>2. CASE Head(toBroker).type # "DISCONNECT"
    <3>1. PICK y \in FromBroker : Answering(y)
      BY <1>0, <1>9, <2>2, BrokerAnswers
    <3> QED
      BY <1>0, <3>1, AnsweringKeeps
  <2> QED
    BY <2>1, <2>2
<1>10. CASE BrokerStray
  BY <1>0, <1>10 DEF BrokerStray, TypeOK
<1>11. CASE ConnectionLost
  BY <1>0, <1>11, ConnectionLostKeeps
<1> QED
  BY <1>1, <1>2, <1>3, <1>4, <1>5, <1>6, <1>7, <1>8, <1>9, <1>10, <1>11 DEF Next, Writer, AckTask, Finished

\* The invariant holds throughout.
LEMMA OrderHolds == ASSUME AnswersOnce PROVE Spec => []OrderInv
<1>1. Init => OrderInv
  BY OrderInit DEF AnswersOnce
<1>2. TypeOK /\ TypeOK' /\ WindowBounded /\ OrderInv /\ [Next]_vars => OrderInv'
  BY OrderStep
<1> QED
  BY <1>1, <1>2, TypeCorrect, WindowSafe, PTL DEF Spec

-----------------------------------------------------------------------------
(***************************************************************************)
(* The theorems.                                                           *)
(***************************************************************************)

\* in_flight.insert never overwrites the entry of a message that still waits: the comment
\* at `let window` in publisher::run holds for every window up to half the identifiers at
\* QoS 2, and for every window at QoS 1.
THEOREM IdentifiersNeverCollide == ASSUME AnswersOnce PROVE Spec => []NoIdCollision
<1>1. TypeOK /\ WindowBounded /\ OrderInv => NoIdCollision
  BY NextIdIsFree DEF OrderInv
<1> QED
  BY <1>1, TypeCorrect, WindowSafe, OrderHolds, PTL

\* complete_ack counts, and times, only messages the broker accepted: it never takes the
\* entry of one message for an answer to another.
THEOREM AcknowledgedAreAccepted == ASSUME AnswersOnce PROVE Spec => []AckMeansAccepted
<1>1. OrderInv => AckMeansAccepted
  BY DEF OrderInv, Books, AckMeansAccepted
<1> QED
  BY <1>1, OrderHolds, PTL

\* Every message that publisher::run wrote is acknowledged, refused or in flight, and is
\* only one of them.
THEOREM BooksBalance == ASSUME AnswersOnce PROVE Spec => []Accounting
<1>1. OrderInv => Accounting
  BY DEF OrderInv, Books
<1> QED
  BY <1>1, OrderHolds, PTL

\* drain_pubrels releases only messages whose PUBREC did not refuse them, each once.
THEOREM PubrelsAreDue == ASSUME AnswersOnce PROVE Spec => []PubrelAnswersPubrec
<1>1. TypeOK /\ OrderInv => PubrelAnswersPubrec
  <2> SUFFICES ASSUME TypeOK, OrderInv, NEW i \in DOMAIN toBroker, toBroker[i].type = "PUBREL"
               PROVE  awaiting[toBroker[i].id] # NoMsg
    BY DEF PubrelAnswersPubrec
  <2>1. i \in 1..Len(toBroker)
    BY DEF TypeOK
  <2>2. RequestTrue(inFlight, awaiting, toBroker[i])
    BY <2>1 DEF OrderInv, Packets
  <2> QED
    BY <2>2, Zenon DEF RequestTrue
<1> QED
  BY <1>1, TypeCorrect, OrderHolds, PTL

\* No permit of the semaphore is lost: an acknowledgement gives back the permit that its
\* message took, and no entry is overwritten with its permit still out.
THEOREM PermitsAreConserved == ASSUME AnswersOnce PROVE Spec => []WindowConserved
<1> USE DEF WindowConserved
<1>1. Init => WindowConserved
  <2> SUFFICES ASSUME Init PROVE permits + Cardinality(InFlightIds) + Pending = Window
    OBVIOUS
  <2>1. InFlightIds = {}
    BY DEF Init, InFlightIds
  <2>2. Cardinality(InFlightIds) = 0
    BY <2>1, FS_EmptySet
  <2> QED
    BY <2>2, WindowType DEF Init, Pending
<1>2. TypeOK /\ TypeOK' /\ NoIdCollision /\ WindowConserved /\ [Next]_vars => WindowConserved'
  <2> SUFFICES ASSUME TypeOK, TypeOK', NoIdCollision, WindowConserved, [Next]_vars, wpc' # "returned"
               PROVE  permits' + Cardinality(InFlightIds') + Pending' = Window
    OBVIOUS
  <2> DEFINE n == Cardinality(InFlightIds)
  <2>0. /\ n \in Nat /\ permits \in Nat /\ Window \in Nat /\ Pending \in 0..1 /\ QoS # 0
    BY InFlightFinite, SlackType DEF TypeOK, Pending, AnswersOnce
  \* The steps that leave the permits, in_flight and the writer's hand alone.
  <2>1. ASSUME UNCHANGED <<permits, inFlight>>, wpc # "returned", wpc' = "insert" <=> wpc = "insert"
        PROVE  permits' + Cardinality(InFlightIds') + Pending' = Window
    <3>1. InFlightIds' = InFlightIds
      BY <2>1 DEF InFlightIds
    <3>2. Pending' = Pending
      BY <2>1 DEF Pending
    <3> QED
      BY <2>1, <3>1, <3>2
  <2>2. CASE DrainPubrel \/ DrainTick
    BY <2>1, <2>2 DEF DrainPubrel, DrainTick, writerVars, windowVars
  <2>3. CASE DrainPubrelFails \/ WriteFails \/ Join \/ JoinTimeout
    BY <2>3 DEF DrainPubrelFails, WriteFails, Join, JoinTimeout, Return
  <2>4. CASE LoopTop \/ Pace
    BY <2>0, <2>1, <2>4 DEF LoopTop, Pace, windowVars
  <2>5. CASE AcquireClosed \/ AcquireStopped
    BY <2>1, <2>5 DEF AcquireClosed, AcquireStopped, windowVars
  <2>6. CASE Acquire
    <3>1. InFlightIds' = InFlightIds
      BY <2>6 DEF Acquire, InFlightIds
    <3>2. permits' = permits - 1 /\ wpc # "returned" /\ Pending = 0 /\ Pending' = 1
      BY <2>0, <2>6 DEF Acquire, Pending
    <3>3. permits + n + Pending = Window
      BY <3>2
    <3> HIDE DEF Pending, n
    <3>4. permits' + n + Pending' = Window
      BY <2>0, <3>2, <3>3
    <3> QED
      BY <3>1, <3>4 DEF n
  <2>7. CASE Insert
    <3> DEFINE b == NextId(nextId)
    <3>1. Pending = 1 /\ Pending' = 0 /\ permits' = permits /\ wpc # "returned"
      BY <2>0, <2>7 DEF Insert, Pending
    <3>2. b \in Ids /\ sent + 1 \in Nat \ {NoMsg}
      BY NextIdType DEF TypeOK, NoMsg
    <3>3. inFlight' = [inFlight EXCEPT ![b] = sent + 1] /\ inFlight[b] = NoMsg
      BY <2>0, <2>7 DEF Insert, NoIdCollision
    <3>4. InFlightIds' = InFlightIds \cup {b} /\ b \notin InFlightIds
      <4> HIDE DEF b
      <4> QED
        BY <3>2, <3>3 DEF InFlightIds, TypeOK
    <3>5. Cardinality(InFlightIds') = n + 1
      <4> HIDE DEF b
      <4> QED
        BY <3>4, InFlightFinite, FS_AddElement
    <3>6. permits + n + Pending = Window
      BY <3>1
    <3> HIDE DEF Pending, n
    <3> QED
      BY <2>0, <3>1, <3>5, <3>6
  <2>8. CASE WritePublish \/ CountPublished
    BY <2>1, <2>8 DEF WritePublish, CountPublished, windowVars
  <2>9. CASE DrainDone \/ DisconnectClosed
    BY <2>1, <2>9 DEF DrainDone, DisconnectClosed, windowVars
  <2>10. CASE AckRead
    <3> DEFINE p == Head(fromBroker)
    <3>1. wpc' = wpc
      BY <2>10 DEF AckRead, writerVars
    <3>2. CASE Terminal(p) /\ inFlight[p.id] # NoMsg
      <4>1. p \in FromBroker
        BY <2>10, QueueType DEF AckRead, TypeOK
      <4>2. p.id \in Ids
        BY <3>2, <4>1, AckPacket DEF Terminal
      <4>3. CompleteAck(p.id, p.err)
        BY <2>10, <3>2 DEF AckRead
      <4>4. permits' = permits + 1 /\ inFlight' = [inFlight EXCEPT ![p.id] = NoMsg]
        BY <3>2, <4>3 DEF CompleteAck
      <4>5. Cardinality(InFlightIds') = n - 1
        BY <3>2, <4>2, <4>4, RemoveCount
      <4>6. Pending' = Pending /\ permits + n + Pending = Window
        BY <3>1 DEF Pending
      <4> HIDE DEF Pending, n, p
      <4> QED
        BY <2>0, <4>4, <4>5, <4>6
    <3>3. CASE ~(Terminal(p) /\ inFlight[p.id] # NoMsg)
      <4>1. UNCHANGED <<permits, inFlight>>
        BY <2>10, <3>3 DEF AckRead, CompleteAck
      <4> QED
        BY <2>1, <3>1, <4>1
    <3> QED
      BY <3>2, <3>3
  <2>11. CASE AckEof \/ AckError \/ RequestStop
    BY <2>1, <2>11 DEF AckEof, AckError, RequestStop, writerVars, windowVars
  <2>12. CASE BrokerRead \/ BrokerStray \/ ConnectionLost
    BY <2>1, <2>12 DEF BrokerRead, BrokerStray, ConnectionLost, writerVars, windowVars
  <2>13. CASE UNCHANGED vars
    BY <2>1, <2>13 DEF vars, writerVars, windowVars
  <2> QED
    BY <2>2, <2>3, <2>4, <2>5, <2>6, <2>7, <2>8, <2>9, <2>10, <2>11, <2>12, <2>13
    DEF Next, Writer, AckTask, Finished
<1> QED
  BY <1>1, <1>2, TypeCorrect, IdentifiersNeverCollide, PTL DEF Spec

\* The window is within the broker's Receive Maximum, but for one of 0, which
\* effective_inflight raises to 1.
LEMMA WindowWithinMaximum == ASSUME NEW n \in ReceiveMaximum PROVE Window <= IF n < 1 THEN 1 ELSE n
<1> DEFINE w == EffectiveInflight(Inflight, ReceiveMaximum)
           max == IF n < 1 THEN 1 ELSE n
<1>0. n \in Nat /\ MaxId \in Nat /\ Inflight \in Nat /\ \A c \in ReceiveMaximum : c = n
  BY ReceiveMaximumAssumption, MaxIdAssumption, InflightAssumption
<1>1. CASE n < Inflight
  <2> DEFINE least == CHOOSE c \in ReceiveMaximum : c < Inflight
  <2>1. \E c \in ReceiveMaximum : c < Inflight
    BY <1>1
  <2>2. least \in ReceiveMaximum
    BY <2>1, Zenon
  <2>3. w = IF least < 1 THEN 1 ELSE least
    BY <2>1, Zenon DEF EffectiveInflight
  <2> HIDE DEF least, w
  <2>4. w = max
    BY <1>0, <2>2, <2>3
  <2> QED
    BY <1>0, <2>4 DEF Window, w
<1>2. CASE ~(n < Inflight)
  <2>1. ~ \E c \in ReceiveMaximum : c < Inflight
    BY <1>0, <1>2
  <2>2. w = IF Inflight < 1 THEN 1 ELSE Inflight
    BY <2>1 DEF EffectiveInflight
  <2> HIDE DEF w
  <2>3. w <= max /\ w \in Nat
    BY <1>0, <1>2, <2>2
  <2> HIDE DEF max
  <2>4. Window <= max
    BY <1>0, <2>3 DEF Window, w, max
  <2> QED
    BY <2>4 DEF max
<1> QED
  BY <1>1, <1>2

\* Two PUBLISH packets to the broker have different identifiers.
LEMMA PublishedApart ==
  ASSUME QoS # 0, TypeOK, Order, Packets, NEW i \in 1..Len(toBroker), NEW j \in 1..Len(toBroker),
         toBroker[i].type = "PUBLISH", toBroker[i].id = toBroker[j].id
  PROVE  i = j
<1> DEFINE F == fromBroker
           T == toBroker
           P == pubrels
           a == T[i].id
<1>1. /\ F \in Seq(FromBroker) /\ T \in Seq(ToBroker) /\ P \in Seq(Ids) /\ inFlight \in [Ids -> Nat] /\ Top \in Nat
      /\ LinesUp(inFlight, F, T, P, Top) /\ T[i] \in ToBroker
  BY DEF TypeOK, Top, Order
<1>2. a \in Ids
  BY <1>1, PacketIds, Zenon
<1>3. inFlight[a] # NoMsg
  <2>1. RequestTrue(inFlight, awaiting, T[i])
    BY DEF Packets
  <2> QED
    BY <2>1, Zenon DEF RequestTrue
<1>4. i \in (1 - Len(F))..Len(T) /\ IdAt(F, T, i) = a
  BY <1>1, PlaceType
<1>5. Alone(F, T, P, i, a)
  <2> HIDE DEF F, T, P, a
  <2> QED
    BY <1>1, <1>2, <1>3, <1>4, HeadAlone
<1> QED
  BY <1>5 DEF Alone

\* effective_inflight keeps the client within the broker's Receive Maximum: the PUBLISH
\* packets the broker has not read and the messages it holds are all in flight, under
\* identifiers of their own.
THEOREM BrokerIsNeverOverrun == ASSUME AnswersOnce PROVE Spec => []ReceiveMaximumRespected
<1>1. TypeOK /\ OrderInv => ReceiveMaximumRespected
  <2> SUFFICES ASSUME TypeOK, OrderInv, NEW n \in ReceiveMaximum
               PROVE  Cardinality({i \in DOMAIN toBroker : toBroker[i].type = "PUBLISH"})
                        + Cardinality({id \in Ids : awaiting[id] # NoMsg}) <= IF n < 1 THEN 1 ELSE n
    BY DEF ReceiveMaximumRespected
  <2> DEFINE K == {i \in DOMAIN toBroker : toBroker[i].type = "PUBLISH"}
             A == {id \in Ids : awaiting[id] # NoMsg}
             B == InFlightIds \ A
             g == [i \in K |-> toBroker[i].id]
  <2>0. QoS # 0 /\ n \in Nat
    BY ReceiveMaximumAssumption, MaxIdAssumption DEF AnswersOnce
  <2>1. ASSUME NEW i \in K PROVE i \in 1..Len(toBroker) /\ toBroker[i].type = "PUBLISH" /\ toBroker[i].id \in B
    <3>1. i \in 1..Len(toBroker) /\ toBroker[i].type = "PUBLISH" /\ toBroker[i] \in ToBroker
      BY DEF TypeOK
    <3>2. RequestTrue(inFlight, awaiting, toBroker[i])
      BY <3>1 DEF OrderInv, Packets
    <3>3. toBroker[i].id \in Ids
      BY <2>0, <3>1, PacketIds, Zenon
    <3>4. inFlight[toBroker[i].id] # NoMsg /\ awaiting[toBroker[i].id] = NoMsg
      BY <3>1, <3>2 DEF RequestTrue
    <3> QED
      BY <3>1, <3>3, <3>4 DEF InFlightIds
  <2>2. \A i, j \in K : toBroker[i].id = toBroker[j].id => i = j
    BY <2>0, <2>1, PublishedApart DEF OrderInv
  <2>3. g \in Injection(K, B)
    <3>1. g \in [K -> B]
      BY <2>1
    <3>2. \A i, j \in K : g[i] = g[j] => i = j
      BY <2>2
    <3> HIDE DEF g, K, B
    <3> QED
      BY <3>1, <3>2 DEF Injection, IsInjective
  <2>4. A \subseteq InFlightIds
    BY DEF OrderInv, Packets, InFlightIds
  <2>5. IsFiniteSet(InFlightIds) /\ Cardinality(InFlightIds) \in Nat /\ Cardinality(InFlightIds) <= Window
    BY InFlightFinite DEF OrderInv, FlightBound
  <2>6. Window <= (IF n < 1 THEN 1 ELSE n) /\ Window \in Nat
    BY WindowWithinMaximum, SlackType
  <2>7. IsFiniteSet(A) /\ Cardinality(A) \in Nat /\ InFlightIds \cap A = A
    <3> HIDE DEF A
    <3> QED
      BY <2>4, <2>5, FS_Subset, FS_CardinalityType
  <2>8. IsFiniteSet(B) /\ Cardinality(B) = Cardinality(InFlightIds) - Cardinality(A)
    <3> HIDE DEF A
    <3> QED
      BY <2>5, <2>7, FS_Difference
  <2>9. IsFiniteSet(K) /\ Cardinality(K) <= Cardinality(B) /\ Cardinality(K) \in Nat
    <3> HIDE DEF K, B, g
    <3> QED
      BY <2>3, <2>8, FS_Injection, FS_CardinalityType
  <2> HIDE DEF K, A, B
  <2>10. Cardinality(K) + Cardinality(A) <= IF n < 1 THEN 1 ELSE n
    BY <2>0, <2>5, <2>6, <2>7, <2>8, <2>9
  <2> QED
    BY <2>10 DEF K, A
<1> QED
  BY <1>1, TypeCorrect, OrderHolds, PTL

-----------------------------------------------------------------------------
(***************************************************************************)
(* The publisher implements the abstract window.                           *)
(***************************************************************************)

\* Between the check of the quota and the entry in in_flight nothing is sent.
WithinQuota == wpc \in {"pace", "acquire", "insert"} => sent < Quota

\* The check at the top of the loop still holds when the message is entered.
LEMMA QuotaHolds == Spec => []WithinQuota
<1> USE DEF WithinQuota, writerVars, ackVars, windowVars, brokerVars
<1>1. Init => WithinQuota
  BY DEF Init
<1>2. TypeOK /\ WithinQuota /\ [Next]_vars => WithinQuota'
  <2> SUFFICES ASSUME TypeOK, WithinQuota, [Next]_vars PROVE WithinQuota'
    OBVIOUS
  <2>0. sent \in Nat /\ Quota \in Nat
    BY QuotaAssumption DEF TypeOK
  <2>1. CASE LoopTop
    BY <2>0, <2>1 DEF LoopTop
  <2>2. CASE Pace \/ Acquire \/ AcquireClosed \/ AcquireStopped
    BY <2>2 DEF Pace, Acquire, AcquireClosed, AcquireStopped
  <2>3. CASE DrainPubrel \/ DrainPubrelFails \/ DrainTick \/ DrainDone \/ DisconnectClosed \/ Join \/ JoinTimeout
    BY <2>3 DEF DrainPubrel, DrainPubrelFails, DrainTick, DrainDone, DisconnectClosed, Join, JoinTimeout, Return
  <2>4. CASE Insert \/ WritePublish \/ WriteFails \/ CountPublished
    BY <2>4 DEF Insert, WritePublish, WriteFails, CountPublished, Return
  <2>5. CASE AckRead \/ AckEof \/ AckError \/ RequestStop
    BY <2>5 DEF AckRead, AckEof, AckError, RequestStop
  <2>6. CASE BrokerRead \/ BrokerStray \/ ConnectionLost \/ UNCHANGED vars
    BY <2>6 DEF BrokerRead, BrokerStray, ConnectionLost, vars
  <2> QED
    BY <2>1, <2>2, <2>3, <2>4, <2>5, <2>6 DEF Next, Writer, AckTask, Finished
<1> QED
  BY <1>1, <1>2, TypeCorrect, PTL DEF Spec

\* The messages in flight, as the abstract window sees them.
LEMMA Waiting == UnansweredOf(inFlight) = {inFlight[id] : id \in InFlightIds}
BY DEF UnansweredOf, InFlightIds

\* A step that changes none of what the abstract window sees.
LEMMA Unseen ==
  ASSUME UNCHANGED <<inFlight, acked>>, Newest' = Newest, wpc' = "returned" <=> wpc = "returned"
  PROVE  UNCHANGED Abstract!vars
<1>1. InFlightIds' = InFlightIds
  BY DEF InFlightIds
<1> QED
  BY <1>1 DEF Abstract!vars, Newest

\* publisher::run returns, and its messages stay where they are.
LEMMA EndStep ==
  ASSUME UNCHANGED <<inFlight, acked>>, Newest' = Newest, wpc' = "returned", wpc # "returned"
  PROVE  Abstract!Next
<1>1. InFlightIds' = InFlightIds
  BY DEF InFlightIds
<1>2. Abstract!End
  BY <1>1 DEF Abstract!End, Newest
<1> QED
  BY <1>2 DEF Abstract!Next

\* The abstract window counts as the window of publisher::run does.
LEMMA SameCount == ASSUME NEW S PROVE Abstract!Cardinality(S) = Cardinality(S)
BY DEF Abstract!Cardinality, Cardinality

\* in_flight.insert hands out the next message.
LEMMA InsertStep ==
  ASSUME AnswersOnce, TypeOK, WindowBounded, OrderInv, WithinQuota, Insert
  PROVE  Abstract!Publish
<1> DEFINE b == NextId(nextId)
           U == {inFlight[id] : id \in InFlightIds}
<1>0. /\ wpc = "insert" /\ wpc' = "write" /\ UNCHANGED <<sent, acked, pubErrors>> /\ QoS # 0
      /\ inFlight' = [inFlight EXCEPT ![b] = sent + 1]
  BY DEF Insert, ackVars, AnswersOnce
<1>1. /\ sent \in Nat /\ inFlight \in [Ids -> Nat] /\ permits \in Nat /\ nextId \in 0..MaxId /\ Window \in Nat /\ pubErrors \in Nat
  BY SlackType DEF TypeOK
<1>2. b \in Ids /\ inFlight[b] = NoMsg
  <2>1. NoIdCollision
    BY NextIdIsFree DEF OrderInv
  <2>2. b \in Ids
    BY <1>1, NextIdType
  <2> QED
    BY <1>0, <2>1, <2>2 DEF NoIdCollision
<1>3. Newest = sent /\ Newest' = sent + 1 /\ sent < Quota
  BY <1>0, <1>1 DEF Newest, OrderInv, Slots, WithinQuota
<1> HIDE DEF b
<1>4. \A id \in Ids : inFlight'[id] = IF id = b THEN sent + 1 ELSE inFlight[id]
  BY <1>0, <1>1, <1>2
<1>5. U' = U \cup {sent + 1}
  <2>1. InFlightIds' = InFlightIds \cup {b} /\ b \notin InFlightIds /\ InFlightIds \subseteq Ids
    BY <1>1, <1>2, <1>4 DEF InFlightIds, NoMsg
  <2>2. ASSUME NEW m \in U' PROVE m \in U \/ m = sent + 1
    <3>1. PICK id \in InFlightIds' : m = inFlight'[id]
      BY <2>2
    <3> QED
      BY <1>2, <1>4, <2>1, <3>1
  <2>3. ASSUME NEW m \in U PROVE m \in U'
    <3>1. PICK id \in InFlightIds : m = inFlight[id]
      BY <2>3
    <3> QED
      BY <1>2, <1>4, <2>1, <3>1
  <2>4. sent + 1 \in U'
    BY <1>2, <1>4, <2>1
  <2> QED
    BY <2>2, <2>3, <2>4
<1>6. Cardinality(U) < Window
  <2>1. U \subseteq UnansweredOf(inFlight) /\ {id \in Ids : inFlight[id] # NoMsg} = InFlightIds
    BY Waiting DEF InFlightIds
  <2>2. IsFiniteSet(U) /\ Cardinality(U) <= Cardinality(InFlightIds)
    <3> HIDE DEF U
    <3> QED
      BY <1>1, <2>1, FlightCount
  <2>3. Cardinality(U) \in Nat /\ Cardinality(InFlightIds) \in Nat
    BY <2>2, InFlightFinite, FS_CardinalityType
  <2>4. permits + Cardinality(InFlightIds) + 1 <= Window
    BY <1>0 DEF WindowBounded, Pending
  <2> HIDE DEF U
  <2> QED
    BY <1>1, <2>2, <2>3, <2>4
<1>7. /\ Newest < Quota /\ Newest' = Newest + 1 /\ U' = U \cup {Newest + 1} /\ acked' = acked
      /\ (wpc' = "returned") = (wpc = "returned") /\ wpc # "returned"
  BY <1>0, <1>3, <1>5
<1> HIDE DEF U
<1>8. Abstract!Cardinality(U) < Window
  BY <1>6, SameCount
<1> QED
  BY <1>7, <1>8 DEF Abstract!Publish, Newest, U

\* A failed write withdraws the newest message.
LEMMA WithdrawStep ==
  ASSUME QoS # 0, TypeOK, OrderInv, WriteFails
  PROVE  Abstract!End
<1> DEFINE U == {inFlight[id] : id \in InFlightIds}
<1>0. /\ wpc = "write" /\ wpc' = "returned" /\ UNCHANGED <<sent, acked>> /\ pubErrors' = pubErrors + 1
      /\ inFlight' = [inFlight EXCEPT ![nextId] = NoMsg]
  BY DEF WriteFails, Return, ackVars
<1>1. /\ sent \in Nat /\ inFlight \in [Ids -> Nat] /\ nextId \in Ids /\ pubErrors \in Nat
  BY <1>0 DEF TypeOK
<1>2. Newest = sent + 1 /\ Newest' = sent + 1
  BY <1>0, <1>1 DEF Newest
<1>3. inFlight[nextId] = sent + 1 /\ inFlight[nextId] # NoMsg /\ Injective(inFlight)
  BY <1>0, <1>1, SlotsInjective DEF OrderInv, Order, Top, NoMsg
<1>4. UnansweredOf(inFlight') = UnansweredOf(inFlight) \ {sent + 1}
  BY <1>0, <1>1, <1>3, UnansweredLess
<1>5. U' = U \ {sent + 1}
  BY <1>4 DEF UnansweredOf, InFlightIds
<1> QED
  BY <1>0, <1>2, <1>5 DEF Abstract!End, Newest

\* complete_ack answers one message that waits.
LEMMA AnswerStep ==
  ASSUME QoS # 0, TypeOK, OrderInv, AckRead
  PROVE  Abstract!Next \/ UNCHANGED Abstract!vars
<1> DEFINE p == Head(fromBroker)
           U == {inFlight[id] : id \in InFlightIds}
           m == inFlight[p.id]
<1>0. UNCHANGED <<wpc, sent, pubErrors>> /\ Newest' = Newest
  BY DEF AckRead, writerVars, Newest
<1>1. CASE Terminal(p) /\ inFlight[p.id] # NoMsg
  <2>1. p \in FromBroker
    BY QueueType DEF AckRead, TypeOK
  <2>2. p.id \in Ids
    BY <1>1, <2>1, AckPacket DEF Terminal
  <2>3. CompleteAck(p.id, p.err)
    BY <1>1 DEF AckRead
  <2>4. /\ inFlight' = [inFlight EXCEPT ![p.id] = NoMsg]
        /\ acked' = IF p.err THEN acked ELSE acked \cup {m}
    BY <1>1, <2>3 DEF CompleteAck
  <2>5. inFlight \in [Ids -> Nat] /\ Injective(inFlight)
    BY SlotsInjective DEF TypeOK, OrderInv
  <2> DEFINE a == p.id
  <2>6. a \in Ids /\ inFlight[a] # NoMsg /\ inFlight' = [inFlight EXCEPT ![a] = NoMsg]
    BY <1>1, <2>2, <2>4
  <2>7. UnansweredOf(inFlight') = UnansweredOf(inFlight) \ {m} /\ m \in UnansweredOf(inFlight)
    <3>1. inFlight[a] = m
      OBVIOUS
    <3> HIDE DEF a, p, m
    <3>2. inFlight[a] \in UnansweredOf(inFlight)
      BY <2>6 DEF UnansweredOf
    <3> QED
      BY <2>5, <2>6, <3>1, <3>2, UnansweredLess
  <2>8. U' = U \ {m} /\ m \in U
    <3> HIDE DEF m, p
    <3> QED
      BY <2>7 DEF UnansweredOf, InFlightIds
  <2> HIDE DEF p, m
  <2>9. CASE p.err
    <3>1. Abstract!Refuse(m)
      BY <1>0, <2>4, <2>8, <2>9 DEF Abstract!Refuse, Newest
    <3> QED
      BY <2>8, <3>1 DEF Abstract!Next, Abstract!Refuse, Abstract!Acknowledge
  <2>10. CASE ~p.err
    <3>1. Abstract!Acknowledge(m)
      BY <1>0, <2>4, <2>8, <2>10 DEF Abstract!Acknowledge, Newest
    <3> QED
      BY <2>8, <3>1 DEF Abstract!Next, Abstract!Refuse, Abstract!Acknowledge
  <2> QED
    BY <2>9, <2>10
<1>2. CASE ~(Terminal(p) /\ inFlight[p.id] # NoMsg)
  <2>1. UNCHANGED <<inFlight, acked>>
    BY <1>2 DEF AckRead, CompleteAck
  <2> QED
    BY <1>0, <2>1, Unseen
<1> QED
  BY <1>1, <1>2

\* publisher::run with its ack task implements the window that AckWindow describes, with
\* packet identifiers, permits, the channel and the broker's answers left out: messages go
\* out in order and within the quota, at most Window wait for an answer, each is answered
\* at most once, and one whose write failed is withdrawn when run returns.
THEOREM PublisherImplementsWindow == ASSUME AnswersOnce PROVE Spec => ImplementsAckWindow
<1>1. Init => Abstract!Init
  <2> SUFFICES ASSUME Init PROVE Abstract!Init
    OBVIOUS
  <2>1. InFlightIds = {}
    BY DEF Init, InFlightIds
  <2> QED
    BY <2>1 DEF Init, Abstract!Init
<1>2. TypeOK /\ WindowBounded /\ OrderInv /\ WithinQuota /\ [Next]_vars => [Abstract!Next]_(Abstract!vars)
  <2> SUFFICES ASSUME TypeOK, WindowBounded, OrderInv, WithinQuota, [Next]_vars
               PROVE  Abstract!Next \/ UNCHANGED Abstract!vars
    OBVIOUS
  <2> USE DEF writerVars, ackVars, windowVars, brokerVars
  <2>0. QoS # 0
    BY DEF AnswersOnce
  <2>1. CASE DrainPubrelFails \/ Join \/ JoinTimeout
    <3>1. UNCHANGED <<inFlight, acked, sent, pubErrors>> /\ wpc' = "returned" /\ wpc \notin {"returned", "write", "count"}
      BY <2>1 DEF DrainPubrelFails, Join, JoinTimeout, Return
    <3>2. Newest' = Newest
      BY <3>1 DEF Newest
    <3> QED
      BY <3>1, <3>2, EndStep
  <2>2. CASE LoopTop \/ Pace \/ Acquire \/ AcquireClosed \/ AcquireStopped
    <3>1. /\ UNCHANGED <<inFlight, acked, sent, pubErrors>>
          /\ wpc \notin {"returned", "write", "count"} /\ wpc' \notin {"returned", "write", "count"}
      BY <2>2 DEF LoopTop, Pace, Acquire, AcquireClosed, AcquireStopped
    <3>2. Newest' = Newest
      BY <3>1 DEF Newest
    <3> QED
      BY <3>1, <3>2, Unseen
  <2>3. CASE DrainPubrel \/ DrainTick \/ DrainDone \/ DisconnectClosed
    <3>1. /\ UNCHANGED <<inFlight, acked, sent, pubErrors>>
          /\ wpc \notin {"returned", "write", "count"} /\ wpc' \notin {"returned", "write", "count"}
      BY <2>3 DEF DrainPubrel, DrainTick, DrainDone, DisconnectClosed
    <3>2. Newest' = Newest
      BY <3>1 DEF Newest
    <3> QED
      BY <3>1, <3>2, Unseen
  <2>4. CASE Insert
    BY <2>4, InsertStep DEF Abstract!Next
  <2>5. CASE WritePublish
    <3>1. UNCHANGED <<inFlight, acked, sent, pubErrors>> /\ wpc = "write" /\ wpc' = "count"
      BY <2>5 DEF WritePublish
    <3>2. Newest' = Newest
      BY <3>1 DEF Newest
    <3> QED
      BY <3>1, <3>2, Unseen
  <2>6. CASE WriteFails
    BY <2>0, <2>6, WithdrawStep DEF Abstract!Next
  <2>7. CASE CountPublished
    <3>1. UNCHANGED <<inFlight, acked, pubErrors>> /\ wpc = "count" /\ wpc' = "top" /\ sent' = sent + 1
      BY <2>7 DEF CountPublished
    <3>2. ~(pubErrors > 0)
      BY <3>1 DEF OrderInv, Slots
    <3>3. Newest' = Newest
      BY <3>1, <3>2 DEF Newest
    <3> QED
      BY <3>1, <3>3, Unseen
  <2>8. CASE AckRead
    BY <2>0, <2>8, AnswerStep
  <2>9. CASE AckEof \/ AckError \/ RequestStop \/ BrokerRead \/ BrokerStray \/ ConnectionLost \/ UNCHANGED vars
    <3>1. UNCHANGED <<inFlight, acked, sent, pubErrors, wpc>>
      BY <2>9 DEF AckEof, AckError, RequestStop, BrokerRead, BrokerStray, ConnectionLost, vars
    <3>2. Newest' = Newest
      BY <3>1 DEF Newest
    <3> QED
      BY <3>1, <3>2, Unseen
  <2> QED
    BY <2>1, <2>2, <2>3, <2>4, <2>5, <2>6, <2>7, <2>8, <2>9 DEF Next, Writer, AckTask, Finished
<1> QED
  BY <1>1, <1>2, TypeCorrect, WindowSafe, OrderHolds, QuotaHolds, PTL DEF Spec, ImplementsAckWindow, Abstract!Spec
==============================================================================
