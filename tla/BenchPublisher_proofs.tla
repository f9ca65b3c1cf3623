----------------------- MODULE BenchPublisher_proofs -----------------------
(***************************************************************************)
(* Machine-checked proofs about BenchPublisher, for every value of its     *)
(* constants and for a broker that may send any acknowledgement at all.    *)
(***************************************************************************)
EXTENDS BenchPublisher, FiniteSetTheorems, TLAPS

\* effective_inflight and the cap of publisher::run leave a window of at least one
\* permit and of no more than there are identifiers.
LEMMA WindowType == Window \in 1..MaxId
<1> DEFINE w == EffectiveInflight(Inflight, ReceiveMaximum)
<1>1. w \in Nat \ {0}
  <2>1. CASE \E c \in ReceiveMaximum : c < Inflight
    <3> DEFINE least == CHOOSE c \in ReceiveMaximum : c < Inflight
    <3>0. least \in ReceiveMaximum
      BY <2>1, Zenon
    <3>1. least \in Nat
      <4> HIDE DEF least
      <4> QED
        BY <3>0, ReceiveMaximumAssumption, MaxIdAssumption
    <3>2. w = IF least < 1 THEN 1 ELSE least
      BY <2>1, Zenon DEF EffectiveInflight
    <3> HIDE DEF least, w
    <3> QED
      BY <3>1, <3>2
  <2>2. CASE ~ \E c \in ReceiveMaximum : c < Inflight
    BY <2>2, InflightAssumption DEF EffectiveInflight
  <2> QED
    BY <2>1, <2>2
<1>2. Window = IF w > MaxId THEN MaxId ELSE w
  BY DEF Window
<1> QED
  BY <1>1, <1>2, MaxIdAssumption

\* wrapping_add(1) past 0 yields an identifier.
LEMMA NextIdType == ASSUME NEW id \in 0..MaxId PROVE NextId(id) \in Ids
<1>1. (id + 1) % (MaxId + 1) \in 0..MaxId
  BY MaxIdAssumption
<1> QED
  BY <1>1, MaxIdAssumption DEF NextId, Ids

\* The acknowledgement types and packets are disjoint from what has no identifier.
LEMMA AckPacket ==
  ASSUME NEW p \in FromBroker, p.type # "DISCONNECT"
  PROVE  p.id \in Ids /\ p.err \in BOOLEAN
BY DEF FromBroker, Ack

\* A PUBREL, a PUBLISH and the DISCONNECT are packets for the broker.
LEMMA PubrelType == ASSUME NEW id \in Ids PROVE Pubrel(id) \in ToBroker
BY DEF Pubrel, ToBroker

\* So is a PUBLISH with the identifier its QoS calls for.
LEMMA PublishType ==
  ASSUME NEW id, QoS # 0 => id \in Ids, QoS = 0 => id = 0, NEW msg \in Nat
  PROVE  Publish(id, msg) \in ToBroker
<1>1. CASE QoS = 0
  BY <1>1 DEF Publish, ToBroker
<1>2. CASE QoS # 0
  BY <1>2 DEF Publish, ToBroker
<1> QED
  BY <1>1, <1>2

\* What the broker answers with is a packet the ack task can read.
LEMMA AckType ==
  ASSUME NEW t \in AckTypes, NEW id \in Ids, NEW err \in BOOLEAN
  PROVE  Ack(t, id, err) \in FromBroker
BY DEF Ack, FromBroker

\* Taking from a queue and adding to it keep its type.
LEMMA QueueType ==
  ASSUME NEW S, NEW q \in Seq(S)
  PROVE  /\ q # <<>> => Head(q) \in S /\ Tail(q) \in Seq(S)
         /\ \A x \in S : <<x>> \in Seq(S) /\ Append(q, x) \in Seq(S)
         /\ \A r \in Seq(S) : q \o r \in Seq(S)
         /\ Len(q) \in Nat /\ \A i \in 1..Len(q) : q[i] \in S
OBVIOUS

\* An answer of the broker keeps the type of the stream the ack task reads.
LEMMA ReplyType ==
  ASSUME fromBroker \in Seq(FromBroker), NEW a \in FromBroker, Reply(a)
  PROVE  fromBroker' \in Seq(FromBroker)
BY QueueType DEF Reply

-----------------------------------------------------------------------------
\* The state of the publisher, of its ack task and of its connection keeps its type,
\* and a PUBLISH that needs an identifier has one.
THEOREM TypeCorrect == Spec => []TypeOK
<1> USE DEF Ids, NoMsg
<1>1. Init => TypeOK
  <2> SUFFICES ASSUME Init PROVE TypeOK
    OBVIOUS
  <2>1. /\ permits \in Nat /\ inFlight \in [Ids -> Nat] /\ awaiting \in [Ids -> Nat]
        /\ nextId \in 0..MaxId
    BY WindowType, MaxIdAssumption DEF Init
  <2> QED
    <3>1. pubrels \in Seq(Ids) /\ toBroker \in Seq(ToBroker) /\ fromBroker \in Seq(FromBroker)
      BY DEF Init
    <3>2. acked \in SUBSET Nat /\ accepted \in SUBSET Nat
      BY DEF Init
    <3>3. windowClosed \in BOOLEAN /\ readError \in BOOLEAN /\ closed \in BOOLEAN /\ stop \in BOOLEAN
      BY DEF Init
    <3> QED
      BY <2>1, <3>1, <3>2, <3>3 DEF Init, TypeOK
<1>2. TypeOK /\ [Next]_vars => TypeOK'
  <2> SUFFICES ASSUME TypeOK, [Next]_vars PROVE TypeOK'
    OBVIOUS
  <2> USE DEF TypeOK
  <2>1. CASE DrainPubrel
    <3>1. Pubrel(Head(pubrels)) \in ToBroker
      BY <2>1, QueueType, PubrelType DEF DrainPubrel
    <3> QED
      BY <2>1, <3>1 DEF DrainPubrel, Deliver, writerVars, ackVars, windowVars, brokerVars
  <2>2. CASE DrainPubrelFails
    BY <2>2 DEF DrainPubrelFails, Return, ackVars, windowVars, brokerVars
  <2>3. CASE LoopTop
    BY <2>3 DEF LoopTop, ackVars, windowVars, brokerVars
  <2>4. CASE Pace
    BY <2>4 DEF Pace, ackVars, windowVars, brokerVars
  <2>5. CASE Acquire
    BY <2>5 DEF Acquire, ackVars, brokerVars
  <2>6. CASE AcquireClosed
    BY <2>6 DEF AcquireClosed, ackVars, windowVars, brokerVars
  <2>7. CASE AcquireStopped
    BY <2>7 DEF AcquireStopped, ackVars, windowVars, brokerVars
  <2>8. CASE Insert
    <3>1. NextId(nextId) \in Ids
      BY NextIdType
    <3>2. inFlight' \in [Ids -> Nat]
      BY <2>8, <3>1 DEF Insert
    <3>3. nextId' \in 0..MaxId /\ (QoS # 0 => nextId' \in Ids)
      BY <2>8, <3>1, MaxIdAssumption DEF Insert
    <3> QED
      BY <2>8, <3>2, <3>3 DEF Insert, ackVars, brokerVars
  <2>9. CASE WritePublish
    <3>1. Publish(IF QoS = 0 THEN 0 ELSE nextId, sent + 1) \in ToBroker
      <4>1. CASE QoS = 0
        BY <4>1, PublishType
      <4>2. CASE QoS # 0
        <5>1. nextId \in Ids
          BY <2>9, <4>2 DEF WritePublish
        <5> QED
          BY <4>2, <5>1, PublishType
      <4> QED
        BY <4>1, <4>2
    <3> QED
      BY <2>9, <3>1 DEF WritePublish, Deliver, ackVars, windowVars, brokerVars
  <2>10. CASE WriteFails
    BY <2>10 DEF WriteFails, Return, ackVars, brokerVars
  <2>11. CASE CountPublished
    BY <2>11 DEF CountPublished, ackVars, windowVars, brokerVars
  <2>12. CASE DrainTick
    <3>1. Pubrel(Head(pubrels)) \in ToBroker
      BY <2>12, QueueType, PubrelType DEF DrainTick
    <3> QED
      BY <2>12, <3>1 DEF DrainTick, Deliver, writerVars, ackVars, windowVars, brokerVars
  <2>13. CASE DrainDone
    <3>1. [i \in 1..Len(pubrels) |-> Pubrel(pubrels[i])] \in Seq(ToBroker)
      <4>1. Len(pubrels) \in Nat /\ \A i \in 1..Len(pubrels) : pubrels[i] \in Ids
        BY QueueType
      <4>2. \A i \in 1..Len(pubrels) : Pubrel(pubrels[i]) \in ToBroker
        BY <4>1, PubrelType
      <4> QED
        BY <4>1, <4>2
    <3>2. <<Disconnect>> \in Seq(ToBroker)
      BY DEF ToBroker
    <3> QED
      BY <2>13, <3>1, <3>2 DEF DrainDone, Deliver, ackVars, windowVars, brokerVars
  <2>14. CASE DisconnectClosed
    <3>1. <<Disconnect>> \in Seq(ToBroker)
      BY DEF ToBroker
    <3> QED
      BY <2>14, <3>1 DEF DisconnectClosed, Deliver, ackVars, windowVars, brokerVars
  <2>15. CASE Join
    BY <2>15 DEF Join, Return, ackVars, windowVars, brokerVars
  <2>16. CASE JoinTimeout
    BY <2>16 DEF JoinTimeout, Return, windowVars, brokerVars
  <2>17. CASE AckRead
    <3> DEFINE p == Head(fromBroker)
    <3>1. p \in FromBroker
      BY <2>17 DEF AckRead
    <3>2. pubrels' \in Seq(Ids)
      <4>1. CASE p.type = "PUBREC"
        <5>1. p.id \in Ids
          BY <3>1, <4>1, AckPacket
        <5> QED
          BY <2>17, <5>1, QueueType DEF AckRead, HandOver
      <4>2. CASE p.type # "PUBREC"
        BY <2>17, <4>2 DEF AckRead, HandOver
      <4> QED
        BY <4>1, <4>2
    <3>3. /\ refused' \in Nat /\ permits' \in Nat /\ acked' \in SUBSET Nat
          /\ inFlight' \in [Ids -> Nat]
      <4>1. CASE Terminal(p)
        <5>1. p.id \in Ids /\ p.err \in BOOLEAN
          BY <4>1, <3>1, AckPacket DEF Terminal
        <5> QED
          <6>1. CompleteAck(p.id, p.err)
            BY <2>17, <4>1 DEF AckRead
          <6> HIDE DEF p
          <6>2. refused' \in Nat
            BY <5>1, <6>1 DEF CompleteAck
          <6>3. permits' \in Nat
            BY <5>1, <6>1 DEF CompleteAck
          <6>4. inFlight' \in [Ids -> Nat]
            BY <5>1, <6>1 DEF CompleteAck
          <6>5. acked' \in SUBSET Nat
            <7>1. inFlight[p.id] \in Nat
              BY <5>1
            <7>2. acked' = acked \/ acked' = acked \cup {inFlight[p.id]}
              BY <6>1 DEF CompleteAck
            <7> QED
              BY <7>1, <7>2
          <6> QED
            BY <6>2, <6>3, <6>4, <6>5
      <4>2. CASE ~Terminal(p)
        BY <2>17, <4>2 DEF AckRead
      <4> QED
        BY <4>1, <4>2
    <3> QED
      BY <2>17, <3>2, <3>3 DEF AckRead, writerVars, brokerVars
  <2>18. CASE AckEof
    BY <2>18 DEF AckEof, writerVars, brokerVars
  <2>19. CASE AckError
    BY <2>19 DEF AckError, writerVars, brokerVars
  <2>20. CASE RequestStop
    BY <2>20 DEF RequestStop, writerVars, ackVars, windowVars, brokerVars
  <2>21. CASE BrokerRead
    <3> DEFINE p == Head(toBroker)
    <3>1. p \in ToBroker /\ toBroker' \in Seq(ToBroker)
      BY <2>21 DEF BrokerRead
    <3>2. /\ fromBroker' \in Seq(FromBroker) /\ accepted' \in SUBSET Nat
          /\ awaiting' \in [Ids -> Nat] /\ conn' \in {"open", "eof", "broken"}
      <4>1. CASE p.type = "PUBLISH"
        <5>1. PICK err \in Codes : BrokerPublish(p, err) /\ UNCHANGED conn
          BY <2>21, <4>1 DEF BrokerRead
        <5>2. p.msg \in Nat /\ (QoS # 0 => p.id \in Ids) /\ err \in BOOLEAN
          BY <3>1, <4>1, EnvironmentAssumption DEF ToBroker, Disconnect
        <5>3. QoS # 0 => /\ Ack("PUBACK", p.id, err) \in FromBroker
                         /\ Ack("PUBREC", p.id, err) \in FromBroker
                         /\ Ack("PUBREC", p.id, FALSE) \in FromBroker
          BY <5>2, AckType DEF AckTypes
        <5> HIDE DEF p
        <5>4. fromBroker' \in Seq(FromBroker)
          <6>1. CASE QoS = 0
            BY <5>1, <6>1 DEF BrokerPublish
          <6>2. CASE QoS = 1
            <7>1. Reply(Ack("PUBACK", p.id, err))
              BY <5>1, <6>2 DEF BrokerPublish
            <7> QED
              BY <5>3, <6>2, <7>1, ReplyType
          <6>3. CASE QoS = 2 /\ awaiting[p.id] # NoMsg
            <7>1. Reply(Ack("PUBREC", p.id, FALSE))
              BY <5>1, <6>3 DEF BrokerPublish, Reply, Ack
            <7> QED
              BY <5>3, <6>3, <7>1, ReplyType DEF Reply, Ack
          <6>4. CASE QoS = 2 /\ awaiting[p.id] = NoMsg
            <7>1. Reply(Ack("PUBREC", p.id, err))
              BY <5>1, <6>4 DEF BrokerPublish
            <7> QED
              BY <5>3, <6>4, <7>1, ReplyType
          <6> QED
            BY <6>1, <6>2, <6>3, <6>4, QoSAssumption
        <5>5. awaiting' \in [Ids -> Nat]
          BY <5>1, <5>2, QoSAssumption DEF BrokerPublish
        <5>6. accepted' = accepted \/ accepted' = accepted \cup {p.msg}
          BY <5>1, QoSAssumption DEF BrokerPublish
        <5> QED
          BY <5>1, <5>2, <5>4, <5>5, <5>6
      <4>2. CASE p.type = "PUBREL"
        <5>1. p.id \in Ids
          BY <3>1, <4>2 DEF ToBroker, Disconnect
        <5>2. \A e \in BOOLEAN : Ack("PUBCOMP", p.id, e) \in FromBroker
          BY <5>1, AckType DEF AckTypes
        <5>3. /\ Reply(Ack("PUBCOMP", p.id, awaiting[p.id] = NoMsg))
              /\ awaiting' = [awaiting EXCEPT ![p.id] = NoMsg]
              /\ UNCHANGED <<accepted, conn>>
          BY <2>21, <4>2 DEF BrokerRead
        <5> HIDE DEF p
        <5>4. fromBroker' \in Seq(FromBroker)
          BY <5>2, <5>3, ReplyType
        <5> QED
          BY <5>1, <5>3, <5>4
      <4>3. CASE p.type = "DISCONNECT"
        BY <2>21, <4>3 DEF BrokerRead
      <4> QED
        BY <2>21, <4>1, <4>2, <4>3 DEF BrokerRead
    <3> QED
      BY <2>21, <3>1, <3>2 DEF BrokerRead, writerVars, ackVars, windowVars
  <2>22. CASE BrokerStray
    <3>1. PICK t \in AckTypes, id \in Ids, err \in Codes : Reply(Ack(t, id, err))
      BY <2>22 DEF BrokerStray
    <3>2. Ack(t, id, err) \in FromBroker
      BY EnvironmentAssumption DEF Ack, FromBroker
    <3>3. fromBroker' \in Seq(FromBroker)
      BY <3>1, <3>2, ReplyType
    <3> QED
      BY <2>22, <3>3 DEF BrokerStray, writerVars, ackVars, windowVars
  <2>23. CASE ConnectionLost
    <3>1. Ack("DISCONNECT", 0, FALSE) \in FromBroker
      BY DEF FromBroker
    <3> QED
      <4>1. fromBroker' \in Seq(FromBroker)
        <5>1. \/ fromBroker' = fromBroker
              \/ fromBroker' = Append(fromBroker, Ack("DISCONNECT", 0, FALSE))
          BY <2>23 DEF ConnectionLost
        <5> QED
          <6>1. fromBroker \in Seq(FromBroker)
            OBVIOUS
          <6>2. Append(fromBroker, Ack("DISCONNECT", 0, FALSE)) \in Seq(FromBroker)
            BY <3>1, <6>1, QueueType
          <6> QED
            BY <5>1, <6>1, <6>2
      <4>2. conn' \in {"open", "eof", "broken"}
        BY <2>23, EnvironmentAssumption DEF ConnectionLost
      <4> QED
        BY <2>23, <4>1, <4>2 DEF ConnectionLost, writerVars, ackVars, windowVars, brokerVars
  <2>24. CASE UNCHANGED vars
    BY <2>24 DEF vars, writerVars, ackVars, windowVars, brokerVars
  <2> QED
    BY <2>1, <2>2, <2>3, <2>4, <2>5, <2>6, <2>7, <2>8, <2>9, <2>10, <2>11, <2>12,
       <2>13, <2>14, <2>15, <2>16, <2>17, <2>18, <2>19, <2>20, <2>21, <2>22, <2>23,
       <2>24 DEF Next, Writer, AckTask, Finished
<1> QED
  BY <1>1, <1>2, PTL DEF Spec

-----------------------------------------------------------------------------
(***************************************************************************)
(* The window.  WindowBounded is inductive on top of the types: an action  *)
(* either moves one unit between the free permits, the writer's hand and   *)
(* in_flight, or loses one when an identifier is reused too early; it      *)
(* never makes one.                                                        *)
(***************************************************************************)

\* The identifiers in flight are finitely many.
LEMMA InFlightFinite == IsFiniteSet(InFlightIds) /\ Cardinality(InFlightIds) \in Nat
<1>1. IsFiniteSet(Ids)
  BY FS_Interval, MaxIdAssumption DEF Ids
<1>2. InFlightIds \subseteq Ids
  BY DEF InFlightIds
<1> QED
  BY <1>1, <1>2, FS_Subset, FS_CardinalityType

\* in_flight.insert adds at most one entry.
LEMMA InsertCount ==
  ASSUME TypeOK, NEW id \in Ids, NEW m \in Nat \ {NoMsg},
         inFlight' = [inFlight EXCEPT ![id] = m]
  PROVE  Cardinality(InFlightIds') <= Cardinality(InFlightIds) + 1
<1>1. InFlightIds' = InFlightIds \cup {id}
  BY DEF InFlightIds, TypeOK, NoMsg
<1>2. /\ IsFiniteSet(InFlightIds) /\ Cardinality(InFlightIds) \in Nat
  BY InFlightFinite
<1>3. \/ Cardinality(InFlightIds \cup {id}) = Cardinality(InFlightIds)
      \/ Cardinality(InFlightIds \cup {id}) = Cardinality(InFlightIds) + 1
  BY <1>2, FS_AddElement
<1> QED
  BY <1>1, <1>2, <1>3

\* in_flight.remove of an entry that is there takes away exactly one.
LEMMA RemoveCount ==
  ASSUME TypeOK, NEW id \in Ids, inFlight[id] # NoMsg,
         inFlight' = [inFlight EXCEPT ![id] = NoMsg]
  PROVE  Cardinality(InFlightIds') = Cardinality(InFlightIds) - 1
<1>1. InFlightIds' = InFlightIds \ {id} /\ id \in InFlightIds
  BY DEF InFlightIds, TypeOK, NoMsg
<1> QED
  BY <1>1, InFlightFinite, FS_RemoveElement

\* Whatever acknowledgements the broker sends, in whatever order and however often,
\* the free permits, the permit the writer holds and the messages in flight never
\* exceed the window that effective_inflight granted.
THEOREM WindowSafe == Spec => []WindowBounded
<1> USE DEF WindowBounded
<1>1. Init => WindowBounded
  <2> SUFFICES ASSUME Init PROVE permits + Cardinality(InFlightIds) + Pending <= Window
    OBVIOUS
  <2>1. InFlightIds = {}
    BY DEF Init, InFlightIds
  <2>2. Cardinality(InFlightIds) = 0
    BY <2>1, FS_EmptySet
  <2> QED
    BY <2>2, WindowType DEF Init, Pending
<1>2. TypeOK /\ TypeOK' /\ WindowBounded /\ [Next]_vars => WindowBounded'
  <2> SUFFICES ASSUME TypeOK, TypeOK', WindowBounded, [Next]_vars, wpc' # "returned"
               PROVE  permits' + Cardinality(InFlightIds') + Pending' <= Window
    OBVIOUS
  <2> DEFINE n == Cardinality(InFlightIds)
  <2>0. /\ n \in Nat /\ n' \in Nat
        /\ permits \in Nat /\ permits' \in Nat /\ Window \in Nat
        /\ Pending \in 0..1 /\ Pending' \in 0..1
    <3>1. n \in Nat
      BY InFlightFinite
    <3>2. IsFiniteSet(InFlightIds') /\ n' \in Nat
      <4>1. IsFiniteSet(Ids) /\ InFlightIds' \subseteq Ids
        BY FS_Interval, MaxIdAssumption DEF Ids, InFlightIds
      <4> QED
        BY <4>1, FS_Subset, FS_CardinalityType
    <3> QED
      BY <3>1, <3>2, WindowType, MaxIdAssumption DEF TypeOK, Pending
  \* The steps that leave the permits, in_flight and the writer's hand alone.
  <2>1. ASSUME UNCHANGED <<permits, inFlight>>, wpc # "returned",
               wpc' = "insert" /\ QoS # 0 => wpc = "insert"
        PROVE  permits' + Cardinality(InFlightIds') + Pending' <= Window
    <3>1. InFlightIds' = InFlightIds
      BY <2>1 DEF InFlightIds
    <3>2. Pending' <= Pending
      BY <2>1 DEF Pending
    <3> HIDE DEF Pending
    <3> QED
      BY <2>0, <2>1, <3>1, <3>2
  <2>2. CASE DrainPubrel
    BY <2>1, <2>2 DEF DrainPubrel, writerVars, windowVars
  <2>3. CASE DrainPubrelFails
    BY <2>3 DEF DrainPubrelFails, Return
  <2>4. CASE LoopTop
    BY <2>1, <2>4 DEF LoopTop, windowVars
  <2>5. CASE Pace
    BY <2>1, <2>5 DEF Pace, windowVars
  <2>6. CASE Acquire
    <3>1. InFlightIds' = InFlightIds
      BY <2>6 DEF Acquire, InFlightIds
    <3>2. permits' = permits - 1 /\ wpc # "returned" /\ Pending = 0
      BY <2>6 DEF Acquire, Pending
    <3> HIDE DEF Pending
    <3> QED
      BY <2>0, <3>1, <3>2
  <2>7. CASE AcquireClosed
    BY <2>1, <2>7 DEF AcquireClosed, windowVars
  <2>8. CASE AcquireStopped
    BY <2>1, <2>8 DEF AcquireStopped, windowVars
  <2>9. CASE Insert
    <3>1. CASE QoS = 0
      BY <2>1, <2>9, <3>1 DEF Insert
    <3>2. CASE QoS # 0
      <4>1. Pending = 1 /\ Pending' = 0 /\ permits' = permits /\ wpc # "returned"
        BY <2>9, <3>2 DEF Insert, Pending
      <4>2. NextId(nextId) \in Ids /\ sent + 1 \in Nat \ {NoMsg}
        BY NextIdType DEF TypeOK, NoMsg
      <4>3. inFlight' = [inFlight EXCEPT ![NextId(nextId)] = sent + 1]
        BY <2>9, <3>2 DEF Insert
      <4>4. n' <= n + 1
        BY <4>2, <4>3, InsertCount
      <4> HIDE DEF n
      <4> QED
        BY <2>0, <4>1, <4>4 DEF n
    <3> QED
      BY <3>1, <3>2
  <2>10. CASE WritePublish
    BY <2>1, <2>10 DEF WritePublish, windowVars
  <2>11. CASE WriteFails
    BY <2>11 DEF WriteFails, Return
  <2>12. CASE CountPublished
    BY <2>1, <2>12 DEF CountPublished, windowVars
  <2>13. CASE DrainTick
    BY <2>1, <2>13 DEF DrainTick, writerVars, windowVars
  <2>14. CASE DrainDone
    BY <2>1, <2>14 DEF DrainDone, windowVars
  <2>15. CASE DisconnectClosed
    BY <2>1, <2>15 DEF DisconnectClosed, windowVars
  <2>16. CASE Join
    BY <2>16 DEF Join, Return
  <2>17. CASE JoinTimeout
    BY <2>17 DEF JoinTimeout, Return
  <2>18. CASE AckRead
    <3> DEFINE p == Head(fromBroker)
    <3>1. wpc' = wpc
      BY <2>18 DEF AckRead, writerVars
    <3>2. CASE Terminal(p) /\ inFlight[p.id] # NoMsg
      <4>1. p \in FromBroker
        BY <2>18, QueueType DEF AckRead, TypeOK
      <4>2. p.id \in Ids
        BY <3>2, <4>1, AckPacket DEF Terminal
      <4>3. CompleteAck(p.id, p.err)
        BY <2>18, <3>2 DEF AckRead
      <4>4. permits' = permits + 1 /\ inFlight' = [inFlight EXCEPT ![p.id] = NoMsg]
        BY <3>2, <4>3 DEF CompleteAck
      <4>5. n' = n - 1
        BY <3>2, <4>2, <4>4, RemoveCount
      <4>6. Pending' = Pending
        BY <3>1 DEF Pending
      <4> HIDE DEF Pending, n, p
      <4> QED
        BY <2>0, <3>1, <4>4, <4>5, <4>6 DEF n
    <3>3. CASE ~(Terminal(p) /\ inFlight[p.id] # NoMsg)
      <4>1. UNCHANGED <<permits, inFlight>>
        BY <2>18, <3>3 DEF AckRead, CompleteAck
      <4> QED
        BY <2>1, <3>1, <4>1
    <3> QED
      BY <3>2, <3>3
  <2>19. CASE AckEof
    BY <2>1, <2>19 DEF AckEof, writerVars
  <2>20. CASE AckError
    BY <2>1, <2>20 DEF AckError, writerVars
  <2>21. CASE RequestStop
    BY <2>1, <2>21 DEF RequestStop, writerVars, windowVars
  <2>22. CASE BrokerRead
    BY <2>1, <2>22 DEF BrokerRead, writerVars, windowVars
  <2>23. CASE BrokerStray
    BY <2>1, <2>23 DEF BrokerStray, writerVars, windowVars
  <2>24. CASE ConnectionLost
    BY <2>1, <2>24 DEF ConnectionLost, writerVars, windowVars
  <2>25. CASE UNCHANGED vars
    BY <2>1, <2>25 DEF vars, writerVars, windowVars
  <2> QED
    BY <2>2, <2>3, <2>4, <2>5, <2>6, <2>7, <2>8, <2>9, <2>10, <2>11, <2>12, <2>13,
       <2>14, <2>15, <2>16, <2>17, <2>18, <2>19, <2>20, <2>21, <2>22, <2>23, <2>24,
       <2>25 DEF Next, Writer, AckTask, Finished
<1> QED
  BY <1>1, <1>2, TypeCorrect, PTL DEF Spec

-----------------------------------------------------------------------------
\* The newest message whose PUBLISH the broker may have.
Written == IF wpc = "count" THEN sent + 1 ELSE sent

\* The counter follows the messages sent, and what is under way to the broker or accepted
\* by it was written.
PublishedInv ==
    /\ published = sent
    /\ \A i \in 1..Len(toBroker) : toBroker[i].type = "PUBLISH" => toBroker[i].msg \in 1..Written
    /\ accepted \subseteq 1..Written

\* Packets other than a PUBLISH add nothing, and one with the message that is next is
\* written when the writer goes on to count it.
LEMMA DeliveredWritten ==
  ASSUME TypeOK, PublishedInv, NEW S \in Seq(ToBroker), Deliver(S), Written' \in Nat, Written <= Written',
         \A i \in 1..Len(S) : S[i].type = "PUBLISH" => S[i].msg \in 1..Written'
  PROVE  \A i \in 1..Len(toBroker') : toBroker'[i].type = "PUBLISH" => toBroker'[i].msg \in 1..Written'
<1>0. toBroker \in Seq(ToBroker) /\ Written \in Nat
  BY DEF TypeOK, Written
<1>1. \A i \in 1..Len(toBroker) : toBroker[i].type = "PUBLISH" => toBroker[i].msg \in 1..Written'
  BY <1>0 DEF PublishedInv
<1>2. CASE conn = "open"
  <2> DEFINE t == toBroker \o S
  <2>1. \A i \in 1..Len(t) : \/ i \in 1..Len(toBroker) /\ t[i] = toBroker[i]
                             \/ i - Len(toBroker) \in 1..Len(S) /\ t[i] = S[i - Len(toBroker)]
    BY <1>0
  <2>2. toBroker' = t
    BY <1>2 DEF Deliver
  <2> HIDE DEF t
  <2> QED
    BY <1>1, <2>1, <2>2
<1>3. CASE conn # "open"
  BY <1>1, <1>3 DEF Deliver
<1> QED
  BY <1>2, <1>3

\* Steps that write nothing and let the broker read nothing.
LEMMA WrittenKept ==
  ASSUME PublishedInv, UNCHANGED <<published, sent, toBroker, accepted>>, wpc = "count" <=> wpc' = "count"
  PROVE  PublishedInv'
BY DEF PublishedInv, Written

\* When publisher::run returns, on whichever path, counters.published covers every message
\* the broker accepted, whatever the broker sent.
THEOREM PublishedCovers == Spec => []PublishedCoversAccepted
<1>1. Init => PublishedInv
  BY DEF Init, PublishedInv, Written
<1>2. TypeOK /\ TypeOK' /\ PublishedInv /\ [Next]_vars => PublishedInv'
  <2> SUFFICES ASSUME TypeOK, TypeOK', PublishedInv, [Next]_vars PROVE PublishedInv'
    OBVIOUS
  <2> USE DEF writerVars, ackVars, windowVars, brokerVars
  <2>0. sent \in Nat /\ published \in Nat /\ toBroker \in Seq(ToBroker) /\ pubrels \in Seq(Ids)
    BY DEF TypeOK
  <2>1. CASE DrainPubrelFails \/ LoopTop \/ Pace \/ Acquire \/ AcquireClosed \/ AcquireStopped
    BY <2>1, WrittenKept DEF DrainPubrelFails, LoopTop, Pace, Acquire, AcquireClosed, AcquireStopped, Return
  <2>2. CASE Insert \/ WriteFails \/ Join \/ JoinTimeout
    BY <2>2, WrittenKept DEF Insert, WriteFails, Join, JoinTimeout, Return
  <2>3. CASE AckTask \/ RequestStop \/ BrokerStray \/ ConnectionLost \/ UNCHANGED vars
    BY <2>3, WrittenKept DEF AckTask, AckRead, AckEof, AckError, RequestStop, BrokerStray, ConnectionLost, vars
  <2>4. ASSUME NEW S \in Seq(ToBroker), Deliver(S), UNCHANGED <<sent, published, accepted>>,
               wpc # "count", wpc' # "count", \A i \in 1..Len(S) : S[i].type # "PUBLISH"
        PROVE  PublishedInv'
    <3>1. Written' = Written /\ Written \in Nat /\ Written <= Written'
      BY <2>0, <2>4 DEF Written
    <3>2. \A i \in 1..Len(toBroker') : toBroker'[i].type = "PUBLISH" => toBroker'[i].msg \in 1..Written'
      BY <2>4, <3>1, DeliveredWritten
    <3> QED
      BY <2>4, <3>1, <3>2 DEF PublishedInv
  <2>5. CASE DrainPubrel \/ DrainTick
    <3> DEFINE S == <<Pubrel(Head(pubrels))>>
    <3>1. Head(pubrels) \in Ids /\ Deliver(S) /\ UNCHANGED <<sent, published, accepted, wpc>> /\ wpc # "count"
      BY <2>0, <2>5 DEF DrainPubrel, DrainTick
    <3>2. S \in Seq(ToBroker) /\ \A i \in 1..Len(S) : S[i].type # "PUBLISH"
      BY <3>1, PubrelType DEF Pubrel
    <3> HIDE DEF S
    <3> QED
      BY <2>4, <3>1, <3>2
  <2>6. CASE DrainDone
    <3> DEFINE R == [i \in 1..Len(pubrels) |-> Pubrel(pubrels[i])]
               S == R \o <<Disconnect>>
    <3>1. Deliver(S) /\ UNCHANGED <<sent, published, accepted>> /\ wpc # "count" /\ wpc' # "count"
      BY <2>6 DEF DrainDone
    <3>2. R \in Seq(ToBroker) /\ Disconnect \in ToBroker /\ \A i \in 1..Len(R) : R[i].type # "PUBLISH"
      <4>1. \A i \in 1..Len(pubrels) : Pubrel(pubrels[i]) \in ToBroker /\ Pubrel(pubrels[i]).type # "PUBLISH"
        BY <2>0, PubrelType DEF Pubrel
      <4>2. R \in Seq(ToBroker) /\ Len(R) = Len(pubrels)
        BY <2>0, <4>1
      <4>3. Disconnect \in ToBroker
        BY DEF ToBroker
      <4> QED
        BY <4>1, <4>2, <4>3
    <3> HIDE DEF R
    <3>3. S \in Seq(ToBroker) /\ \A i \in 1..Len(S) : S[i].type # "PUBLISH"
      <4>1. \A i \in 1..Len(S) : (i \in 1..Len(R) /\ S[i] = R[i]) \/ S[i] = Disconnect
        BY <3>2
      <4>2. Disconnect.type # "PUBLISH"
        BY DEF Disconnect
      <4>3. S \in Seq(ToBroker)
        BY <3>2
      <4> HIDE DEF S
      <4> QED
        BY <3>2, <4>1, <4>2, <4>3
    <3> HIDE DEF S
    <3> QED
      BY <2>4, <3>1, <3>3
  <2>7. CASE DisconnectClosed
    <3> DEFINE S == <<Disconnect>>
    <3>1. Deliver(S) /\ UNCHANGED <<sent, published, accepted>> /\ wpc # "count" /\ wpc' # "count"
      BY <2>7 DEF DisconnectClosed
    <3>2. S \in Seq(ToBroker) /\ \A i \in 1..Len(S) : S[i].type # "PUBLISH"
      BY DEF ToBroker, Disconnect
    <3> HIDE DEF S
    <3> QED
      BY <2>4, <3>1, <3>2
  <2>8. CASE WritePublish
    <3> DEFINE y == Publish(IF QoS = 0 THEN 0 ELSE nextId, sent + 1)
               S == <<y>>
    <3>1. Deliver(S) /\ UNCHANGED <<sent, published, accepted>> /\ wpc = "write" /\ wpc' = "count"
      BY <2>8 DEF WritePublish
    <3>2. y \in ToBroker /\ y.msg = sent + 1
      <4> DEFINE id == IF QoS = 0 THEN 0 ELSE nextId
      <4>1. (QoS # 0 => id \in Ids) /\ (QoS = 0 => id = 0) /\ sent + 1 \in Nat
        BY <3>1 DEF TypeOK
      <4>2. y.msg = sent + 1
        BY DEF Publish
      <4> HIDE DEF id
      <4>3. Publish(id, sent + 1) \in ToBroker
        BY <4>1, PublishType
      <4> QED
        BY <4>2, <4>3 DEF id
    <3>3. Written = sent /\ Written' = sent + 1
      BY <3>1 DEF Written
    <3> HIDE DEF y
    <3>4. S \in Seq(ToBroker) /\ \A i \in 1..Len(S) : S[i].msg \in 1..Written'
      BY <2>0, <3>2, <3>3
    <3>5. \A i \in 1..Len(toBroker') : toBroker'[i].type = "PUBLISH" => toBroker'[i].msg \in 1..Written'
      <4> HIDE DEF S
      <4> QED
        BY <2>0, <3>1, <3>3, <3>4, DeliveredWritten
    <3> QED
      BY <2>0, <3>1, <3>3, <3>5 DEF PublishedInv
  <2>9. CASE CountPublished
    BY <2>0, <2>9 DEF CountPublished, PublishedInv, Written
  <2>10. CASE BrokerRead
    <3> DEFINE p == Head(toBroker)
    <3>1. /\ toBroker # <<>> /\ toBroker' = Tail(toBroker) /\ UNCHANGED <<published, sent, wpc>>
      BY <2>10 DEF BrokerRead
    <3>2. p = toBroker[1] /\ 1 \in 1..Len(toBroker)
      BY <2>0, <3>1
    <3>3. accepted' = accepted \/ (p.type = "PUBLISH" /\ accepted' = accepted \cup {p.msg})
      BY <2>10, Zenon DEF BrokerRead, BrokerPublish
    <3>4. \A i \in 1..Len(toBroker') : i + 1 \in 1..Len(toBroker) /\ toBroker'[i] = toBroker[i + 1]
      BY <2>0, <3>1
    <3>5. \A i \in 1..Len(toBroker') : toBroker'[i].type = "PUBLISH" => toBroker'[i].msg \in 1..Written
      BY <3>4 DEF PublishedInv
    <3>6. accepted' \subseteq 1..Written
      BY <3>2, <3>3 DEF PublishedInv
    <3>7. Written' = Written
      BY <3>1 DEF Written
    <3> QED
      BY <3>1, <3>5, <3>6, <3>7 DEF PublishedInv
  <2> QED
    BY <2>1, <2>2, <2>3, <2>5, <2>6, <2>7, <2>8, <2>9, <2>10 DEF Next, Writer, Finished
<1>3. TypeOK /\ PublishedInv => PublishedCoversAccepted
  <2> SUFFICES ASSUME TypeOK, PublishedInv, wpc = "returned" PROVE Cardinality(accepted) <= published
    BY DEF PublishedCoversAccepted
  <2>1. accepted \subseteq 1..published /\ published \in Nat
    BY DEF TypeOK, PublishedInv, Written
  <2>2. IsFiniteSet(1..published) /\ Cardinality(1..published) = published
    BY <2>1, FS_Interval
  <2> QED
    BY <2>1, <2>2, FS_Subset
<1> QED
  BY <1>1, <1>2, <1>3, TypeCorrect, PTL DEF Spec
==============================================================================
