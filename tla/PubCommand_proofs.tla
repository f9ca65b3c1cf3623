-------------------------- MODULE PubCommand_proofs --------------------------
(***************************************************************************)
(* Machine-checked proofs about PubCommand, for any number of runs, lines, *)
(* crashes, connection losses and refusals, at every QoS.                  *)
(***************************************************************************)
EXTENDS PubCommand, FiniteSetTheorems, TLAPS

-----------------------------------------------------------------------------
(***************************************************************************)
(* The inductive invariant.  The properties count messages and deliveries  *)
(* under way over all runs; why the counts hold is a matter of where the   *)
(* one packet of the handshake is: still to be read by the broker,         *)
(* answered, or lost with the connection.                                  *)
(***************************************************************************)
AckTypes == {"PUBACK", "PUBREC", "PUBCOMP"}

\* What broken runs may have left behind; a clean session inherits nothing.
Left == IF persistent THEN broken ELSE 0

\* Messages confirmed though they passed for duplicates, and deliveries held open.
Dup == Cardinality(confirmed \ accepted)
Held == Cardinality(awaiting)

Waiting == IF toBroker # <<>> /\ toBroker[1].type = "PUBLISH" THEN 1 ELSE 0
NoAcks == \A i \in 1..Len(fromBroker) : fromBroker[i].type \notin AckTypes
OneAck(i) == /\ i \in 1..Len(fromBroker) /\ fromBroker[i].type \in AckTypes
             /\ \A j \in 1..Len(fromBroker) : fromBroker[j].type \in AckTypes => j = i

Settled == Dup + Held <= Left
Owing == (msg \in accepted /\ Dup + Held <= Left + 1) \/ Settled
Paid == (msg \in accepted /\ Settled) \/ Dup + Held + 1 <= Left

\* The queues, whatever the QoS.
Requests == [type : {"CONNECT", "PUBLISH", "PUBREL", "DISCONNECT"}, id : 0..MaxId, msg : Nat]
Answers == [type : AckTypes \cup {"CONNACK", "PUBLISH", "DISCONNECT"}, err : BOOLEAN]
PacketsOK ==
    /\ toBroker \in Seq(Requests) /\ fromBroker \in Seq(Answers)
    /\ \A i \in 1..Len(toBroker) :
         /\ toBroker[i].type = "PUBLISH" =>
              toBroker[i].msg \in 1..msg /\ (QoS = 2 => toBroker[i].id \in Ids)
         /\ toBroker[i].type = "DISCONNECT" => cpc = "off"

\* What holds apart from the handshake.
Bookkeeping ==
    /\ TypeOK /\ PacketsOK /\ persistent \in BOOLEAN
    /\ conn = "down" => cpc = "off"
    /\ cpc # "off" => broken < runs
    /\ cpc \in {"ack", "comp"} => msg > 0
    /\ QoS = 0 => cpc \notin {"ack", "comp"} /\ confirmed = {}
    /\ QoS # 2 => awaiting = {} /\ cpc # "comp"

\* The lines published so far are confirmed, but for the one under way.
LinesConfirmed ==
    QoS > 0 =>
      /\ cpc = "connect" => line = 0
      /\ cpc = "line" => (msg - line + 1)..msg \subseteq confirmed
      /\ cpc \in {"ack", "comp"} => line > 0 /\ (msg - line + 1)..(msg - 1) \subseteq confirmed
      /\ exit = "ok" => cpc = "off" /\ (msg - Lines + 1)..msg \subseteq confirmed

\* Where the handshake stands and what is owed there.
InConnect ==
    /\ NoAcks /\ (persistent => Settled) /\ Held <= Left + 1
    /\ \/ /\ toBroker = <<Packet("CONNECT", 0, 0)>>
          /\ \A i \in 1..Len(fromBroker) : fromBroker[i].type # "CONNACK"
       \/ toBroker = <<>> /\ Settled
InLine == toBroker = <<>> /\ NoAcks /\ Settled
InAck ==
    \/ toBroker = <<Packet("PUBLISH", nextId, msg)>> /\ nextId \in Ids /\ NoAcks /\ Settled
    \/ toBroker = <<>> /\ nextId \in Ids /\ NoAcks /\ Dup + Held <= Left + 1
    \/ /\ toBroker = <<>> /\ nextId \in Ids /\ Dup + Held <= Left + 1
       /\ \E i \in 1..Len(fromBroker) :
            /\ OneAck(i)
            /\ ~fromBroker[i].err => IF QoS = 1 THEN Paid ELSE nextId \in awaiting /\ Owing
InComp ==
    \/ toBroker = <<Packet("PUBREL", nextId, 0)>> /\ NoAcks /\ nextId \in awaiting /\ Owing
    \/ toBroker = <<>> /\ NoAcks /\ Dup + Held <= Left + 1
    \/ toBroker = <<>> /\ Paid /\ \E i \in 1..Len(fromBroker) : OneAck(i)
InOff ==
    /\ Len(toBroker) <= 1
    /\ IF persistent THEN Dup + Held + Waiting <= Left ELSE Held + Waiting <= 1
HandshakeStands ==
    QoS > 0 =>
      /\ Dup <= Left
      /\ cpc = "connect" => InConnect
      /\ cpc = "line" => InLine
      /\ cpc = "ack" => InAck
      /\ cpc = "comp" => InComp
      /\ cpc = "off" => InOff
      /\ exit = "ok" => Waiting = 0 /\ Held <= Left

PubInv == Bookkeeping /\ LinesConfirmed /\ HandshakeStands

-----------------------------------------------------------------------------
(***************************************************************************)
(* Identifiers, packets and queues.                                        *)
(***************************************************************************)

\* Client::next_packet_id never leaves the identifiers.
LEMMA NextPacketIdType == ASSUME NEW id \in 0..MaxId PROVE NextPacketId(id) \in Ids
<1>1. (id + 1) % (MaxId + 1) \in 0..MaxId
  BY PubAssumption
<1> QED
  BY <1>1, PubAssumption DEF NextPacketId, Ids

\* What the command and the broker put on the wire has its type.
LEMMA PacketType ==
  ASSUME NEW id \in 0..MaxId, NEW m \in Nat,
         NEW t \in {"CONNECT", "PUBLISH", "PUBREL", "DISCONNECT"}
  PROVE  /\ Packet(t, id, m) \in Requests
         /\ Packet(t, id, m).type = t /\ Packet(t, id, m).id = id /\ Packet(t, id, m).msg = m
BY DEF Packet, Requests

\* The same for what the broker sends.
LEMMA AnswerType ==
  ASSUME NEW t \in AckTypes \cup {"CONNACK", "PUBLISH", "DISCONNECT"}, NEW e \in BOOLEAN
  PROVE  Answer(t, e) \in Answers /\ Answer(t, e).type = t /\ Answer(t, e).err = e
BY DEF Answer, Answers

\* Taking from a queue and adding to it.
LEMMA QueueType ==
  ASSUME NEW S, NEW q \in Seq(S)
  PROVE  /\ Len(q) \in Nat /\ \A i \in 1..Len(q) : q[i] \in S
         /\ q # <<>> => /\ Head(q) \in S /\ Head(q) = q[1] /\ Tail(q) \in Seq(S)
                        /\ Len(q) > 0 /\ Len(Tail(q)) = Len(q) - 1
                        /\ \A i \in 1..Len(Tail(q)) : Tail(q)[i] = q[i + 1]
         /\ \A x \in S : /\ Append(q, x) \in Seq(S) /\ Len(Append(q, x)) = Len(q) + 1
                          /\ Append(q, x)[Len(q) + 1] = x
                          /\ \A i \in 1..Len(q) : Append(q, x)[i] = q[i]
OBVIOUS

\* write_packet keeps the queue, or appends the packet to it.
LEMMA SendKeeps ==
  ASSUME toBroker \in Seq(Requests), NEW p \in Requests, Send(p)
  PROVE  /\ toBroker' \in Seq(Requests)
         /\ \A i \in 1..Len(toBroker') :
              toBroker'[i] = p \/ (i \in 1..Len(toBroker) /\ toBroker'[i] = toBroker[i])
<1>1. CASE conn # "open"
  BY <1>1 DEF Send
<1>2. CASE conn = "open"
  <2>1. toBroker' = Append(toBroker, p)
    BY <1>2 DEF Send
  <2>2. Append(toBroker, p) \in Seq(Requests) /\ Len(Append(toBroker, p)) = Len(toBroker) + 1
        /\ Len(toBroker) \in Nat
        /\ Append(toBroker, p)[Len(toBroker) + 1] = p
        /\ \A i \in 1..Len(toBroker) : Append(toBroker, p)[i] = toBroker[i]
    BY QueueType
  <2>3. ASSUME NEW i \in 1..(Len(toBroker) + 1) PROVE i \in 1..Len(toBroker) \/ i = Len(toBroker) + 1
    BY <2>2
  <2> QED
    BY <2>1, <2>2, <2>3
<1> QED
  BY <1>1, <1>2

\* What the broker adds to the stream comes after what is there.
LEMMA ReplyAppends ==
  ASSUME NEW S, NEW q \in Seq(S), NEW x \in S, NEW y \in S
  PROVE  /\ q \o <<>> = q /\ q \o <<x>> = Append(q, x)
         /\ q \o <<x, y>> = Append(Append(q, x), y)
OBVIOUS

-----------------------------------------------------------------------------
(***************************************************************************)
(* Types and bookkeeping.                                                  *)
(***************************************************************************)

\* What one read of the broker does to the queues and to its own state.
LEMMA BrokerReadTypes ==
  ASSUME Bookkeeping, BrokerRead
  PROVE  /\ fromBroker' \in Seq(Answers) /\ toBroker' \in Seq(Requests)
         /\ Len(toBroker') = Len(toBroker) - 1
         /\ \A i \in 1..Len(toBroker') : i + 1 \in 1..Len(toBroker) /\ toBroker'[i] = toBroker[i + 1]
         /\ accepted' \subseteq 1..msg /\ awaiting' \subseteq Ids
         /\ QoS # 2 => awaiting' = {}
         /\ conn' \in {"open", "down"} /\ (conn' = "down" => cpc = "off")
<1> USE DEF Bookkeeping, TypeOK, PacketsOK
<1> DEFINE p == Head(toBroker)
<1>1. /\ toBroker' = Tail(toBroker) /\ toBroker # <<>> /\ conn = "open"
      /\ toBroker' \in Seq(Requests) /\ Len(toBroker) \in Nat /\ Len(toBroker') = Len(toBroker) - 1
      /\ p = toBroker[1] /\ 1 \in 1..Len(toBroker) /\ p \in Requests
      /\ \A i \in 1..Len(toBroker') : toBroker'[i] = toBroker[i + 1]
  BY QueueType DEF BrokerRead
<1>2. \A i \in 1..Len(toBroker') : i + 1 \in 1..Len(toBroker)
  BY <1>1
<1>3. CASE p.type = "CONNECT"
  <2>1. BrokerConnect
    BY <1>3 DEF BrokerRead
  <2>2. PICK e \in BOOLEAN : \/ fromBroker' = fromBroker \o <<Answer("CONNACK", e)>>
                            \/ fromBroker' = fromBroker \o <<Answer("CONNACK", e), Answer("PUBLISH", FALSE)>>
    BY <2>1, PubAssumption DEF BrokerConnect, Reply
  <2>3. fromBroker' \in Seq(Answers)
    <3> DEFINE a == Answer("CONNACK", e)
               b == Answer("PUBLISH", FALSE)
    <3>1. a \in Answers /\ b \in Answers
      BY AnswerType
    <3>2. fromBroker' \in {fromBroker \o <<a>>, fromBroker \o <<a, b>>}
      BY <2>2
    <3> HIDE DEF a, b
    <3>3. fromBroker' \in {Append(fromBroker, a), Append(Append(fromBroker, a), b)}
      BY <3>1, <3>2, ReplyAppends
    <3>4. Append(fromBroker, a) \in Seq(Answers)
      BY <3>1, QueueType
    <3>5. Append(Append(fromBroker, a), b) \in Seq(Answers)
      BY <3>1, <3>4, QueueType
    <3> QED
      BY <3>3, <3>4, <3>5, Zenon
  <2>4. /\ accepted' = accepted /\ conn' = conn /\ awaiting' \in {awaiting, {}}
    BY <2>1 DEF BrokerConnect
  <2> QED
    BY <1>1, <1>2, <2>3, <2>4
<1>4. CASE p.type = "PUBLISH"
  <2>1. BrokerPublish(p)
    BY <1>4 DEF BrokerRead
  <2>2. p.msg \in 1..msg /\ (QoS = 2 => p.id \in Ids)
    BY <1>1, <1>4
  <2> HIDE DEF p
  <2>3. PICK e \in BOOLEAN, t \in {"PUBACK", "PUBREC"} :
          fromBroker' \in {fromBroker \o <<>>, fromBroker \o <<Answer(t, e)>>}
    <3>1. PICK err \in Codes :
            Reply(IF QoS = 0 THEN <<>> ELSE <<Answer(IF QoS = 1 THEN "PUBACK" ELSE "PUBREC",
                                                     err /\ p.id \notin awaiting)>>)
      BY <2>1 DEF BrokerPublish
    <3> DEFINE e == err /\ p.id \notin awaiting
    <3>2. e \in BOOLEAN
      BY PubAssumption
    <3>3. Reply(IF QoS = 0 THEN <<>> ELSE <<Answer(IF QoS = 1 THEN "PUBACK" ELSE "PUBREC", e)>>)
      BY <3>1
    <3> HIDE DEF e
    <3> QED
      BY <3>2, <3>3 DEF Reply
  <2>4. fromBroker' \in Seq(Answers)
    <3>1. Answer(t, e) \in Answers
      BY AnswerType DEF AckTypes
    <3>2. /\ fromBroker \o <<>> = fromBroker
          /\ fromBroker \o <<Answer(t, e)>> = Append(fromBroker, Answer(t, e))
      BY <3>1, ReplyAppends
    <3>3. Append(fromBroker, Answer(t, e)) \in Seq(Answers)
      BY <3>1, QueueType
    <3> QED
      BY <2>3, <3>2, <3>3
  <2>5. /\ accepted' \in {accepted, accepted \cup {p.msg}} /\ conn' = conn
        /\ awaiting' \in {awaiting, awaiting \cup {p.id}} /\ (QoS # 2 => awaiting' = awaiting)
    BY <2>1 DEF BrokerPublish
  <2> QED
    BY <1>1, <1>2, <2>2, <2>4, <2>5
<1>5. CASE p.type = "PUBREL"
  <2>1. /\ awaiting' = awaiting \ {p.id} /\ UNCHANGED <<accepted, conn>>
        /\ Reply(<<Answer("PUBCOMP", p.id \notin awaiting)>>)
    BY <1>5 DEF BrokerRead
  <2> DEFINE e == p.id \notin awaiting
  <2>2. e \in BOOLEAN
    OBVIOUS
  <2>3. fromBroker' = fromBroker \o <<Answer("PUBCOMP", e)>>
    BY <2>1 DEF Reply
  <2> HIDE DEF e
  <2>4. Answer("PUBCOMP", e) \in Answers
    BY <2>2, AnswerType DEF AckTypes
  <2>5. fromBroker' \in Seq(Answers)
    BY <2>3, <2>4, ReplyAppends, QueueType
  <2> QED
    BY <1>1, <1>2, <2>1, <2>5
<1>6. CASE p.type = "DISCONNECT"
  <2>1. cpc = "off"
    BY <1>1, <1>6
  <2>2. conn' = "down" /\ UNCHANGED <<awaiting, accepted, fromBroker>>
    BY <1>6 DEF BrokerRead
  <2> QED
    BY <1>1, <1>2, <2>1, <2>2
<1> QED
  BY <1>1, <1>3, <1>4, <1>5, <1>6 DEF Requests

\* The types and the bookkeeping hold at first and no step breaks them.
LEMMA BookkeepingInit == Init => Bookkeeping
BY PubAssumption DEF Init, Bookkeeping, TypeOK, PacketsOK

\* Every step of the command, of the broker and of the connection keeps the books.
LEMMA BookkeepingNext == ASSUME Bookkeeping, [Next]_vars PROVE Bookkeeping'
<1> USE PubAssumption DEF Bookkeeping, TypeOK
<1>0. toBroker \in Seq(Requests) /\ fromBroker \in Seq(Answers)
  BY DEF PacketsOK
<1>1. CASE Start
  <2>1. /\ UNCHANGED <<persistent, broken, msg, confirmed, awaiting, accepted>>
        /\ toBroker' = <<Packet("CONNECT", 0, 0)>> /\ fromBroker' = <<>>
    BY <1>1 DEF Start
  <2>2. Packet("CONNECT", 0, 0) \in Requests /\ Packet("CONNECT", 0, 0).type = "CONNECT"
    BY PacketType
  <2>3. PacketsOK'
    BY <2>1, <2>2 DEF PacketsOK
  <2> QED
    BY <1>1, <2>3 DEF Start
<1>2. CASE Handshake
  <2>1. PacketsOK'
    BY <1>2, QueueType DEF Handshake, PacketsOK, Exit
  <2> QED
    BY <1>2, <2>1 DEF Handshake, Exit
<1>3. CASE PublishLine
  <2>1. nextId' \in 0..MaxId /\ (QoS # 0 => nextId' \in Ids)
    BY <1>3, NextPacketIdType DEF PublishLine, Ids
  <2>2. msg' = msg + 1 /\ msg' \in Nat
    BY <1>3 DEF PublishLine
  <2>3. PacketsOK'
    <3>1. CASE Send(Packet("PUBLISH", nextId', msg'))
      <4> DEFINE p == Packet("PUBLISH", nextId', msg')
      <4>1. p \in Requests /\ p.type = "PUBLISH" /\ p.id = nextId' /\ p.msg = msg'
        BY <2>1, <2>2, PacketType
      <4>2. Send(p) /\ fromBroker' = fromBroker
        BY <1>3, <3>1 DEF PublishLine
      <4> HIDE DEF p
      <4>3. /\ toBroker' \in Seq(Requests)
            /\ \A i \in 1..Len(toBroker') :
                 toBroker'[i] = p \/ (i \in 1..Len(toBroker) /\ toBroker'[i] = toBroker[i])
        BY <1>0, <4>1, <4>2, SendKeeps
      <4>4. cpc # "off"
        BY <1>3 DEF PublishLine
      <4> QED
        BY <1>0, <2>1, <2>2, <4>1, <4>2, <4>3, <4>4 DEF PacketsOK
    <3>2. CASE UNCHANGED toBroker /\ cpc' = "off"
      BY <1>3, <2>2, <3>2 DEF PublishLine, PacketsOK
    <3> QED
      BY <1>3, <3>1, <3>2 DEF PublishLine, Exit
  <2> QED
    BY <1>3, <2>1, <2>2, <2>3 DEF PublishLine, Exit
<1>4. CASE LineFails
  <2>1. PacketsOK'
    BY <1>4 DEF LineFails, PacketsOK, Exit
  <2> QED
    BY <1>4, <2>1 DEF LineFails, Exit
<1>5. CASE ExpectAck
  <2>1. fromBroker' \in Seq(Answers) /\ UNCHANGED <<msg, nextId, awaiting, accepted>>
    BY <1>0, <1>5, QueueType DEF ExpectAck
  <2>2. PacketsOK'
    <3>1. CASE Send(Packet("PUBREL", nextId, 0))
      <4> DEFINE p == Packet("PUBREL", nextId, 0)
      <4>1. p \in Requests /\ p.type = "PUBREL"
        BY PacketType
      <4> HIDE DEF p
      <4>2. /\ toBroker' \in Seq(Requests)
            /\ \A i \in 1..Len(toBroker') :
                 toBroker'[i] = p \/ (i \in 1..Len(toBroker) /\ toBroker'[i] = toBroker[i])
        BY <1>0, <3>1, <4>1, SendKeeps DEF p
      <4>3. cpc # "off"
        BY <1>5 DEF ExpectAck
      <4> QED
        BY <2>1, <4>1, <4>2, <4>3 DEF PacketsOK
    <3>2. CASE UNCHANGED toBroker
      BY <1>5, <2>1, <3>2 DEF ExpectAck, PacketsOK, Exit
    <3> QED
      BY <1>5, <3>1, <3>2 DEF ExpectAck
  <2>3. confirmed' \subseteq 1..msg /\ (QoS = 0 => confirmed' = {})
    <3>1. cpc \in {"ack", "comp"} /\ confirmed' \in {confirmed, confirmed \cup {msg}}
      BY <1>5 DEF ExpectAck
    <3> QED
      BY <3>1
  <2> QED
    BY <1>5, <2>1, <2>2, <2>3 DEF ExpectAck, Exit
<1>6. CASE ExpectAckFails
  <2>1. fromBroker' \in Seq(Answers)
    BY <1>0, <1>6, QueueType DEF ExpectAckFails
  <2>2. PacketsOK'
    BY <1>6, <2>1 DEF ExpectAckFails, PacketsOK, Exit
  <2> QED
    BY <1>6, <2>2 DEF ExpectAckFails, Exit
<1>7. CASE RecvEof
  <2>1. PacketsOK'
    BY <1>7 DEF RecvEof, PacketsOK, Exit
  <2> QED
    BY <1>7, <2>1 DEF RecvEof, Exit
<1>8. CASE DisconnectAndExit
  <2>1. PacketsOK'
    <3>1. CASE Send(Packet("DISCONNECT", 0, 0)) /\ cpc' = "off"
      <4> DEFINE p == Packet("DISCONNECT", 0, 0)
      <4>1. p \in Requests /\ p.type = "DISCONNECT"
        BY PacketType
      <4> HIDE DEF p
      <4>2. /\ toBroker' \in Seq(Requests)
            /\ \A i \in 1..Len(toBroker') :
                 toBroker'[i] = p \/ (i \in 1..Len(toBroker) /\ toBroker'[i] = toBroker[i])
        BY <1>0, <3>1, <4>1, SendKeeps DEF p
      <4> QED
        BY <1>8, <3>1, <4>1, <4>2 DEF PacketsOK, DisconnectAndExit
    <3>2. CASE UNCHANGED toBroker /\ cpc' = "off"
      BY <1>8, <3>2 DEF DisconnectAndExit, PacketsOK
    <3> QED
      BY <1>8, <3>1, <3>2 DEF DisconnectAndExit, Exit
  <2> QED
    BY <1>8, <2>1 DEF DisconnectAndExit, Exit
<1>9. CASE Kill
  <2>1. PacketsOK'
    BY <1>9 DEF Kill, PacketsOK, Exit
  <2> QED
    BY <1>9, <2>1 DEF Kill, Exit
<1>10. CASE BrokerRead
  <2>1. UNCHANGED clientVars
    BY <1>10 DEF BrokerRead
  <2>2. PacketsOK'
    BY <1>10, <2>1, BrokerReadTypes DEF PacketsOK, clientVars
  <2>3. /\ accepted' \subseteq 1..msg /\ awaiting' \subseteq Ids /\ (QoS # 2 => awaiting' = {})
        /\ conn' \in {"open", "down"} /\ (conn' = "down" => cpc = "off")
    BY <1>10, BrokerReadTypes
  <2> QED
    BY <2>1, <2>2, <2>3 DEF clientVars
<1>11. CASE BrokerDrops
  <2>1. fromBroker' \in Seq(Answers)
    <3>1. Answer("DISCONNECT", TRUE) \in Answers
      BY AnswerType
    <3>2. Append(fromBroker, Answer("DISCONNECT", TRUE)) \in Seq(Answers)
      BY <1>0, <3>1, QueueType
    <3> QED
      BY <1>0, <1>11, <3>2 DEF BrokerDrops
  <2>2. PacketsOK'
    BY <1>11, <2>1 DEF BrokerDrops, PacketsOK, clientVars
  <2> QED
    BY <1>11, <2>2 DEF BrokerDrops, clientVars
<1>12. CASE ConnectionEnds
  <2>1. PacketsOK'
    BY <1>12 DEF ConnectionEnds, PacketsOK, clientVars
  <2> QED
    BY <1>12, <2>1 DEF ConnectionEnds, clientVars
<1>13. CASE UNCHANGED vars
  <2>1. PacketsOK'
    BY <1>13 DEF vars, PacketsOK
  <2> QED
    BY <1>13, <2>1 DEF vars
<1> QED
  BY <1>1, <1>2, <1>3, <1>4, <1>5, <1>6, <1>7, <1>8, <1>9, <1>10, <1>11, <1>12, <1>13
     DEF Next, Command, Finished

\* The types of the command hold for every number of runs, lines and identifiers: with
\* them that the identifier stays within u16 and that nobody accepts or confirms what was
\* not published.
THEOREM PubTypeCorrect == Spec => []TypeOK
<1>1. Bookkeeping /\ [Next]_vars => Bookkeeping'
  BY BookkeepingNext
<1>2. Bookkeeping => TypeOK
  BY DEF Bookkeeping
<1> QED
  BY <1>1, <1>2, BookkeepingInit, PTL DEF Spec

-----------------------------------------------------------------------------
(***************************************************************************)
(* What exit status 0 says: every line of the run was confirmed.           *)
(***************************************************************************)
\* Before the first run nothing is claimed.
LEMMA LinesInit == Init => LinesConfirmed
BY DEF Init, LinesConfirmed

\* publish_one returns Ok before the next line: each step keeps the lines confirmed.
LEMMA LinesNext == ASSUME Bookkeeping, LinesConfirmed, [Next]_vars PROVE LinesConfirmed'
<1> USE DEF LinesConfirmed
<1>0. msg \in Nat /\ line \in 0..Lines /\ Lines \in Nat /\ QoS \in 0..2
  BY PubAssumption DEF Bookkeeping, TypeOK
<1>1. CASE Start
  BY <1>1 DEF Start
<1>2. CASE Handshake
  <2>1. UNCHANGED <<msg, confirmed, line>> /\ exit' \in {exit, "err"} /\ cpc' \in {"line", "off"}
        /\ cpc = "connect" /\ (cpc' = "off" => exit' = "err")
    BY <1>2 DEF Handshake, Exit
  <2>2. line = 0 \/ (QoS > 0 => cpc' = "off")
    BY <1>2 DEF Handshake, Exit, LinesConfirmed
  <2> QED
    BY <1>0, <2>1, <2>2
<1>3. CASE PublishLine
  <2>1. CASE line' = line + 1 /\ UNCHANGED exit /\ cpc' = IF QoS = 0 THEN "line" ELSE "ack"
    BY <1>0, <1>3, <2>1 DEF PublishLine
  <2>2. CASE Exit("err")
    BY <2>2 DEF Exit
  <2> QED
    BY <1>3, <2>1, <2>2 DEF PublishLine
<1>4. CASE LineFails
  BY <1>4 DEF LineFails, Exit
<1>5. CASE ExpectAck
  <2>1. UNCHANGED <<msg, line>> /\ cpc \in {"ack", "comp"} /\ confirmed \subseteq confirmed'
    BY <1>5 DEF ExpectAck
  <2>2. \/ cpc' = "off" /\ exit' = "err"
        \/ cpc' = "comp" /\ UNCHANGED exit
        \/ cpc' = "line" /\ UNCHANGED exit /\ msg \in confirmed'
    BY <1>5 DEF ExpectAck, Exit
  <2> QED
    BY <1>0, <2>1, <2>2
<1>6. CASE ExpectAckFails
  BY <1>6 DEF ExpectAckFails, Exit
<1>7. CASE RecvEof
  BY <1>7 DEF RecvEof, Exit
<1>8. CASE DisconnectAndExit
  BY <1>0, <1>8 DEF DisconnectAndExit, Exit
<1>9. CASE Kill
  BY <1>9 DEF Kill, Exit
<1>10. CASE UNCHANGED clientVars
  BY <1>10 DEF clientVars
<1> QED
  BY <1>1, <1>2, <1>3, <1>4, <1>5, <1>6, <1>7, <1>8, <1>9, <1>10
     DEF Next, Command, Finished, vars, clientVars, BrokerRead, BrokerDrops, ConnectionEnds

-----------------------------------------------------------------------------
(***************************************************************************)
(* The handshake, and what broken runs may leave behind.                   *)
(***************************************************************************)

\* The counts are numbers.
LEMMA CountsType ==
  ASSUME Bookkeeping
  PROVE  /\ IsFiniteSet(awaiting) /\ IsFiniteSet(confirmed \ accepted)
         /\ Dup \in Nat /\ Held \in Nat /\ Left \in Nat /\ Waiting \in 0..1
<1>1. awaiting \subseteq 1..MaxId /\ confirmed \ accepted \subseteq 1..msg /\ msg \in Nat /\ broken \in Nat
  BY DEF Bookkeeping, TypeOK, Ids
<1>2. IsFiniteSet(1..MaxId) /\ IsFiniteSet(1..msg)
  BY <1>1, FS_Interval, PubAssumption
<1>3. IsFiniteSet(awaiting) /\ IsFiniteSet(confirmed \ accepted)
  BY <1>1, <1>2, FS_Subset
<1>4. Dup \in Nat /\ Held \in Nat
  BY <1>3, FS_CardinalityType DEF Dup, Held
<1> QED
  BY <1>1, <1>3, <1>4 DEF Left, Waiting

\* A message the broker takes makes no new duplicate; a delivery it opens or completes
\* counts once; a message confirmed is a duplicate only if it was not accepted.
LEMMA CountsMove ==
  ASSUME Bookkeeping
  PROVE  /\ \A m : Cardinality(confirmed \ (accepted \cup {m})) \in 0..Dup
         /\ \A id : Cardinality(awaiting \cup {id}) \in 0..(Held + 1)
         /\ \A id : Cardinality(awaiting \ {id}) = IF id \in awaiting THEN Held - 1 ELSE Held
         /\ \A m : Cardinality((confirmed \cup {m}) \ accepted) \in 0..(Dup + 1)
         /\ \A m \in accepted : Cardinality((confirmed \cup {m}) \ accepted) = Dup
<1>0. /\ IsFiniteSet(awaiting) /\ IsFiniteSet(confirmed \ accepted)
      /\ Cardinality(confirmed \ accepted) \in Nat /\ Cardinality(awaiting) \in Nat
  BY CountsType DEF Dup, Held
<1>1. ASSUME NEW m PROVE Cardinality(confirmed \ (accepted \cup {m})) \in 0..Dup
  <2>1. confirmed \ (accepted \cup {m}) \in SUBSET (confirmed \ accepted)
    OBVIOUS
  <2>2. /\ Cardinality(confirmed \ (accepted \cup {m})) <= Cardinality(confirmed \ accepted)
        /\ Cardinality(confirmed \ (accepted \cup {m})) \in Nat
    BY <1>0, <2>1, FS_Subset, FS_CardinalityType
  <2> QED
    BY <1>0, <2>2 DEF Dup
<1>2. ASSUME NEW id PROVE Cardinality(awaiting \cup {id}) \in 0..(Held + 1)
  <2>1. Cardinality(awaiting \cup {id}) =
          IF id \in awaiting THEN Cardinality(awaiting) ELSE Cardinality(awaiting) + 1
    BY <1>0, FS_AddElement, Zenon
  <2> QED
    BY <1>0, <2>1 DEF Held
<1>3. ASSUME NEW id
      PROVE  Cardinality(awaiting \ {id}) = IF id \in awaiting THEN Held - 1 ELSE Held
  BY <1>0, FS_RemoveElement, Zenon DEF Held
<1>4. ASSUME NEW m PROVE Cardinality((confirmed \cup {m}) \ accepted) \in 0..(Dup + 1)
  <2> DEFINE D == confirmed \ accepted
  <2>1. (confirmed \cup {m}) \ accepted \in SUBSET (D \cup {m})
    OBVIOUS
  <2>2. Cardinality(D \cup {m}) = IF m \in D THEN Cardinality(D) ELSE Cardinality(D) + 1
    BY <1>0, FS_AddElement, Zenon
  <2>3. IsFiniteSet(D \cup {m})
    BY <1>0, FS_AddElement, Zenon
  <2>4. /\ Cardinality((confirmed \cup {m}) \ accepted) <= Cardinality(D \cup {m})
        /\ Cardinality((confirmed \cup {m}) \ accepted) \in Nat
    BY <2>1, <2>3, FS_Subset, FS_CardinalityType
  <2>5. Cardinality(D \cup {m}) <= Cardinality(D) + 1 /\ Cardinality(D \cup {m}) \in Nat
    BY <1>0, <2>2
  <2> QED
    BY <1>0, <2>4, <2>5 DEF Dup
<1>5. ASSUME NEW m \in accepted PROVE Cardinality((confirmed \cup {m}) \ accepted) = Dup
  <2>1. (confirmed \cup {m}) \ accepted = confirmed \ accepted
    BY <1>5
  <2> QED
    BY <2>1 DEF Dup
<1> QED
  BY <1>1, <1>2, <1>3, <1>4, <1>5

\* Steps that leave the counted sets alone.
LEMMA SameCounts ==
  ASSUME UNCHANGED <<persistent, broken, confirmed, accepted, awaiting>>
  PROVE  /\ Dup' = Dup /\ Held' = Held /\ Left' = Left /\ (Settled' <=> Settled)
BY DEF Dup, Held, Left, Settled

\* Wherever a run is, it owes one delivery at most and has one packet under way at most.
LEMMA PlaceBound ==
  ASSUME Bookkeeping, HandshakeStands, QoS > 0, cpc # "off"
  PROVE  /\ Len(toBroker) <= 1 /\ Held + Waiting <= Left + 1
         /\ persistent => Dup + Held + Waiting <= Left + 1
<1>0. Dup \in Nat /\ Held \in Nat /\ Left \in Nat /\ Len(toBroker) \in Nat
  BY CountsType, QueueType DEF Bookkeeping, PacketsOK
<1>1. /\ toBroker = <<>> => Waiting = 0 /\ Len(toBroker) <= 1
      /\ toBroker = <<Packet("CONNECT", 0, 0)>> => Len(toBroker) <= 1 /\ Waiting = 0
      /\ toBroker = <<Packet("PUBLISH", nextId, msg)>> => Len(toBroker) <= 1 /\ Waiting = 1
      /\ toBroker = <<Packet("PUBREL", nextId, 0)>> => Len(toBroker) <= 1 /\ Waiting = 0
  <2>1. toBroker = <<>> => Waiting = 0 /\ Len(toBroker) <= 1
    BY DEF Waiting
  <2>2. ASSUME NEW p, toBroker = <<p>>
        PROVE  Len(toBroker) <= 1 /\ Waiting = IF p.type = "PUBLISH" THEN 1 ELSE 0
    BY <2>2 DEF Waiting
  <2> QED
    BY <2>1, <2>2 DEF Packet
<1>2. CASE cpc = "connect"
  <2>1. InConnect
    BY <1>2 DEF HandshakeStands
  <2>2. Len(toBroker) <= 1 /\ Waiting = 0
    <3>1. toBroker = <<Packet("CONNECT", 0, 0)>> \/ toBroker = <<>>
      BY <2>1, Zenon DEF InConnect
    <3> QED
      BY <1>1, <3>1, Zenon
  <2> QED
    BY <1>0, <2>1, <2>2 DEF InConnect, Settled
<1>3. CASE cpc = "line"
  BY <1>0, <1>1, <1>3 DEF HandshakeStands, InLine, Settled
<1>4. CASE cpc = "ack"
  <2>1. \/ toBroker = <<Packet("PUBLISH", nextId, msg)>> /\ Settled
        \/ toBroker = <<>> /\ Dup + Held <= Left + 1
    BY <1>4, Zenon DEF HandshakeStands, InAck
  <2>2. CASE toBroker = <<Packet("PUBLISH", nextId, msg)>> /\ Settled
    <3>1. Len(toBroker) <= 1 /\ Waiting = 1
      BY <1>1, <2>2, Zenon
    <3> QED
      BY <1>0, <2>2, <3>1 DEF Settled
  <2>3. CASE toBroker = <<>> /\ Dup + Held <= Left + 1
    BY <1>0, <1>1, <2>3
  <2> QED
    BY <2>1, <2>2, <2>3
<1>5. CASE cpc = "comp"
  BY <1>0, <1>1, <1>5 DEF HandshakeStands, InComp, Owing, Paid, Settled
<1> QED
  BY <1>2, <1>3, <1>4, <1>5 DEF Bookkeeping, TypeOK

\* A run that fails or is killed pays for what it leaves with being broken.
LEMMA BrokenExit ==
  ASSUME Bookkeeping, HandshakeStands, cpc # "off", cpc' = "off", exit' # "ok",
         broken' = broken + 1,
         UNCHANGED <<persistent, confirmed, accepted, awaiting, toBroker>>
  PROVE  HandshakeStands'
<1> SUFFICES ASSUME QoS > 0 PROVE Dup' <= Left' /\ InOff'
  BY DEF HandshakeStands
<1>1. Dup \in Nat /\ Held \in Nat /\ Left \in Nat /\ broken \in Nat /\ Waiting \in 0..1
  BY CountsType DEF Bookkeeping, TypeOK
<1>2. Dup' = Dup /\ Held' = Held /\ Waiting' = Waiting
  BY DEF Dup, Held, Waiting
<1>3. Left' = IF persistent THEN Left + 1 ELSE 0
  BY DEF Left
<1>4. ~persistent => Left = 0
  BY DEF Left
<1>5. Dup <= Left
  BY DEF HandshakeStands
<1> QED
  BY <1>1, <1>2, <1>3, <1>4, <1>5, PlaceBound DEF InOff

\* A queue with one packet.
LEMMA LonePacket ==
  ASSUME NEW p, toBroker' = <<p>> \/ toBroker' = <<>>
  PROVE  Len(toBroker') <= 1 /\ (p.type # "PUBLISH" => Waiting' = 0)
<1>1. CASE toBroker' = <<p>>
  BY <1>1 DEF Waiting
<1>2. CASE toBroker' = <<>>
  BY <1>2 DEF Waiting
<1> QED
  BY <1>1, <1>2

\* What is read from a stream without acknowledgements leaves one without.
LEMMA TailNoAcks ==
  ASSUME fromBroker \in Seq(Answers), fromBroker # <<>>, fromBroker' = Tail(fromBroker)
  PROVE  /\ NoAcks => NoAcks'
         /\ OneAck(1) => NoAcks'
         /\ fromBroker[1].type \in AckTypes => ~NoAcks /\ \A i : OneAck(i) => i = 1
<1>1. /\ Len(fromBroker) \in Nat /\ Len(fromBroker) > 0 /\ Len(fromBroker') = Len(fromBroker) - 1
      /\ \A i \in 1..Len(fromBroker') : fromBroker'[i] = fromBroker[i + 1]
  BY QueueType
<1>2. \A i \in 1..Len(fromBroker') : i + 1 \in 1..Len(fromBroker) /\ i + 1 # 1
  BY <1>1
<1>3. 1 \in 1..Len(fromBroker)
  BY <1>1
<1> QED
  BY <1>1, <1>2, <1>3 DEF NoAcks, OneAck

\* The steps of the command.
LEMMA StartStands == ASSUME Bookkeeping, HandshakeStands, Start PROVE HandshakeStands'
<1> SUFFICES ASSUME QoS > 0 PROVE Dup' <= Left' /\ InConnect'
  BY DEF HandshakeStands, Start
<1>1. Dup' = Dup /\ Held' = Held /\ Left' = Left /\ (Settled' <=> Settled) /\ persistent' = persistent
  BY SameCounts DEF Start
<1>2. Dup \in Nat /\ Held \in Nat /\ Left \in Nat /\ Waiting \in 0..1 /\ (~persistent => Left = 0)
  BY CountsType DEF Left
<1>3. Dup <= Left /\ InOff
  BY DEF HandshakeStands, Start
<1>4. (persistent => Settled) /\ Held <= Left + 1
  BY <1>2, <1>3 DEF InOff, Settled
<1>5. toBroker' = <<Packet("CONNECT", 0, 0)>> /\ fromBroker' = <<>>
  BY DEF Start
<1>6. NoAcks' /\ \A i \in 1..Len(fromBroker') : fromBroker'[i].type # "CONNACK"
  BY <1>5 DEF NoAcks
<1> QED
  BY <1>1, <1>3, <1>4, <1>5, <1>6, Zenon DEF InConnect

\* handshake: the CONNACK is only there once the broker has settled the session.
LEMMA HandshakeStep == ASSUME Bookkeeping, HandshakeStands, Handshake PROVE HandshakeStands'
<1>0. /\ cpc = "connect" /\ fromBroker # <<>> /\ fromBroker' = Tail(fromBroker)
      /\ UNCHANGED <<persistent, confirmed, accepted, awaiting, toBroker>>
      /\ fromBroker \in Seq(Answers)
  BY DEF Handshake, Bookkeeping, PacketsOK
<1>1. CASE Exit("err")
  BY <1>0, <1>1, BrokenExit DEF Exit
<1>2. CASE Head(fromBroker).type = "CONNACK" /\ cpc' = "line" /\ UNCHANGED <<exit, broken>>
  <2> SUFFICES ASSUME QoS > 0 PROVE Dup' <= Left' /\ InLine' /\ (exit' = "ok" => Waiting' = 0 /\ Held' <= Left')
    BY <1>2 DEF HandshakeStands
  <2>1. Dup' = Dup /\ Held' = Held /\ Left' = Left /\ (Settled' <=> Settled)
    BY <1>0, <1>2, SameCounts
  <2>2. InConnect /\ Dup <= Left /\ (exit = "ok" => Waiting = 0 /\ Held <= Left)
    BY <1>0 DEF HandshakeStands
  <2>3. 1 \in 1..Len(fromBroker) /\ fromBroker[1].type = "CONNACK"
    BY <1>0, <1>2, QueueType
  <2>4. toBroker = <<>> /\ Settled /\ NoAcks
    BY <2>2, <2>3, Zenon DEF InConnect
  <2>5. NoAcks'
    BY <1>0, <2>4, TailNoAcks
  <2>6. Waiting' = Waiting
    BY <1>0 DEF Waiting
  <2> QED
    BY <1>0, <1>2, <2>1, <2>2, <2>4, <2>5, <2>6, Zenon DEF InLine
<1> QED
  BY <1>1, <1>2 DEF Handshake

\* publish_one puts the one packet of the handshake on the wire.
LEMMA PublishStands ==
  ASSUME Bookkeeping, Bookkeeping', LinesConfirmed, HandshakeStands, PublishLine
  PROVE  HandshakeStands'
<1>0. /\ cpc = "line" /\ msg' = msg + 1
      /\ UNCHANGED <<persistent, confirmed, accepted, awaiting, fromBroker>>
  BY DEF PublishLine
<1>1. CASE Exit("err") /\ UNCHANGED toBroker
  BY <1>0, <1>1, BrokenExit DEF Exit
<1>2. CASE /\ Send(Packet("PUBLISH", nextId', msg')) /\ UNCHANGED <<exit, broken>>
           /\ cpc' = IF QoS = 0 THEN "line" ELSE "ack"
  <2> SUFFICES ASSUME QoS > 0 PROVE Dup' <= Left' /\ InAck'
    BY <1>0, <1>2 DEF HandshakeStands, LinesConfirmed
  <2>1. Dup' = Dup /\ Held' = Held /\ Left' = Left /\ (Settled' <=> Settled)
    BY <1>0, <1>2, SameCounts
  <2>2. InLine /\ Dup <= Left
    BY <1>0 DEF HandshakeStands
  <2>3. nextId' \in Ids
    <3>1. nextId \in 0..MaxId
      BY DEF Bookkeeping, TypeOK
    <3> QED
      BY <3>1, NextPacketIdType DEF PublishLine
  <2>4. NoAcks'
    BY <1>0, <2>2 DEF NoAcks, InLine
  <2>5. Dup' + Held' <= Left' + 1
    BY <2>1, <2>2, CountsType DEF InLine, Settled
  <2>6. toBroker' = <<Packet("PUBLISH", nextId', msg')>> \/ toBroker' = <<>>
    <3> DEFINE p == Packet("PUBLISH", nextId', msg')
    <3>1. Send(p) /\ toBroker = <<>>
      BY <1>2, <2>2 DEF InLine
    <3> HIDE DEF p
    <3>2. toBroker' = <<p>> \/ toBroker' = <<>>
      BY <3>1 DEF Send
    <3> QED
      BY <3>2 DEF p
  <2> QED
    BY <2>1, <2>2, <2>3, <2>4, <2>5, <2>6, Zenon DEF InAck, InLine
<1> QED
  BY <1>1, <1>2 DEF PublishLine

\* expect_ack: what is taken for the answer is the one acknowledgement of this message.
LEMMA ExpectAckStands ==
  ASSUME Bookkeeping, LinesConfirmed, HandshakeStands, ExpectAck PROVE HandshakeStands'
<1>0. /\ cpc \in {"ack", "comp"} /\ fromBroker # <<>> /\ fromBroker' = Tail(fromBroker)
      /\ UNCHANGED <<persistent, accepted, awaiting, msg, nextId>>
      /\ Head(fromBroker).type \in AckTypes
  BY DEF ExpectAck, AckTypes
<1>a. fromBroker \in Seq(Answers)
  BY DEF Bookkeeping, PacketsOK
<1>b. Head(fromBroker) = fromBroker[1]
  BY <1>0, <1>a, QueueType
<1> SUFFICES ASSUME QoS > 0 PROVE HandshakeStands'
  BY DEF HandshakeStands
<1>1. exit # "ok" /\ fromBroker[1].type \in AckTypes
  BY <1>0, <1>b DEF LinesConfirmed
<1>2. ~NoAcks /\ (\A i : OneAck(i) => i = 1)
  BY <1>0, <1>a, <1>1, TailNoAcks
<1>3. Dup \in Nat /\ Held \in Nat /\ Left \in Nat /\ Dup <= Left
  BY CountsType DEF HandshakeStands
<1>4. CASE Exit("err") /\ UNCHANGED <<confirmed, toBroker>>
  BY <1>0, <1>4, BrokenExit DEF Exit
<1>5. CASE /\ ~fromBroker[1].err /\ QoS = 2 /\ cpc = "ack" /\ UNCHANGED <<confirmed, exit, broken>>
           /\ Send(Packet("PUBREL", nextId, 0)) /\ cpc' = "comp"
  <2>1. toBroker = <<>> /\ nextId \in awaiting /\ Owing /\ OneAck(1)
    BY <1>2, <1>5 DEF HandshakeStands, InAck
  <2>2. NoAcks'
    BY <1>0, <1>a, <2>1, TailNoAcks
  <2>3. Dup' = Dup /\ Held' = Held /\ Left' = Left /\ (Settled' <=> Settled)
    BY <1>0, <1>5, SameCounts
  <2>4. Owing' /\ Dup' + Held' <= Left' + 1
    BY <1>0, <1>3, <2>1, <2>3 DEF Owing, Settled
  <2>5. toBroker' = <<Packet("PUBREL", nextId, 0)>> \/ toBroker' = <<>>
    <3> DEFINE p == Packet("PUBREL", nextId, 0)
    <3>1. Send(p)
      BY <1>5
    <3> HIDE DEF p
    <3>2. toBroker' = <<p>> \/ toBroker' = <<>>
      BY <2>1, <3>1 DEF Send
    <3> QED
      BY <3>2 DEF p
  <2>6. InComp'
    BY <1>0, <2>1, <2>2, <2>4, <2>5, Zenon DEF InComp
  <2> QED
    BY <1>1, <1>3, <1>5, <2>3, <2>6 DEF HandshakeStands
<1>6. CASE /\ ~fromBroker[1].err /\ (QoS = 1 \/ cpc = "comp") /\ confirmed' = confirmed \cup {msg}
           /\ cpc' = "line" /\ UNCHANGED <<exit, broken, toBroker>>
  <2>1. toBroker = <<>> /\ Paid /\ OneAck(1)
    <3>1. CASE cpc = "ack"
      <4>1. QoS = 1
        BY <1>6, <3>1
      <4> QED
        BY <1>2, <1>6, <3>1, <4>1 DEF HandshakeStands, InAck
    <3>2. CASE cpc = "comp"
      <4>1. toBroker = <<>> /\ Paid /\ \E i \in 1..Len(fromBroker) : OneAck(i)
        BY <1>2, <3>2, Zenon DEF HandshakeStands, InComp
      <4> QED
        BY <1>2, <4>1
    <3> QED
      BY <1>0, <3>1, <3>2
  <2>2. NoAcks'
    BY <1>0, <1>a, <2>1, TailNoAcks
  <2>3. Held' = Held /\ Left' = Left
    BY <1>0, <1>6 DEF Held, Left
  <2>4. Dup' \in Nat /\ Dup' <= Dup + 1 /\ (msg \in accepted => Dup' = Dup)
    <3>1. Dup' = Cardinality((confirmed \cup {msg}) \ accepted)
      BY <1>0, <1>6 DEF Dup
    <3>2. Dup' \in 0..(Dup + 1) /\ (msg \in accepted => Dup' = Dup)
      BY <3>1, CountsMove
    <3> QED
      BY <1>3, <3>2
  <2>5. Dup' + Held' <= Left'
    <3>1. CASE msg \in accepted /\ Settled
      BY <1>3, <2>3, <2>4, <3>1 DEF Settled
    <3>2. CASE Dup + Held + 1 <= Left
      <4>1. Dup' + Held <= Left
        <5>1. ASSUME NEW a \in Nat, NEW b \in Nat, NEW c \in Nat, NEW d \in Nat,
                     a <= b + 1, b + c + 1 <= d
              PROVE  a + c <= d
          BY <5>1
        <5> QED
          BY <1>3, <2>4, <3>2, <5>1
      <4> QED
        BY <2>3, <4>1
    <3> QED
      BY <2>1, <3>1, <3>2 DEF Paid
  <2>6. Settled'
    BY <2>5 DEF Settled
  <2>7. Dup' <= Left'
    <3>1. Dup' + Held <= Left
      BY <2>3, <2>5
    <3>2. Dup' <= Left
      <4>1. ASSUME NEW a \in Nat, NEW c \in Nat, NEW d \in Nat, a + c <= d PROVE a <= d
        BY <4>1
      <4> QED
        BY <1>3, <2>4, <3>1, <4>1
    <3> QED
      BY <2>3, <3>2
  <2> QED
    BY <1>1, <1>6, <2>1, <2>2, <2>6, <2>7 DEF HandshakeStands, InLine
<1>7. CASE Exit("err") /\ UNCHANGED toBroker /\ UNCHANGED confirmed
  BY <1>0, <1>7, BrokenExit DEF Exit
<1> QED
  BY <1>0, <1>b, <1>4, <1>5, <1>6, <1>7 DEF ExpectAck

\* Client::disconnect leaves nothing under way.
LEMMA DisconnectStands ==
  ASSUME Bookkeeping, LinesConfirmed, HandshakeStands, DisconnectAndExit PROVE HandshakeStands'
<1>0. cpc = "line" /\ UNCHANGED <<persistent, confirmed, accepted, awaiting, fromBroker>>
  BY DEF DisconnectAndExit
<1>1. CASE Exit("err") /\ UNCHANGED toBroker
  BY <1>0, <1>1, BrokenExit DEF Exit
<1>2. CASE Send(Packet("DISCONNECT", 0, 0)) /\ Exit("ok")
  <2> SUFFICES ASSUME QoS > 0 PROVE Dup' <= Left' /\ InOff' /\ Waiting' = 0 /\ Held' <= Left'
    BY <1>2 DEF HandshakeStands, Exit
  <2>1. Dup' = Dup /\ Held' = Held /\ Left' = Left
    BY <1>0, <1>2, SameCounts DEF Exit
  <2>2. toBroker = <<>> /\ Settled /\ Dup <= Left
    BY <1>0 DEF HandshakeStands, InLine
  <2>3. Len(toBroker') <= 1 /\ Waiting' = 0
    <3> DEFINE p == Packet("DISCONNECT", 0, 0)
    <3>1. Send(p) /\ p.type # "PUBLISH"
      BY <1>2 DEF Packet
    <3> HIDE DEF p
    <3>2. toBroker' = <<p>> \/ toBroker' = <<>>
      BY <2>2, <3>1 DEF Send
    <3> QED
      BY <3>1, <3>2, LonePacket
  <2>4. Dup \in Nat /\ Held \in Nat /\ Left \in Nat /\ (~persistent => Left = 0)
    BY CountsType DEF Left
  <2> QED
    BY <1>0, <2>1, <2>2, <2>3, <2>4 DEF InOff, Settled
<1> QED
  BY <1>1, <1>2 DEF DisconnectAndExit

\* The broker drops the connection: only the end of the stream to the client changes.
LEMMA DropsStands ==
  ASSUME Bookkeeping, Bookkeeping', HandshakeStands, BrokerDrops PROVE HandshakeStands'
<1>0. /\ UNCHANGED <<persistent, cpc, exit, broken, nextId, msg, confirmed, toBroker, awaiting, accepted>>
      /\ fromBroker \in Seq(Answers) /\ cpc # "off"
  BY DEF BrokerDrops, clientVars, Bookkeeping, PacketsOK
<1>1. /\ Dup' = Dup /\ Held' = Held /\ Left' = Left /\ (Settled' <=> Settled)
      /\ Waiting' = Waiting /\ (Owing' <=> Owing) /\ (Paid' <=> Paid)
  BY <1>0, SameCounts DEF Waiting, Owing, Paid
<1>2. /\ Len(fromBroker) \in Nat /\ Len(fromBroker') \in Nat /\ Len(fromBroker') >= Len(fromBroker)
      /\ \A i \in 1..Len(fromBroker) : fromBroker'[i] = fromBroker[i]
      /\ \A i \in 1..Len(fromBroker') : i \in 1..Len(fromBroker) \/ fromBroker'[i].type = "DISCONNECT"
  <2>1. CASE fromBroker' = fromBroker
    BY <1>0, <2>1, QueueType
  <2>2. CASE fromBroker' = Append(fromBroker, Answer("DISCONNECT", TRUE))
    <3> DEFINE a == Answer("DISCONNECT", TRUE)
    <3>1. a \in Answers /\ a.type = "DISCONNECT" /\ fromBroker' = Append(fromBroker, a)
      BY <2>2, AnswerType
    <3> HIDE DEF a
    <3>2. /\ Len(fromBroker) \in Nat /\ Len(fromBroker') = Len(fromBroker) + 1
          /\ fromBroker'[Len(fromBroker) + 1] = a
          /\ \A i \in 1..Len(fromBroker) : fromBroker'[i] = fromBroker[i]
      BY <1>0, <3>1, QueueType
    <3>3. \A i \in 1..Len(fromBroker') : i \in 1..Len(fromBroker) \/ i = Len(fromBroker) + 1
      BY <3>2
    <3> QED
      BY <3>1, <3>2, <3>3
  <2> QED
    BY <2>1, <2>2 DEF BrokerDrops
<1>3. (NoAcks => NoAcks') /\ \A i : OneAck(i) => OneAck(i)'
  BY <1>2 DEF NoAcks, OneAck, AckTypes
<1>4. ASSUME NEW i \in 1..Len(fromBroker) PROVE i \in 1..Len(fromBroker') /\ fromBroker'[i] = fromBroker[i]
  BY <1>2
<1> SUFFICES ASSUME QoS > 0 PROVE HandshakeStands'
  BY DEF HandshakeStands
<1>5. cpc = "connect" => InConnect'
  <2> SUFFICES ASSUME InConnect PROVE InConnect'
    BY DEF HandshakeStands
  <2>1. (\A i \in 1..Len(fromBroker) : fromBroker[i].type # "CONNACK")
          => \A i \in 1..Len(fromBroker') : fromBroker'[i].type # "CONNACK"
    BY <1>2
  <2> QED
    BY <1>0, <1>1, <1>3, <2>1, Zenon DEF InConnect
<1>6. cpc = "line" => InLine'
  BY <1>0, <1>1, <1>3 DEF HandshakeStands, InLine
<1>7. cpc = "ack" => InAck'
  <2> SUFFICES ASSUME InAck PROVE InAck'
    BY DEF HandshakeStands
  <2> QED
    BY <1>0, <1>1, <1>3, <1>4, Zenon DEF InAck
<1>8. cpc = "comp" => InComp'
  <2> SUFFICES ASSUME InComp PROVE InComp'
    BY DEF HandshakeStands
  <2> QED
    BY <1>0, <1>1, <1>3, <1>4, Zenon DEF InComp
<1> QED
  BY <1>0, <1>1, <1>5, <1>6, <1>7, <1>8, Zenon DEF HandshakeStands

\* An answer added to a stream without acknowledgements is its only one, if it is one.
LEMMA AckAppended ==
  ASSUME fromBroker \in Seq(Answers), NEW a \in Answers, fromBroker' = Append(fromBroker, a), NoAcks
  PROVE  /\ a.type \notin AckTypes => NoAcks'
         /\ a.type \in AckTypes => \E i \in 1..Len(fromBroker') : OneAck(i)' /\ fromBroker'[i] = a
<1>0. PICK n : n = Len(fromBroker) + 1
  OBVIOUS
<1>1. /\ Len(fromBroker) \in Nat /\ Len(fromBroker') = Len(fromBroker) + 1
      /\ fromBroker'[Len(fromBroker) + 1] = a
      /\ \A i \in 1..Len(fromBroker) : fromBroker'[i] = fromBroker[i]
  BY QueueType
<1>2. n \in 1..Len(fromBroker') /\ \A i \in 1..Len(fromBroker') : i \in 1..Len(fromBroker) \/ i = n
  BY <1>0, <1>1
<1>3. fromBroker'[n] = a /\ \A i \in 1..Len(fromBroker) : fromBroker'[i].type \notin AckTypes
  BY <1>0, <1>1 DEF NoAcks
<1>4. a.type \notin AckTypes => NoAcks'
  BY <1>2, <1>3 DEF NoAcks
<1>5. a.type \in AckTypes => OneAck(n)'
  BY <1>2, <1>3 DEF OneAck
<1> QED
  BY <1>2, <1>3, <1>4, <1>5

\* What one read of the broker does to the counts: it makes no duplicate, and only a
\* PUBLISH opens a delivery.
LEMMA ReadCounts ==
  ASSUME Bookkeeping, Bookkeeping', BrokerRead
  PROVE  /\ Dup' \in Nat /\ Held' \in Nat /\ Left' = Left /\ Dup' <= Dup /\ Held' <= Held + 1
         /\ toBroker[1].type # "PUBLISH" => Held' <= Held
         /\ toBroker[1].type = "CONNECT" /\ ~persistent => Held' = 0
<1> DEFINE p == Head(toBroker)
<1>0. toBroker \in Seq(Requests) /\ toBroker # <<>> /\ UNCHANGED <<confirmed, persistent, broken>>
  BY DEF Bookkeeping, PacketsOK, BrokerRead, clientVars
<1>1. p = toBroker[1]
  BY <1>0, QueueType
<1>2. Dup' \in Nat /\ Held' \in Nat /\ Left' = Left /\ Dup \in Nat /\ Held \in Nat
  <2>1. awaiting' \subseteq 1..MaxId /\ confirmed' \ accepted' \subseteq 1..msg' /\ msg' \in Nat
    BY DEF Bookkeeping, TypeOK, Ids
  <2>2. IsFiniteSet(1..MaxId) /\ IsFiniteSet(1..msg')
    BY <2>1, FS_Interval, PubAssumption
  <2>3. IsFiniteSet(awaiting') /\ IsFiniteSet(confirmed' \ accepted')
    BY <2>1, <2>2, FS_Subset
  <2>4. Dup' \in Nat /\ Held' \in Nat
    BY <2>3, FS_CardinalityType DEF Dup, Held
  <2>5. Left' = Left
    BY <1>0 DEF Left
  <2> QED
    BY <2>4, <2>5, CountsType
<1>3. \/ accepted' = accepted
      \/ p.type = "PUBLISH" /\ accepted' = accepted \cup {p.msg}
  BY DEF BrokerRead, BrokerConnect, BrokerPublish
<1>4. Dup' <= Dup
  <2>1. CASE accepted' = accepted
    BY <1>0, <1>2, <2>1 DEF Dup
  <2>2. CASE accepted' = accepted \cup {p.msg}
    <3>1. Dup' = Cardinality(confirmed \ (accepted \cup {p.msg}))
      BY <1>0, <2>2 DEF Dup
    <3>2. Dup' \in 0..Dup
      BY <3>1, CountsMove
    <3> QED
      BY <1>2, <3>2
  <2> QED
    BY <1>3, <2>1, <2>2
<1>5. \/ awaiting' = awaiting
      \/ p.type = "CONNECT" /\ awaiting' = {}
      \/ p.type = "PUBLISH" /\ awaiting' = awaiting \cup {p.id}
      \/ p.type = "PUBREL" /\ awaiting' = awaiting \ {p.id}
  BY DEF BrokerRead, BrokerConnect, BrokerPublish
<1>6. Held' <= Held + 1 /\ (p.type # "PUBLISH" => Held' <= Held)
  <2>1. CASE awaiting' = awaiting
    BY <1>2, <2>1 DEF Held
  <2>2. CASE awaiting' = {}
    <3>1. Held' = 0
      BY <2>2, FS_EmptySet DEF Held
    <3> QED
      BY <1>2, <3>1
  <2>3. CASE p.type = "PUBLISH" /\ awaiting' = awaiting \cup {p.id}
    <3>1. Held' \in 0..(Held + 1)
      BY <2>3, CountsMove DEF Held
    <3> QED
      BY <1>2, <2>3, <3>1
  <2>4. CASE awaiting' = awaiting \ {p.id}
    <3>1. Held' \in {Held, Held - 1}
      BY <2>4, CountsMove DEF Held
    <3> QED
      BY <1>2, <3>1
  <2> QED
    BY <1>5, <2>1, <2>2, <2>3, <2>4
<1>7. p.type = "CONNECT" /\ ~persistent => Held' = 0
  <2>1. p.type = "CONNECT" /\ ~persistent => awaiting' = {}
    BY DEF BrokerRead, BrokerConnect
  <2> QED
    BY <2>1, FS_EmptySet DEF Held
<1> QED
  BY <1>1, <1>2, <1>4, <1>6, <1>7

\* The answer to a CONNECT leaves the stream without acknowledgements.
LEMMA ConnectAnswered ==
  ASSUME fromBroker \in Seq(Answers), BrokerConnect, NoAcks
  PROVE  NoAcks'
<1>1. PICK e \in BOOLEAN : \/ fromBroker' = fromBroker \o <<Answer("CONNACK", e)>>
                          \/ fromBroker' = fromBroker \o <<Answer("CONNACK", e), Answer("PUBLISH", FALSE)>>
  BY PubAssumption DEF BrokerConnect, Reply
<1> DEFINE a == Answer("CONNACK", e)
           b == Answer("PUBLISH", FALSE)
<1>a. a \in Answers /\ b \in Answers /\ a.type = "CONNACK" /\ b.type = "PUBLISH"
  BY AnswerType
<1>b. fromBroker' \in {fromBroker \o <<a>>, fromBroker \o <<a, b>>}
  BY <1>1
<1> HIDE DEF a, b
<1>2. a \in Answers /\ b \in Answers /\ a.type \notin AckTypes /\ b.type \notin AckTypes
  BY <1>a DEF AckTypes
<1> DEFINE q == Append(fromBroker, a)
<1>3. fromBroker' \in {q, Append(q, b)}
  BY <1>a, <1>b, ReplyAppends
<1>4. /\ Len(fromBroker) \in Nat /\ q \in Seq(Answers) /\ Len(q) = Len(fromBroker) + 1
      /\ q[Len(fromBroker) + 1] = a /\ \A i \in 1..Len(fromBroker) : q[i] = fromBroker[i]
  BY <1>2, QueueType
<1> HIDE DEF q
<1>5. \A i \in 1..Len(q) : q[i].type \notin AckTypes
  <2>1. \A i \in 1..Len(q) : i \in 1..Len(fromBroker) \/ i = Len(fromBroker) + 1
    BY <1>4
  <2> QED
    BY <1>2, <1>4, <2>1 DEF NoAcks
<1>6. \A i \in 1..Len(Append(q, b)) : Append(q, b)[i].type \notin AckTypes
  <2>1. /\ Len(q) \in Nat /\ Len(Append(q, b)) = Len(q) + 1 /\ Append(q, b)[Len(q) + 1] = b
        /\ \A i \in 1..Len(q) : Append(q, b)[i] = q[i]
    BY <1>2, <1>4, QueueType
  <2>2. \A i \in 1..Len(Append(q, b)) : i \in 1..Len(q) \/ i = Len(q) + 1
    BY <2>1
  <2> QED
    BY <1>2, <1>5, <2>1, <2>2
<1> QED
  BY <1>3, <1>5, <1>6 DEF NoAcks

\* The broker reads the CONNECT: a clean session forgets what the last one left.
LEMMA ReadInConnect ==
  ASSUME Bookkeeping, Bookkeeping', HandshakeStands, BrokerRead, QoS > 0, cpc = "connect"
  PROVE  InConnect'
<1> DEFINE c == Packet("CONNECT", 0, 0)
<1>0. /\ toBroker # <<>> /\ toBroker' = Tail(toBroker) /\ fromBroker \in Seq(Answers)
      /\ toBroker \in Seq(Requests) /\ persistent' = persistent
  BY DEF BrokerRead, Bookkeeping, PacketsOK, clientVars
<1>1. toBroker = <<c>> /\ NoAcks /\ (persistent => Settled) /\ Dup <= Left
  BY <1>0, Zenon DEF HandshakeStands, InConnect
<1>a. c.type = "CONNECT"
  BY DEF Packet
<1> HIDE DEF c
<1>2. toBroker' = <<>> /\ toBroker[1].type = "CONNECT"
  BY <1>0, <1>1, <1>a
<1>3. BrokerConnect
  BY <1>0, <1>2, QueueType DEF BrokerRead
<1>4. NoAcks'
  BY <1>0, <1>1, <1>3, ConnectAnswered
<1>5. /\ Dup' \in Nat /\ Held' \in Nat /\ Left' = Left /\ Dup' <= Dup /\ Held' <= Held
      /\ (~persistent => Held' = 0) /\ Dup \in Nat /\ Held \in Nat /\ Left \in Nat
  BY <1>2, ReadCounts, CountsType
<1>6. Dup' + Held' <= Left' /\ Held' <= Left' + 1
  <2>1. ASSUME NEW d \in Nat, NEW h \in Nat, NEW dd \in Nat, NEW hh \in Nat, NEW l \in Nat,
               dd <= d, hh <= h, d <= l, d + h <= l \/ hh = 0
        PROVE  dd + hh <= l /\ hh <= l + 1
    BY <2>1
  <2>2. Dup + Held <= Left \/ Held' = 0
    BY <1>1, <1>5 DEF Settled
  <2>3. Dup' + Held' <= Left /\ Held' <= Left + 1
    BY <1>1, <1>5, <2>1, <2>2
  <2> QED
    BY <1>5, <2>3
<1>7. Settled'
  BY <1>6 DEF Settled
<1> QED
  BY <1>0, <1>2, <1>4, <1>6, <1>7, Zenon DEF InConnect

\* What the broker makes of the one PUBLISH of a run: taken, refused, or, when the
\* session holds its identifier, answered as a duplicate.
LEMMA PublishAnswered ==
  ASSUME Bookkeeping, NEW p \in Requests, BrokerPublish(p), QoS > 0
  PROVE  \E a \in Answers :
           /\ fromBroker' = Append(fromBroker, a) /\ a.type \in AckTypes
           /\ \/ a.err /\ UNCHANGED <<accepted, awaiting>>
              \/ QoS = 2 /\ p.id \in awaiting /\ UNCHANGED <<accepted, awaiting>>
              \/ /\ accepted' = accepted \cup {p.msg}
                 /\ awaiting' = IF QoS = 2 THEN awaiting \cup {p.id} ELSE awaiting
<1> DEFINE Taken(e) == ~e /\ (QoS = 2 => p.id \notin awaiting)
           Ack == IF QoS = 1 THEN "PUBACK" ELSE "PUBREC"
           Err(e) == e /\ p.id \notin awaiting
<1>1. PICK e \in BOOLEAN :
        /\ accepted' = IF Taken(e) \/ QoS = 0 THEN accepted \cup {p.msg} ELSE accepted
        /\ awaiting' = IF Taken(e) /\ QoS = 2 THEN awaiting \cup {p.id} ELSE awaiting
        /\ fromBroker' = fromBroker \o IF QoS = 0 THEN <<>> ELSE <<Answer(Ack, Err(e))>>
  BY PubAssumption DEF BrokerPublish, Reply
<1>2. Ack \in AckTypes /\ Err(e) \in BOOLEAN
  BY DEF AckTypes
<1>3. QoS # 0 /\ QoS \in {1, 2}
  BY PubAssumption
<1>4. QoS # 2 => awaiting = {}
  BY DEF Bookkeeping
<1> DEFINE a == Answer(Ack, Err(e))
<1>5. a \in Answers /\ a.type \in AckTypes /\ a.err = Err(e)
  <2> HIDE DEF Ack, Err
  <2> QED
    BY <1>2, AnswerType
<1>6. fromBroker' = fromBroker \o <<a>>
  BY <1>1, <1>3
<1>7. \/ a.err /\ UNCHANGED <<accepted, awaiting>>
      \/ QoS = 2 /\ p.id \in awaiting /\ UNCHANGED <<accepted, awaiting>>
      \/ /\ accepted' = accepted \cup {p.msg}
         /\ awaiting' = IF QoS = 2 THEN awaiting \cup {p.id} ELSE awaiting
  <2>1. CASE Taken(e)
    BY <1>1, <2>1
  <2>2. CASE ~Taken(e)
    <3>1. UNCHANGED <<accepted, awaiting>>
      BY <1>1, <1>3, <2>2
    <3>2. Err(e) \/ (QoS = 2 /\ p.id \in awaiting)
      BY <1>4, <2>2
    <3> QED
      BY <1>5, <3>1, <3>2
  <2> QED
    BY <2>1, <2>2
<1> HIDE DEF a
<1>8. fromBroker' = Append(fromBroker, a)
  BY <1>5, <1>6, ReplyAppends DEF Bookkeeping, PacketsOK
<1> QED
  BY <1>5, <1>7, <1>8

\* The broker reads the PUBLISH of the run.
LEMMA ReadInAck ==
  ASSUME Bookkeeping, Bookkeeping', HandshakeStands, BrokerRead, QoS > 0, cpc = "ack"
  PROVE  InAck'
<1> DEFINE p == Packet("PUBLISH", nextId, msg)
<1>0. /\ toBroker # <<>> /\ toBroker' = Tail(toBroker) /\ fromBroker \in Seq(Answers)
      /\ toBroker \in Seq(Requests) /\ UNCHANGED <<persistent, nextId, msg>>
      /\ nextId \in 0..MaxId /\ msg \in Nat
  BY DEF BrokerRead, Bookkeeping, PacketsOK, TypeOK, clientVars
<1>1. toBroker = <<p>> /\ NoAcks /\ Settled /\ nextId \in Ids
  BY <1>0, Zenon DEF HandshakeStands, InAck
<1>2. p \in Requests /\ p.type = "PUBLISH" /\ p.id = nextId /\ p.msg = msg
  BY <1>0, PacketType
<1> HIDE DEF p
<1>3. toBroker' = <<>> /\ Head(toBroker) = p
  BY <1>0, <1>1
<1>4. BrokerPublish(p)
  BY <1>2, <1>3 DEF BrokerRead
<1>5. PICK a \in Answers :
           /\ fromBroker' = Append(fromBroker, a) /\ a.type \in AckTypes
           /\ \/ a.err /\ UNCHANGED <<accepted, awaiting>>
              \/ QoS = 2 /\ p.id \in awaiting /\ UNCHANGED <<accepted, awaiting>>
              \/ /\ accepted' = accepted \cup {p.msg}
                 /\ awaiting' = IF QoS = 2 THEN awaiting \cup {p.id} ELSE awaiting
  BY <1>2, <1>4, PublishAnswered
<1>6. PICK i \in 1..Len(fromBroker') : OneAck(i)' /\ fromBroker'[i] = a
  BY <1>0, <1>1, <1>5, AckAppended
<1>7. /\ Dup' \in Nat /\ Held' \in Nat /\ Left' = Left /\ Dup' <= Dup /\ Held' <= Held + 1
      /\ Dup \in Nat /\ Held \in Nat /\ Left \in Nat /\ Dup + Held <= Left
  BY <1>1, ReadCounts, CountsType DEF Settled
<1>8. /\ Dup' + Held' <= Left' + 1
      /\ Held' = Held => Dup' + Held' <= Left'
  <2>1. ASSUME NEW d \in Nat, NEW h \in Nat, NEW dd \in Nat, NEW hh \in Nat, NEW l \in Nat,
               dd <= d, hh <= h + 1, d + h <= l
        PROVE  dd + hh <= l + 1 /\ (hh = h => dd + hh <= l)
    BY <2>1
  <2>2. Dup' + Held' <= Left + 1 /\ (Held' = Held => Dup' + Held' <= Left)
    BY <1>7, <2>1
  <2> QED
    BY <1>7, <2>2
<1>9. ~a.err => IF QoS = 1 THEN Paid' ELSE nextId' \in awaiting' /\ Owing'
  <2>1. CASE QoS = 2 /\ p.id \in awaiting /\ UNCHANGED <<accepted, awaiting>>
    <3>1. Settled'
      BY <1>8, <2>1 DEF Settled, Held
    <3> QED
      BY <1>0, <1>2, <2>1, <3>1 DEF Owing
  <2>2. CASE accepted' = accepted \cup {p.msg} /\ QoS = 2 /\ awaiting' = awaiting \cup {p.id}
    BY <1>0, <1>2, <1>8, <2>2 DEF Owing
  <2>3. CASE accepted' = accepted \cup {p.msg} /\ QoS # 2 /\ awaiting' = awaiting
    <3>1. Settled' /\ msg' \in accepted'
      BY <1>0, <1>2, <1>8, <2>3 DEF Settled, Held
    <3>2. QoS = 1
      BY <2>3, PubAssumption
    <3> QED
      BY <3>1, <3>2 DEF Paid
  <2> QED
    BY <1>5, <2>1, <2>2, <2>3
<1>10. nextId' \in Ids
  BY <1>0, <1>1
<1> QED
  BY <1>3, <1>6, <1>8, <1>9, <1>10, Zenon DEF InAck

\* The broker reads the PUBREL: the delivery is complete.
LEMMA ReadInComp ==
  ASSUME Bookkeeping, Bookkeeping', HandshakeStands, BrokerRead, QoS > 0, cpc = "comp"
  PROVE  InComp'
<1> DEFINE p == Packet("PUBREL", nextId, 0)
<1>0. /\ toBroker # <<>> /\ toBroker' = Tail(toBroker) /\ fromBroker \in Seq(Answers)
      /\ toBroker \in Seq(Requests) /\ UNCHANGED <<persistent, nextId, msg, confirmed>>
      /\ nextId \in 0..MaxId
  BY DEF BrokerRead, Bookkeeping, PacketsOK, TypeOK, clientVars
<1>1. toBroker = <<p>> /\ NoAcks /\ Owing /\ nextId \in awaiting
  BY <1>0, Zenon DEF HandshakeStands, InComp
<1>2. p \in Requests /\ p.type = "PUBREL" /\ p.id = nextId
  BY <1>0, PacketType
<1> HIDE DEF p
<1>3. toBroker' = <<>> /\ Head(toBroker) = p
  BY <1>0, <1>1
<1> DEFINE a == Answer("PUBCOMP", p.id \notin awaiting)
<1>4. /\ awaiting' = awaiting \ {nextId} /\ accepted' = accepted
      /\ fromBroker' = fromBroker \o <<a>>
  BY <1>2, <1>3 DEF BrokerRead, Reply
<1>5. a \in Answers /\ a.type \in AckTypes
  BY AnswerType DEF AckTypes
<1> HIDE DEF a
<1>6. fromBroker' = Append(fromBroker, a)
  BY <1>0, <1>4, <1>5, ReplyAppends
<1>7. \E i \in 1..Len(fromBroker') : OneAck(i)'
  BY <1>0, <1>1, <1>5, <1>6, AckAppended
<1>8. Held' = Held - 1 /\ Dup' = Dup /\ Left' = Left
  BY <1>0, <1>1, <1>4, CountsMove, ReadCounts DEF Held, Dup
<1>9. Dup \in Nat /\ Held \in Nat /\ Left \in Nat
  BY CountsType
<1>10. Paid'
  <2>1. CASE msg \in accepted /\ Dup + Held <= Left + 1
    <3>1. Dup' + Held' <= Left'
      BY <1>8, <1>9, <2>1
    <3> QED
      BY <1>0, <1>4, <2>1, <3>1 DEF Paid, Settled
  <2>2. CASE Settled
    <3>1. Dup' + Held' + 1 <= Left'
      BY <1>8, <1>9, <2>2 DEF Settled
    <3> QED
      BY <3>1 DEF Paid
  <2> QED
    BY <1>1, <2>1, <2>2 DEF Owing
<1> QED
  BY <1>3, <1>7, <1>10, Zenon DEF InComp

\* The broker reads what a run left when it ended: nothing new is owed.
LEMMA ReadInOff ==
  ASSUME Bookkeeping, Bookkeeping', HandshakeStands, BrokerRead, QoS > 0, cpc = "off"
  PROVE  InOff' /\ Waiting' = 0
<1>0. /\ toBroker # <<>> /\ toBroker' = Tail(toBroker) /\ toBroker \in Seq(Requests)
      /\ persistent' = persistent
  BY DEF BrokerRead, Bookkeeping, PacketsOK, clientVars
<1>1. InOff
  BY DEF HandshakeStands
<1>2. Len(toBroker) \in Nat /\ Len(toBroker) > 0 /\ Len(toBroker') = Len(toBroker) - 1
      /\ toBroker' \in Seq(Requests)
  BY <1>0, QueueType
<1>3. Len(toBroker') = 0
  BY <1>1, <1>2 DEF InOff
<1>4. toBroker' = <<>>
  BY <1>2, <1>3
<1>5. Waiting' = 0
  BY <1>4 DEF Waiting
<1>6. /\ Dup' \in Nat /\ Held' \in Nat /\ Left' = Left /\ Dup' <= Dup
      /\ Dup \in Nat /\ Held \in Nat /\ Left \in Nat /\ Waiting \in Nat
  BY ReadCounts, CountsType
<1>7. Held' <= Held + Waiting
  <2>1. CASE toBroker[1].type = "PUBLISH"
    <3>1. Waiting = 1
      BY <1>0, <2>1 DEF Waiting
    <3> QED
      BY <3>1, ReadCounts
  <2>2. CASE toBroker[1].type # "PUBLISH"
    <3>1. Held' <= Held /\ Waiting = 0
      BY <2>2, ReadCounts DEF Waiting
    <3> QED
      BY <1>6, <3>1
  <2> QED
    BY <2>1, <2>2
<1>8. IF persistent THEN Dup' + Held' <= Left ELSE Held' <= 1
  <2>1. ASSUME NEW d \in Nat, NEW h \in Nat, NEW dd \in Nat, NEW hh \in Nat, NEW l \in Nat, NEW w \in Nat,
               dd <= d, hh <= h + w
        PROVE  (d + h + w <= l => dd + hh <= l) /\ (h + w <= 1 => hh <= 1)
    BY <2>1
  <2>2. (Dup + Held + Waiting <= Left => Dup' + Held' <= Left) /\ (Held + Waiting <= 1 => Held' <= 1)
    BY <1>6, <1>7, <2>1
  <2> QED
    BY <1>1, <2>2 DEF InOff
<1>9. IF persistent' THEN Dup' + Held' + Waiting' <= Left' ELSE Held' + Waiting' <= 1
  <2>1. Dup' + Held' + Waiting' = Dup' + Held' /\ Held' + Waiting' = Held'
    <3>1. ASSUME NEW a \in Nat, NEW b \in Nat PROVE a + b + 0 = a + b /\ b + 0 = b
      OBVIOUS
    <3> QED
      BY <1>5, <1>6, <3>1
  <2> QED
    BY <1>0, <1>6, <1>8, <2>1
<1> QED
  BY <1>3, <1>5, <1>9 DEF InOff

\* The broker reads one packet, wherever the run is.
LEMMA ReadStands ==
  ASSUME Bookkeeping, Bookkeeping', LinesConfirmed, HandshakeStands, BrokerRead
  PROVE  HandshakeStands'
<1> SUFFICES ASSUME QoS > 0 PROVE HandshakeStands'
  BY DEF HandshakeStands
<1>0. cpc' = cpc /\ exit' = exit /\ toBroker # <<>>
  BY DEF BrokerRead, clientVars
<1>1. Dup' <= Left'
  <2>1. Dup' \in Nat /\ Dup' <= Dup /\ Dup \in Nat /\ Left \in Nat /\ Dup <= Left /\ Left' = Left
    BY ReadCounts, CountsType DEF HandshakeStands
  <2>2. ASSUME NEW a \in Nat, NEW b \in Nat, NEW c \in Nat, a <= b, b <= c PROVE a <= c
    BY <2>2
  <2>3. Dup' <= Left
    BY <2>1, <2>2
  <2> QED
    BY <2>1, <2>3
<1>2. cpc = "connect" => InConnect'
  BY ReadInConnect
<1>3. cpc # "line"
  BY <1>0 DEF HandshakeStands, InLine
<1>4. cpc = "ack" => InAck'
  BY ReadInAck
<1>5. cpc = "comp" => InComp'
  BY ReadInComp
<1>6. cpc = "off" => InOff' /\ Waiting' = 0
  BY ReadInOff
<1>7. exit = "ok" => Waiting' = 0 /\ Held' <= Left'
  <2> SUFFICES ASSUME exit = "ok" PROVE Waiting' = 0 /\ Held' <= Left'
    OBVIOUS
  <2>1. cpc = "off"
    BY DEF LinesConfirmed
  <2>2. Waiting = 0 /\ Held <= Left
    BY DEF HandshakeStands
  <2>3. toBroker[1].type # "PUBLISH"
    BY <1>0, <2>2 DEF Waiting
  <2>4. Held' \in Nat /\ Held' <= Held /\ Held \in Nat /\ Left \in Nat /\ Left' = Left
    BY <2>3, ReadCounts, CountsType
  <2>5. ASSUME NEW a \in Nat, NEW b \in Nat, NEW c \in Nat, a <= b, b <= c PROVE a <= c
    BY <2>5
  <2>6. Held' <= Left
    BY <2>2, <2>4, <2>5
  <2> QED
    BY <1>6, <2>1, <2>4, <2>6
<1> QED
  BY <1>0, <1>1, <1>2, <1>3, <1>4, <1>5, <1>6, <1>7 DEF HandshakeStands

\* Steps that touch neither the handshake nor what it counts.
LEMMA IdleStands ==
  ASSUME HandshakeStands, UNCHANGED <<clientVars, toBroker, fromBroker, awaiting, accepted>>
  PROVE  HandshakeStands'
BY DEF HandshakeStands, clientVars, InConnect, InLine, InAck, InComp, InOff, Dup, Held, Left, Waiting,
       NoAcks, OneAck, Settled, Owing, Paid

\* Nothing is owed before the first run.
LEMMA HandshakeInit == Init => HandshakeStands
<1> SUFFICES ASSUME Init PROVE Dup = 0 /\ Held = 0 /\ Left = 0 /\ Waiting = 0 /\ Len(toBroker) = 0
  BY DEF Init, HandshakeStands, InOff
<1>1. confirmed \ accepted = {} /\ awaiting = {} /\ toBroker = <<>> /\ broken = 0
  BY DEF Init
<1> QED
  BY <1>1, FS_EmptySet DEF Dup, Held, Left, Waiting

\* Every step of the command, of the broker and of the connection.
LEMMA HandshakeNext ==
  ASSUME Bookkeeping, Bookkeeping', LinesConfirmed, HandshakeStands, [Next]_vars
  PROVE  HandshakeStands'
<1>1. CASE Start
  BY <1>1, StartStands
<1>2. CASE Handshake
  BY <1>2, HandshakeStep
<1>3. CASE PublishLine
  BY <1>3, PublishStands
<1>4. CASE LineFails
  BY <1>4, BrokenExit DEF LineFails, Exit
<1>5. CASE ExpectAck
  BY <1>5, ExpectAckStands
<1>6. CASE ExpectAckFails
  BY <1>6, BrokenExit DEF ExpectAckFails, Exit
<1>7. CASE RecvEof
  BY <1>7, BrokenExit DEF RecvEof, Exit
<1>8. CASE DisconnectAndExit
  BY <1>8, DisconnectStands
<1>9. CASE Kill
  BY <1>9, BrokenExit DEF Kill, Exit
<1>10. CASE BrokerRead
  BY <1>10, ReadStands
<1>11. CASE BrokerDrops
  BY <1>11, DropsStands
<1>12. CASE ConnectionEnds \/ UNCHANGED vars
  BY <1>12, IdleStands DEF ConnectionEnds, vars, clientVars
<1> QED
  BY <1>1, <1>2, <1>3, <1>4, <1>5, <1>6, <1>7, <1>8, <1>9, <1>10, <1>11, <1>12 DEF Next, Command, Finished

\* The inductive invariant.
LEMMA PubInvariant == Spec => []PubInv
<1>1. Init => PubInv
  BY BookkeepingInit, LinesInit, HandshakeInit DEF PubInv
<1>2. PubInv /\ [Next]_vars => PubInv'
  BY BookkeepingNext, LinesNext, HandshakeNext DEF PubInv
<1> QED
  BY <1>1, <1>2, PTL DEF Spec

-----------------------------------------------------------------------------
(***************************************************************************)
(* What publish_one promises.                                              *)
(***************************************************************************)

\* publish_one, src/src/publish.rs: whatever is killed, dropped or refused, a message
\* reported as published is with the broker, but for one per broken run of a persistent
\* session; and exit status 0 says so of every line of the run.
THEOREM ConfirmedMessagesAreAccepted == Spec => []ConfirmedIsAccepted
<1>1. PubInv => ConfirmedIsAccepted
  <2> SUFFICES ASSUME PubInv PROVE ConfirmedIsAccepted
    OBVIOUS
  <2>1. Dup <= Left
    <3>1. CASE QoS > 0
      BY <3>1 DEF PubInv, HandshakeStands
    <3>2. CASE QoS = 0
      <4>1. confirmed \ accepted = {}
        BY <3>2 DEF PubInv, Bookkeeping
      <4>2. Dup = 0 /\ Left \in Nat
        BY <4>1, FS_EmptySet, CountsType DEF Dup, PubInv
      <4> QED
        BY <4>2
    <3> QED
      BY <3>1, <3>2, PubAssumption
  <2> QED
    BY <2>1 DEF PubInv, LinesConfirmed, ConfirmedIsAccepted, Dup, Left
<1> QED
  BY <1>1, PubInvariant, PTL

\* The comment of publish_one: QoS 1 and 2 finish their handshake before the next publish or
\* the exit: one message of a run is under way at most, and exit status 0 leaves no delivery
\* open, but for one of each broken run whose session persists.
THEOREM HandshakesFinish == Spec => []HandshakeFinishes
<1>1. PubInv => HandshakeFinishes
  <2> SUFFICES ASSUME PubInv, QoS > 0
               PROVE  /\ Cardinality({i \in DOMAIN toBroker : toBroker[i].type = "PUBLISH"})
                            + Cardinality(awaiting) <= 1 + Left
                      /\ exit = "ok" => Cardinality(awaiting) <= Left
    BY DEF HandshakeFinishes, Left
  <2> DEFINE W == {i \in DOMAIN toBroker : toBroker[i].type = "PUBLISH"}
  <2>1. Bookkeeping /\ HandshakeStands
    BY DEF PubInv
  <2>2. Dup \in Nat /\ Held \in Nat /\ Left \in Nat /\ Waiting \in 0..1 /\ (~persistent => Left = 0)
    BY <2>1, CountsType DEF Left
  <2>3. Len(toBroker) <= 1 /\ Held + Waiting <= Left + 1
    <3>1. CASE cpc # "off"
      BY <2>1, <3>1, PlaceBound
    <3>2. CASE cpc = "off"
      BY <2>1, <2>2, <3>2 DEF HandshakeStands, InOff
    <3> QED
      BY <3>1, <3>2
  <2>4. Cardinality(W) = Waiting
    <3>1. toBroker \in Seq(Requests)
      BY <2>1 DEF Bookkeeping, PacketsOK
    <3>2. Len(toBroker) \in Nat /\ DOMAIN toBroker = 1..Len(toBroker) /\ (toBroker # <<>> => Len(toBroker) > 0)
      BY <3>1
    <3>3. CASE toBroker # <<>> /\ toBroker[1].type = "PUBLISH"
      <4>1. W = {1}
        BY <2>3, <3>2, <3>3
      <4>2. Cardinality({1}) = 1
        BY FS_Singleton
      <4> QED
        BY <3>3, <4>1, <4>2 DEF Waiting
    <3>4. CASE ~(toBroker # <<>> /\ toBroker[1].type = "PUBLISH")
      <4>1. W = {}
        BY <2>3, <3>2, <3>4
      <4>2. Waiting = 0
        BY <3>4 DEF Waiting
      <4> QED
        BY <4>1, <4>2, FS_EmptySet
    <3> QED
      BY <3>3, <3>4
  <2>5. exit = "ok" => Held <= Left
    BY <2>1 DEF HandshakeStands
  <2> HIDE DEF W
  <2>6. Cardinality(W) + Cardinality(awaiting) <= 1 + Left
    BY <2>2, <2>3, <2>4 DEF Held
  <2> QED
    BY <2>5, <2>6 DEF Held, W
<1> QED
  BY <1>1, PubInvariant, PTL
==============================================================================
