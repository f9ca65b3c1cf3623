-------------------------- MODULE SubCommand_proofs --------------------------
(***************************************************************************)
(* Machine-checked proofs about SubCommand, for any number of runs and     *)
(* messages, at every QoS, with or without a session that persists.        *)
(***************************************************************************)
EXTENDS SubCommand, FiniteSetTheorems, TLAPS

-----------------------------------------------------------------------------
(***************************************************************************)
(* The inductive invariants.                                               *)
(***************************************************************************)
Packets == [type : {"CONNECT", "SUBSCRIBE", "REQUEST", "DISCONNECT", "PUBACK", "PUBREC", "PUBREL",
                    "PUBCOMP", "CONNACK", "REFUSED", "SUBACK", "PUBLISH"},
            msg : Nat]

SubType ==
    /\ toSub \in Seq(Packets) /\ toBroker \in Seq(Packets)
    /\ runs \in Nat /\ kills \in Nat /\ current \in Nat /\ made \in Nat /\ held \in Nat /\ asked \subseteq Nat
    /\ owed \subseteq Nat /\ IsFiniteSet(owed) /\ unreleased \subseteq Nat /\ IsFiniteSet(unreleased)

\* What the client acknowledged: the broker knows, or is about to read it.
Known == completed \cup unreleased
Acked == Known \cup {toBroker[i].msg : i \in {j \in 1..Len(toBroker) : toBroker[j].type \in {"PUBACK", "PUBREC"}}}

\* A PUBREL and its PUBCOMP are of messages the broker knows to be acknowledged.
Released ==
    /\ \A i \in 1..Len(toSub) : toSub[i].type = "PUBREL" => toSub[i].msg \in Known
    /\ \A i \in 1..Len(toBroker) : toBroker[i].type = "PUBCOMP" => toBroker[i].msg \in Known

\* What is acknowledged, was not handed to print_message, and will not be.
Lost == (Acked \ Handled) \ (IF cpc = "print" THEN {current} ELSE {})
LostByKills == IsFiniteSet(Lost) /\ Cardinality(Lost) <= kills

AcknowledgedInv == SubType /\ Released /\ LostByKills

\* The arguments of the run, the limits they give, and how far the run is.
Given == ({count} \ {Absent}) \cup (IF command = "sub" THEN {ceiling} \ {0} ELSE {})
LimitInv ==
    /\ command \in {"sub", "request"} /\ count \in Nat \cup {Absent} /\ ceiling \in Nat
    /\ command = "request" => count # Absent
    /\ seen \in Nat
    /\ \A n \in Given : seen + (IF cpc = "print" THEN 1 ELSE 0) <= n
    /\ exit = "ok" => cpc = "off" /\ seen \in Given

-----------------------------------------------------------------------------
(***************************************************************************)
(* The limit.                                                              *)
(***************************************************************************)

\* SubArgs::effective_limit and the loop of request: the run is at its limit exactly when
\* it has reached one of the limits given.
LEMMA AtLimitReached == ASSUME LimitInv PROVE AtLimit <=> \E n \in Given : seen >= n
<1>0. /\ command \in {"sub", "request"} /\ count \in Nat \cup {Absent} /\ ceiling \in Nat /\ seen \in Nat
      /\ Absent \notin Nat
  BY SubAssumption DEF LimitInv
<1>1. CASE command = "sub" /\ ceiling = 0
  <2>1. EffectiveLimit = count
    BY <1>1 DEF EffectiveLimit
  <2> QED
    BY <1>0, <1>1, <2>1 DEF AtLimit, Given
<1>2. CASE command = "sub" /\ ceiling > 0
  <2>1. EffectiveLimit = IF count = Absent \/ ceiling < count THEN ceiling ELSE count
    <3>1. ceiling # 0
      BY <1>0, <1>2
    <3> QED
      BY <1>2, <3>1 DEF EffectiveLimit
  <2>2. CASE count = Absent
    BY <1>0, <1>2, <2>1, <2>2 DEF AtLimit, Given
  <2>3. CASE count \in Nat /\ ceiling < count
    BY <1>0, <1>2, <2>1, <2>3 DEF AtLimit, Given
  <2>4. CASE count \in Nat /\ ~(ceiling < count)
    BY <1>0, <1>2, <2>1, <2>4 DEF AtLimit, Given
  <2> QED
    BY <1>0, <2>2, <2>3, <2>4
<1>3. CASE command = "request"
  BY <1>0, <1>3 DEF AtLimit, Given
<1> QED
  BY <1>0, <1>1, <1>2, <1>3

\* No run has started.
LEMMA LimitInit == Init => LimitInv
BY SubAssumption DEF Init, LimitInv, Given

\* Only a message that is printed counts, and only a run at its limit ends well.
LEMMA LimitNext == ASSUME LimitInv, [Next]_vars PROVE LimitInv'
<1>a. ASSUME UNCHANGED <<config, seen>>, cpc' # "print" \/ cpc' = cpc,
             (exit' = exit /\ (cpc = "off" => cpc' = "off")) \/ exit' # "ok"
      PROVE  LimitInv'
  <2>1. Given' = Given
    BY <1>a DEF Given, config
  <2>2. \A n \in Given : n \in Nat /\ seen \in Nat
    BY SubAssumption DEF Given, LimitInv
  <2> QED
    BY <1>a, <2>1, <2>2 DEF LimitInv, config
<1>1. CASE Start
  <2>1. Given' = Given /\ \A n \in Given : n \in Nat
    BY <1>1, SubAssumption DEF Start, Given, config, LimitInv
  <2> QED
    BY <1>1, <2>1 DEF Start, LimitInv, config
<1>2. CASE Acknowledge
  <2>1. CASE cpc' = "print" /\ UNCHANGED exit
    <3>1. Given' = Given /\ (\A n \in Given : n \in Nat) /\ seen' = seen /\ seen \in Nat
      BY <1>2, SubAssumption DEF Acknowledge, Given, config, LimitInv
    <3>2. \A n \in Given : seen + 1 <= n
      BY <1>2, <3>1, AtLimitReached DEF Acknowledge
    <3>3. exit # "ok"
      BY <1>2 DEF Acknowledge, LimitInv
    <3> QED
      BY <1>2, <2>1, <3>1, <3>2, <3>3 DEF Acknowledge, LimitInv, config
  <2>2. CASE Exit("err")
    BY <1>a, <1>2, <2>2 DEF Acknowledge, Exit
  <2> QED
    BY <1>2, <2>1, <2>2 DEF Acknowledge
<1>3. CASE PrintMessage
  <2>1. Given' = Given /\ (\A n \in Given : n \in Nat) /\ exit # "ok"
    BY <1>3, SubAssumption DEF PrintMessage, Given, config, LimitInv
  <2> QED
    BY <1>3, <2>1 DEF PrintMessage, LimitInv, config
<1>4. CASE LimitReached
  <2>1. CASE Exit("ok")
    <3>1. Given' = Given /\ (\A n \in Given : n \in Nat) /\ seen' = seen /\ seen \in Nat
      BY <1>4, SubAssumption DEF LimitReached, Given, config, LimitInv
    <3>2. PICK n \in Given : seen >= n
      BY <1>4, AtLimitReached DEF LimitReached
    <3>3. seen = n
      BY <1>4, <3>1, <3>2 DEF LimitReached, LimitInv
    <3> QED
      BY <1>4, <2>1, <3>1, <3>3 DEF LimitReached, LimitInv, Exit, config
  <2>2. CASE Exit("err")
    BY <1>a, <1>4, <2>2 DEF LimitReached, Exit
  <2> QED
    BY <1>4, <2>1, <2>2 DEF LimitReached, Leave
<1>5. CASE Connected
  BY <1>a, <1>5 DEF Connected, Exit
<1>6. CASE WaitSuback
  BY <1>a, <1>6 DEF WaitSuback, Exit
<1>7. CASE SendRequest
  BY <1>a, <1>7 DEF SendRequest, Exit
<1>8. CASE ReadOwnAck \/ ReleaseMessage \/ LoopFails
  BY <1>a, <1>8 DEF ReadOwnAck, ReleaseMessage, LoopFails, Exit
<1>9. CASE Kill
  BY <1>a, <1>9 DEF Kill, Exit
<1>10. CASE UNCHANGED clientVars
  BY <1>a, <1>10 DEF clientVars
<1> QED
  BY <1>1, <1>2, <1>3, <1>4, <1>5, <1>6, <1>7, <1>8, <1>9, <1>10
     DEF Next, Command, Finished, vars, clientVars, BrokerRead, BrokerPublish, Respond, BrokerDrops,
         ConnectionEnds

\* effective_limit, the loop of sub and the loop of request: a run that succeeds printed as
\* many messages as the least limit given, one without a limit does not, and none prints more.
THEOREM LimitExact == Spec => []LimitIsExact
<1>1. LimitInv /\ [Next]_vars => LimitInv'
  BY LimitNext
<1>2. LimitInv => LimitIsExact
  BY DEF LimitInv, LimitIsExact, Given
<1> QED
  BY <1>1, <1>2, LimitInit, PTL DEF Spec

-----------------------------------------------------------------------------
(***************************************************************************)
(* Queues and what a resumed session sends again.                          *)
(***************************************************************************)

\* Taking from a queue and adding to it.
LEMMA QueueType ==
  ASSUME NEW S, NEW q \in Seq(S)
  PROVE  /\ Len(q) \in Nat /\ \A i \in 1..Len(q) : q[i] \in S
         /\ q # <<>> => /\ Head(q) \in S /\ Head(q) = q[1] /\ Tail(q) \in Seq(S) /\ 1 \in 1..Len(q)
                        /\ \A i \in 1..Len(Tail(q)) : i + 1 \in 1..Len(q) /\ Tail(q)[i] = q[i + 1]
         /\ \A x \in S : /\ Append(q, x) \in Seq(S)
                          /\ \A i \in 1..Len(Append(q, x)) :
                               (i \in 1..Len(q) /\ Append(q, x)[i] = q[i]) \/ Append(q, x)[i] = x
         /\ \A r \in Seq(S) : /\ q \o r \in Seq(S)
                              /\ \A i \in 1..Len(q \o r) :
                                   \/ i \in 1..Len(q) /\ (q \o r)[i] = q[i]
                                   \/ \E j \in 1..Len(r) : (q \o r)[i] = r[j]
<1>1. ASSUME NEW r \in Seq(S), NEW i \in 1..Len(q \o r)
      PROVE  \/ i \in 1..Len(q) /\ (q \o r)[i] = q[i]
             \/ \E j \in 1..Len(r) : (q \o r)[i] = r[j]
  <2>1. Len(q) \in Nat /\ Len(r) \in Nat /\ Len(q \o r) = Len(q) + Len(r)
    OBVIOUS
  <2>2. CASE i <= Len(q)
    BY <2>1, <2>2
  <2>3. CASE i > Len(q)
    <3>1. i - Len(q) \in 1..Len(r) /\ (q \o r)[i] = r[i - Len(q)]
      BY <2>1, <2>3
    <3> QED
      BY <3>1
  <2> QED
    BY <2>1, <2>2, <2>3
<1> QED
  BY <1>1

\* What the client and the broker put on the wire has its type.
LEMMA PacketType ==
  ASSUME NEW m \in Nat,
         NEW t \in {"CONNECT", "SUBSCRIBE", "REQUEST", "DISCONNECT", "PUBACK", "PUBREC", "PUBREL",
                    "PUBCOMP", "CONNACK", "REFUSED", "SUBACK", "PUBLISH"}
  PROVE  Packet(t, m) \in Packets /\ Packet(t, m).type = t /\ Packet(t, m).msg = m
BY DEF Packet, Packets

\* A finite set is made a sequence of its elements.
LEMMA SetToSeqType ==
  ASSUME NEW S, IsFiniteSet(S)
  PROVE  SetToSeq(S) \in Seq(S)
<1> DEFINE F == [1..Cardinality(S) -> S]
<1>1. Cardinality(S) \in Nat /\ ExistsBijection(1..Cardinality(S), S)
  BY FS_CardinalityType
<1>2. \E f \in F : IsInjective(f)
  BY <1>1 DEF ExistsBijection, Bijection, Injection
<1>3. SetToSeq(S) = CHOOSE f \in F : IsInjective(f)
  BY DEF SetToSeq
<1>4. SetToSeq(S) \in F
  <2> HIDE DEF F
  <2> QED
    BY <1>2, <1>3, Zenon
<1> QED
  BY <1>1, <1>4

\* One packet for every message of a finite set is a finite set of packets.
LEMMA PacketsOf ==
  ASSUME NEW M, M \subseteq Nat, IsFiniteSet(M), NEW t \in {"PUBREL", "PUBLISH"}
  PROVE  /\ SetToSeq({Packet(t, m) : m \in M}) \in Seq(Packets)
         /\ LET r == SetToSeq({Packet(t, m) : m \in M})
            IN  \A i \in 1..Len(r) : r[i].type = t /\ r[i].msg \in M
<1> DEFINE T == {Packet(t, m) : m \in M}
           f == [m \in M |-> Packet(t, m)]
<1>1. f \in Surjection(M, T)
  BY DEF Surjection
<1>2. IsFiniteSet(T)
  BY <1>1, FS_Surjection
<1>3. \A x \in T : x \in Packets /\ x.type = t /\ x.msg \in M
  BY PacketType
<1> HIDE DEF T
<1>4. SetToSeq(T) \in Seq(T)
  BY <1>2, SetToSeqType
<1> DEFINE r == SetToSeq(T)
<1> HIDE DEF r
<1>5. r \in Seq(T)
  BY <1>4 DEF r
<1>6. \A i \in 1..Len(r) : r[i] \in T
  BY <1>5
<1>7. r \in Seq(Packets)
  BY <1>3, <1>5
<1>8. r \in Seq(Packets) /\ \A i \in 1..Len(r) : r[i].type = t /\ r[i].msg \in M
  BY <1>3, <1>6, <1>7
<1> QED
  BY <1>8 DEF r, T

\* What a resumed session sends again: a PUBREL only of what it holds.
LEMMA ResendType ==
  ASSUME SubType
  PROVE  /\ Resend \in Seq(Packets)
         /\ \A i \in 1..Len(Resend) : Resend[i].type = "PUBREL" => Resend[i].msg \in unreleased
<1> DEFINE a == SetToSeq({Packet("PUBREL", m) : m \in unreleased})
           b == SetToSeq({Packet("PUBLISH", m) : m \in owed})
<1>1. a \in Seq(Packets) /\ \A i \in 1..Len(a) : a[i].type = "PUBREL" /\ a[i].msg \in unreleased
  BY PacketsOf DEF SubType
<1>2. b \in Seq(Packets) /\ \A i \in 1..Len(b) : b[i].type = "PUBLISH" /\ b[i].msg \in owed
  BY PacketsOf DEF SubType
<1>3. Resend = a \o b
  BY DEF Resend
<1> HIDE DEF a, b
<1>4. /\ a \o b \in Seq(Packets)
      /\ \A i \in 1..Len(a \o b) : \/ i \in 1..Len(a) /\ (a \o b)[i] = a[i]
                                   \/ \E j \in 1..Len(b) : (a \o b)[i] = b[j]
  BY <1>1, <1>2, QueueType
<1>5. ASSUME NEW i \in 1..Len(a \o b), (a \o b)[i].type = "PUBREL" PROVE (a \o b)[i].msg \in unreleased
  BY <1>1, <1>2, <1>4, <1>5
<1> QED
  BY <1>3, <1>4, <1>5

-----------------------------------------------------------------------------
(***************************************************************************)
(* Acknowledged and printed: the steps.                                    *)
(***************************************************************************)
Ackings == {"PUBACK", "PUBREC"}

\* What counts as acknowledged.
LEMMA AckedElements ==
  \A x : x \in Acked <=> \/ x \in Known
                         \/ \E i \in 1..Len(toBroker) : toBroker[i].type \in Ackings /\ x = toBroker[i].msg
BY DEF Acked, Ackings

\* The same after a step.
LEMMA AckedElementsNext ==
  \A x : x \in Acked' <=> \/ x \in Known'
                          \/ \E i \in 1..Len(toBroker') : toBroker'[i].type \in Ackings /\ x = toBroker'[i].msg
BY DEF Acked, Ackings

\* No more is lost than before.
LEMMA LostShrinks ==
  ASSUME LostByKills, kills \in Nat, kills' = kills, Lost' \subseteq Lost PROVE LostByKills'
<1>1. IsFiniteSet(Lost') /\ Cardinality(Lost') <= Cardinality(Lost)
  BY FS_Subset DEF LostByKills
<1>2. Cardinality(Lost') \in Nat /\ Cardinality(Lost) \in Nat
  BY <1>1, FS_CardinalityType DEF LostByKills
<1>3. ASSUME NEW a \in Nat, NEW b \in Nat, NEW c \in Nat, a <= b, b <= c PROVE a <= c
  BY <1>3
<1>4. Cardinality(Lost) <= kills
  BY DEF LostByKills
<1>5. Cardinality(Lost') <= kills
  BY <1>1, <1>2, <1>3, <1>4
<1> QED
  BY <1>1, <1>5 DEF LostByKills

\* write_packet adds the packet, or nothing.
LEMMA ClientSends ==
  ASSUME SubType, NEW p \in Packets, Send(p) \/ UNCHANGED toBroker
  PROVE  /\ toBroker' \in Seq(Packets)
         /\ \A i \in 1..Len(toBroker') :
              (i \in 1..Len(toBroker) /\ toBroker'[i] = toBroker[i]) \/ toBroker'[i] = p
<1>1. CASE toBroker' = toBroker
  BY <1>1 DEF SubType
<1>2. CASE toBroker' = Append(toBroker, p)
  BY <1>2, QueueType DEF SubType
<1> QED
  BY <1>1, <1>2 DEF Send

\* A packet is read, or none.
LEMMA ClientReads ==
  ASSUME SubType, toSub' = toSub \/ (toSub # <<>> /\ toSub' = Tail(toSub))
  PROVE  /\ toSub' \in Seq(Packets)
         /\ \A i \in 1..Len(toSub') : \E j \in 1..Len(toSub) : toSub'[i] = toSub[j]
<1>1. CASE toSub' = toSub
  BY <1>1 DEF SubType
<1>2. CASE toSub # <<>> /\ toSub' = Tail(toSub)
  <2>1. /\ toSub' \in Seq(Packets)
        /\ \A i \in 1..Len(toSub') : i + 1 \in 1..Len(toSub) /\ toSub'[i] = toSub[i + 1]
    BY <1>2, QueueType DEF SubType
  <2> QED
    BY <2>1
<1> QED
  BY <1>1, <1>2

\* A step of the client that sends p, or nothing: what it acknowledges is what it is
\* about to print.
LEMMA ClientStep ==
  ASSUME AcknowledgedInv, NEW p \in Packets, Send(p) \/ UNCHANGED toBroker,
         toSub' = toSub \/ (toSub # <<>> /\ toSub' = Tail(toSub)),
         UNCHANGED <<runs, kills, brokerVars>>, current' \in Nat, cpc # "print",
         p.type = "PUBCOMP" => p.msg \in Known,
         p.type \in Ackings => UNCHANGED toBroker \/ (cpc' = "print" /\ p.msg = current'),
         Handled' = Handled
  PROVE  AcknowledgedInv'
<1>1. /\ toBroker' \in Seq(Packets)
      /\ \A i \in 1..Len(toBroker') :
           (i \in 1..Len(toBroker) /\ toBroker'[i] = toBroker[i]) \/ toBroker'[i] = p
  BY ClientSends DEF AcknowledgedInv
<1>2. /\ toSub' \in Seq(Packets)
      /\ \A i \in 1..Len(toSub') : \E j \in 1..Len(toSub) : toSub'[i] = toSub[j]
  BY ClientReads DEF AcknowledgedInv
<1>3. SubType'
  BY <1>1, <1>2 DEF AcknowledgedInv, SubType, brokerVars, requestVars
<1>4. Known' = Known
  BY DEF Known, brokerVars
<1>5. Released'
  BY <1>1, <1>2, <1>4 DEF AcknowledgedInv, Released
<1>6. ASSUME NEW x \in Lost' PROVE x \in Lost
  <2>1. x \in Acked' /\ x \notin Handled' /\ (cpc' = "print" => x # current')
    BY DEF Lost
  <2>2. x \in Acked
    <3>1. CASE x \in Known'
      BY <1>4, <3>1, AckedElements
    <3>2. ASSUME NEW i \in 1..Len(toBroker'), toBroker'[i].type \in Ackings, x = toBroker'[i].msg
          PROVE  x \in Acked
      <4>1. CASE i \in 1..Len(toBroker) /\ toBroker'[i] = toBroker[i]
        BY <3>2, <4>1, AckedElements
      <4>2. CASE toBroker'[i] = p
        <5>1. UNCHANGED toBroker
          BY <2>1, <3>2, <4>2
        <5> QED
          BY <3>2, <5>1, AckedElements
      <4> QED
        BY <1>1, <4>1, <4>2
    <3> QED
      BY <2>1, <3>1, <3>2, AckedElementsNext
  <2> QED
    BY <2>1, <2>2 DEF Lost
<1>7. LostByKills'
  BY <1>6, LostShrinks DEF AcknowledgedInv, SubType
<1> QED
  BY <1>3, <1>5, <1>7 DEF AcknowledgedInv

\* A process starts with nothing on its way.
LEMMA StartKeeps == ASSUME AcknowledgedInv, Start PROVE AcknowledgedInv'
<1> DEFINE p == Packet("CONNECT", 0)
<1>1. p \in Packets /\ p.type = "CONNECT"
  BY PacketType
<1>2. /\ toBroker' = <<p>> /\ toSub' = <<>> /\ runs' = runs + 1 /\ current' = 0
      /\ UNCHANGED <<kills, printed, swallowed, brokerVars>> /\ cpc = "off" /\ cpc' = "connect"
  BY DEF Start
<1> HIDE DEF p
<1>3. toBroker' \in Seq(Packets) /\ \A i \in 1..Len(toBroker') : toBroker'[i] = p
  BY <1>1, <1>2
<1>4. SubType'
  BY <1>2, <1>3 DEF AcknowledgedInv, SubType, brokerVars, requestVars
<1>5. Known' = Known
  BY <1>2 DEF Known, brokerVars
<1>6. Released'
  BY <1>1, <1>2, <1>3 DEF Released
<1>7. ASSUME NEW x \in Lost' PROVE x \in Lost
  <2>1. x \in Known'
    BY <1>1, <1>3, AckedElementsNext DEF Lost, Ackings
  <2> QED
    BY <1>2, <1>5, <2>1, AckedElements DEF Handled, Lost
<1>8. LostByKills'
  BY <1>2, <1>7, LostShrinks DEF AcknowledgedInv, SubType
<1> QED
  BY <1>4, <1>6, <1>8 DEF AcknowledgedInv

\* The wait for the CONNACK and the SUBSCRIBE.
LEMMA ConnectedKeeps == ASSUME AcknowledgedInv, Connected PROVE AcknowledgedInv'
<1> DEFINE p == Packet("SUBSCRIBE", 0)
<1>1. p \in Packets /\ p.type = "SUBSCRIBE"
  BY PacketType
<1>2. Send(p) \/ UNCHANGED toBroker
  BY DEF Connected
<1> HIDE DEF p
<1>3. /\ toSub # <<>> /\ toSub' = Tail(toSub) /\ UNCHANGED <<runs, kills, current, printed, swallowed, brokerVars>>
      /\ cpc = "connect"
  BY DEF Connected
<1> QED
  BY <1>1, <1>2, <1>3, ClientStep DEF Handled, AcknowledgedInv, SubType, Ackings

\* The wait for the SUBACK acknowledges nothing.
LEMMA WaitSubackKeeps == ASSUME AcknowledgedInv, WaitSuback PROVE AcknowledgedInv'
<1> DEFINE p == Packet("SUBSCRIBE", 0)
<1>1. p \in Packets /\ p.type = "SUBSCRIBE"
  BY PacketType
<1> HIDE DEF p
<1>2. /\ toSub # <<>> /\ toSub' = Tail(toSub) /\ UNCHANGED <<runs, kills, current, printed, swallowed, brokerVars>>
      /\ cpc = "suback" /\ UNCHANGED toBroker
  BY DEF WaitSuback
<1> QED
  BY <1>1, <1>2, ClientStep DEF Handled, AcknowledgedInv, SubType, Ackings

\* The request.
LEMMA SendRequestKeeps == ASSUME AcknowledgedInv, SendRequest PROVE AcknowledgedInv'
<1> DEFINE p == Packet("REQUEST", runs)
<1>1. p \in Packets /\ p.type = "REQUEST"
  BY PacketType DEF AcknowledgedInv, SubType
<1>2. Send(p) \/ UNCHANGED toBroker
  BY DEF SendRequest
<1> HIDE DEF p
<1>3. UNCHANGED <<runs, kills, current, printed, swallowed, toSub, brokerVars>> /\ cpc = "request"
  BY DEF SendRequest
<1> QED
  BY <1>1, <1>2, <1>3, ClientStep DEF Handled, AcknowledgedInv, SubType, Ackings

\* The acknowledgements of the request.
LEMMA ReadOwnAckKeeps == ASSUME AcknowledgedInv, ReadOwnAck PROVE AcknowledgedInv'
<1> DEFINE p == Packet("PUBREL", 0)
<1>1. p \in Packets /\ p.type = "PUBREL"
  BY PacketType
<1>2. Send(p) \/ UNCHANGED toBroker
  BY DEF ReadOwnAck
<1> HIDE DEF p
<1>3. /\ toSub # <<>> /\ toSub' = Tail(toSub) /\ UNCHANGED <<runs, kills, current, printed, swallowed, brokerVars>>
      /\ cpc = "loop"
  BY DEF ReadOwnAck
<1> QED
  BY <1>1, <1>2, <1>3, ClientStep DEF Handled, AcknowledgedInv, SubType, Ackings

\* A message is acknowledged and about to be printed.
LEMMA AcknowledgeKeeps == ASSUME AcknowledgedInv, Acknowledge PROVE AcknowledgedInv'
<1> DEFINE p == Packet(IF QoS = 1 THEN "PUBACK" ELSE "PUBREC", current')
<1>1. /\ toSub # <<>> /\ toSub' = Tail(toSub) /\ UNCHANGED <<runs, kills, printed, swallowed, brokerVars>>
      /\ cpc = "loop" /\ current' = Head(toSub).msg
  BY DEF Acknowledge, Reads
<1>2. current' \in Nat
  <2>1. Head(toSub) \in Packets
    BY <1>1, QueueType DEF AcknowledgedInv, SubType
  <2> QED
    BY <1>1, <2>1 DEF Packets
<1>3. p \in Packets /\ p.type \in Ackings /\ p.msg = current'
  BY <1>2, PacketType DEF Ackings
<1>4. UNCHANGED toBroker \/ (Send(p) /\ cpc' = "print")
  BY DEF Acknowledge
<1> HIDE DEF p
<1>5. p.type # "PUBCOMP"
  BY <1>3 DEF Ackings
<1> QED
  BY <1>1, <1>2, <1>3, <1>4, <1>5, ClientStep DEF Handled

\* A PUBREL is answered.
LEMMA ReleaseKeeps == ASSUME AcknowledgedInv, ReleaseMessage PROVE AcknowledgedInv'
<1> DEFINE p == Packet("PUBCOMP", Head(toSub).msg)
<1>1. /\ toSub # <<>> /\ toSub' = Tail(toSub) /\ UNCHANGED <<runs, kills, current, printed, swallowed, brokerVars>>
      /\ cpc = "loop" /\ Head(toSub).type = "PUBREL"
  BY DEF ReleaseMessage, Reads
<1>2. Head(toSub) = toSub[1] /\ 1 \in 1..Len(toSub) /\ Head(toSub) \in Packets
  BY <1>1, QueueType DEF AcknowledgedInv, SubType
<1>3. Head(toSub).msg \in Nat /\ Head(toSub).msg \in Known
  BY <1>1, <1>2 DEF AcknowledgedInv, Released, Packets
<1>4. p \in Packets /\ p.type = "PUBCOMP" /\ p.msg \in Known
  BY <1>3, PacketType
<1>5. Send(p) \/ UNCHANGED toBroker
  BY DEF ReleaseMessage
<1> HIDE DEF p
<1> QED
  BY <1>1, <1>4, <1>5, ClientStep DEF Handled, AcknowledgedInv, SubType, Ackings

\* The limit, and the ends of a run.
LEMMA EndKeeps == ASSUME AcknowledgedInv, LimitReached \/ LoopFails PROVE AcknowledgedInv'
<1> DEFINE p == Packet("DISCONNECT", 0)
<1>1. p \in Packets /\ p.type = "DISCONNECT"
  BY PacketType
<1>2. Send(p) \/ UNCHANGED toBroker
  BY DEF LimitReached, Leave, LoopFails
<1> HIDE DEF p
<1>3. UNCHANGED <<runs, kills, current, printed, swallowed, toSub, brokerVars>> /\ cpc # "print"
  BY DEF LimitReached, LoopFails
<1> QED
  BY <1>1, <1>2, <1>3, ClientStep DEF Handled, AcknowledgedInv, SubType, Ackings

\* What is printed is no longer about to be.
LEMMA PrintKeeps == ASSUME AcknowledgedInv, PrintMessage PROVE AcknowledgedInv'
<1>1. /\ cpc = "print" /\ cpc' = "loop" /\ Handled' = Handled \cup {current}
      /\ UNCHANGED <<runs, kills, current, toSub, toBroker, brokerVars>>
  BY DEF PrintMessage, Handled
<1>2. SubType' /\ Released' /\ Acked' = Acked
  BY <1>1 DEF AcknowledgedInv, SubType, Released, Acked, Known, brokerVars, requestVars
<1>3. Lost' \subseteq Lost
  BY <1>1, <1>2 DEF Lost
<1>4. LostByKills'
  BY <1>1, <1>3, LostShrinks DEF AcknowledgedInv, SubType
<1> QED
  BY <1>2, <1>4 DEF AcknowledgedInv

\* A kill loses the message that was about to be printed, and no other.
LEMMA KillKeeps == ASSUME AcknowledgedInv, Kill PROVE AcknowledgedInv'
<1>1. /\ cpc' = "off" /\ kills' = kills + 1 /\ kills \in Nat
      /\ UNCHANGED <<runs, current, printed, swallowed, toSub, toBroker, brokerVars>>
  BY DEF Kill, Exit, AcknowledgedInv, SubType
<1>2. SubType' /\ Released' /\ Acked' = Acked
  BY <1>1 DEF AcknowledgedInv, SubType, Released, Acked, Known, brokerVars, requestVars
<1>3. Lost' \in SUBSET (Lost \cup {current})
  BY <1>1, <1>2 DEF Handled, Lost
<1>4. IsFiniteSet(Lost) /\ Cardinality(Lost) <= kills /\ Cardinality(Lost) \in Nat
  BY FS_CardinalityType DEF AcknowledgedInv, LostByKills
<1>5. /\ IsFiniteSet(Lost \cup {current})
      /\ Cardinality(Lost \cup {current}) = IF current \in Lost THEN Cardinality(Lost) ELSE Cardinality(Lost) + 1
  BY <1>4, FS_AddElement, Zenon
<1>6. Cardinality(Lost \cup {current}) <= kills + 1 /\ Cardinality(Lost \cup {current}) \in Nat
  BY <1>1, <1>4, <1>5
<1>7. IsFiniteSet(Lost') /\ Cardinality(Lost') <= Cardinality(Lost \cup {current}) /\ Cardinality(Lost') \in Nat
  BY <1>3, <1>5, FS_Subset, FS_CardinalityType
<1>8. ASSUME NEW a \in Nat, NEW b \in Nat, NEW c \in Nat, a <= b, b <= c PROVE a <= c
  BY <1>8
<1>9. Cardinality(Lost') <= kills + 1
  <2>1. kills + 1 \in Nat
    BY <1>1
  <2> QED
    BY <1>6, <1>7, <1>8, <2>1
<1> QED
  BY <1>1, <1>2, <1>7, <1>9 DEF AcknowledgedInv, LostByKills

\* A step of the broker that sends r, or nothing, and reads a packet, or none: it learns of
\* an acknowledgement only from the client's packets.
LEMMA BrokerStep ==
  ASSUME AcknowledgedInv, UNCHANGED clientVars, NEW r \in Seq(Packets),
         toSub' = toSub \/ toSub' = toSub \o r,
         toBroker' = toBroker \/ (toBroker # <<>> /\ toBroker' = Tail(toBroker)),
         \A i \in 1..Len(r) : r[i].type = "PUBREL" => r[i].msg \in Known',
         Known \subseteq Known', Known' \subseteq Acked,
         made' \in Nat, held' \in Nat, asked' \subseteq Nat, owed' \subseteq Nat, IsFiniteSet(owed'),
         unreleased' \subseteq Nat, IsFiniteSet(unreleased')
  PROVE  AcknowledgedInv'
<1>1. /\ toSub' \in Seq(Packets)
      /\ \A i \in 1..Len(toSub') :
           (i \in 1..Len(toSub) /\ toSub'[i] = toSub[i]) \/ \E j \in 1..Len(r) : toSub'[i] = r[j]
  <2>1. CASE toSub' = toSub
    BY <2>1 DEF AcknowledgedInv, SubType
  <2>2. CASE toSub' = toSub \o r
    BY <2>2, QueueType DEF AcknowledgedInv, SubType
  <2> QED
    BY <2>1, <2>2
<1>2. /\ toBroker' \in Seq(Packets)
      /\ \A i \in 1..Len(toBroker') : \E j \in 1..Len(toBroker) : toBroker'[i] = toBroker[j]
  <2>1. CASE toBroker' = toBroker
    BY <2>1 DEF AcknowledgedInv, SubType
  <2>2. CASE toBroker # <<>> /\ toBroker' = Tail(toBroker)
    <3>1. /\ toBroker' \in Seq(Packets)
          /\ \A i \in 1..Len(toBroker') : i + 1 \in 1..Len(toBroker) /\ toBroker'[i] = toBroker[i + 1]
      BY <2>2, QueueType DEF AcknowledgedInv, SubType
    <3> QED
      BY <3>1
  <2> QED
    BY <2>1, <2>2
<1>3. SubType'
  BY <1>1, <1>2 DEF AcknowledgedInv, SubType, clientVars
<1>4. Released'
  <2>1. ASSUME NEW i \in 1..Len(toSub'), toSub'[i].type = "PUBREL" PROVE toSub'[i].msg \in Known'
    BY <1>1, <2>1 DEF AcknowledgedInv, Released
  <2>2. ASSUME NEW i \in 1..Len(toBroker'), toBroker'[i].type = "PUBCOMP" PROVE toBroker'[i].msg \in Known'
    BY <1>2, <2>2 DEF AcknowledgedInv, Released
  <2> QED
    BY <2>1, <2>2 DEF Released
<1>5. ASSUME NEW x \in Acked' PROVE x \in Acked
  <2>1. CASE x \in Known'
    BY <2>1
  <2>2. ASSUME NEW i \in 1..Len(toBroker'), toBroker'[i].type \in Ackings, x = toBroker'[i].msg
        PROVE  x \in Acked
    BY <1>2, <2>2, AckedElements
  <2> QED
    BY <2>1, <2>2, AckedElementsNext
<1>6. Lost' \subseteq Lost
  BY <1>5 DEF Handled, Lost, clientVars
<1>7. LostByKills'
  BY <1>6, LostShrinks DEF AcknowledgedInv, SubType, clientVars
<1> QED
  BY <1>3, <1>4, <1>7 DEF AcknowledgedInv

\* The end of a connection empties the wire; the session stays, or is forgotten.
LEMMA EndSessionKeeps ==
  ASSUME AcknowledgedInv, EndSession, UNCHANGED <<clientVars, made, completed, asked>>
  PROVE  AcknowledgedInv'
<1>1. toSub' = <<>> /\ toBroker' = <<>>
  BY DEF EndSession
<1>2. /\ owed' \subseteq Nat /\ IsFiniteSet(owed') /\ unreleased' \subseteq unreleased
      /\ unreleased' \subseteq Nat /\ IsFiniteSet(unreleased') /\ held' \in Nat
  <2>1. CASE KeepsSession
    <3>1. UNCHANGED <<owed, unreleased, held>>
      BY <2>1 DEF EndSession
    <3> QED
      BY <3>1 DEF AcknowledgedInv, SubType
  <2>2. CASE ~KeepsSession
    <3>1. owed' = {} /\ unreleased' = {} /\ held' = 0
      BY <2>2 DEF EndSession
    <3> QED
      BY <3>1, FS_EmptySet
  <2> QED
    BY <2>1, <2>2
<1>3. SubType'
  BY <1>1, <1>2 DEF AcknowledgedInv, SubType, clientVars
<1>4. Released'
  BY <1>1 DEF Released
<1>5. Known' \subseteq Known
  BY <1>2 DEF Known
<1>6. ASSUME NEW x \in Acked' PROVE x \in Acked
  <2>1. x \in Known'
    BY <1>1, AckedElementsNext
  <2> QED
    BY <1>5, <2>1, AckedElements
<1>7. Lost' \subseteq Lost
  BY <1>6 DEF Handled, Lost, clientVars
<1>8. LostByKills'
  BY <1>7, LostShrinks DEF AcknowledgedInv, SubType, clientVars
<1> QED
  BY <1>3, <1>4, <1>8 DEF AcknowledgedInv

\* A sequence of one packet that is no PUBREL.
LEMMA OnePacket ==
  ASSUME NEW t \in {"CONNACK", "REFUSED", "SUBACK", "PUBLISH", "PUBACK", "PUBREC", "PUBCOMP", "DISCONNECT"},
         NEW m \in Nat
  PROVE  /\ <<Packet(t, m)>> \in Seq(Packets)
         /\ \A i \in 1..Len(<<Packet(t, m)>>) : <<Packet(t, m)>>[i].type # "PUBREL"
<1> DEFINE p == Packet(t, m)
<1>1. p \in Packets /\ p.type = t
  BY PacketType
<1> HIDE DEF p
<1>2. /\ <<p>> \in Seq(Packets)
      /\ \A i \in 1..Len(<<p>>) : <<p>>[i].type # "PUBREL"
  BY <1>1
<1> QED
  BY <1>2 DEF p

\* One more message is owed, or none.
LEMMA OwesOneMore ==
  ASSUME AcknowledgedInv, NEW m \in Nat, owed' = owed \/ owed' = owed \cup {m}
  PROVE  owed' \subseteq Nat /\ IsFiniteSet(owed')
BY FS_AddElement DEF AcknowledgedInv, SubType

\* Somebody publishes to the topic.
LEMMA PublishKeeps == ASSUME AcknowledgedInv, BrokerPublish PROVE AcknowledgedInv'
<1> DEFINE m == made + 1
           r == <<Packet("PUBLISH", m)>>
<1>1. m \in Nat
  BY DEF AcknowledgedInv, SubType
<1>2. r \in Seq(Packets) /\ \A i \in 1..Len(r) : r[i].type # "PUBREL"
  BY <1>1, OnePacket
<1>3. /\ made' = m /\ (owed' = owed \/ owed' = owed \cup {m}) /\ (toSub' = toSub \/ toSub' = toSub \o r)
      /\ UNCHANGED <<clientVars, toBroker, unreleased, completed, held, asked>>
  BY DEF BrokerPublish, Deliver, requestVars
<1> HIDE DEF r, m
<1>4. Known' = Known /\ Known \subseteq Acked
  BY <1>3 DEF Known, Acked
<1>5. owed' \subseteq Nat /\ IsFiniteSet(owed')
  BY <1>1, <1>3, OwesOneMore
<1>6. made' \in Nat /\ held' \in Nat /\ asked' \subseteq Nat /\ unreleased' \subseteq Nat /\ IsFiniteSet(unreleased')
  BY <1>1, <1>3 DEF AcknowledgedInv, SubType
<1> QED
  BY <1>2, <1>3, <1>4, <1>5, <1>6, BrokerStep

\* The responder answers.
LEMMA RespondKeeps == ASSUME AcknowledgedInv, Respond PROVE AcknowledgedInv'
<1>1. PICK q \in asked :
         /\ asked' = asked \ {q}
         /\ owed' = owed \/ owed' = owed \cup {Messages + q}
         /\ toSub' = toSub \/ toSub' = toSub \o <<Packet("PUBLISH", Messages + q)>>
  BY DEF Respond, Deliver
<1> DEFINE m == Messages + q
           r == <<Packet("PUBLISH", m)>>
<1>2. m \in Nat
  BY SubAssumption DEF AcknowledgedInv, SubType
<1>3. r \in Seq(Packets) /\ \A i \in 1..Len(r) : r[i].type # "PUBREL"
  BY <1>2, OnePacket
<1>4. /\ owed' = owed \/ owed' = owed \cup {m}
      /\ toSub' = toSub \/ toSub' = toSub \o r
      /\ UNCHANGED <<clientVars, toBroker, made, unreleased, completed, held>>
  BY <1>1 DEF Respond
<1> HIDE DEF r, m
<1>5. Known' = Known /\ Known \subseteq Acked
  BY <1>4 DEF Known, Acked
<1>6. owed' \subseteq Nat /\ IsFiniteSet(owed')
  BY <1>2, <1>4, OwesOneMore
<1>7. made' \in Nat /\ held' \in Nat /\ asked' \subseteq Nat /\ unreleased' \subseteq Nat /\ IsFiniteSet(unreleased')
  BY <1>1, <1>4 DEF AcknowledgedInv, SubType
<1> QED
  BY <1>3, <1>4, <1>5, <1>6, <1>7, BrokerStep

\* The broker drops the connection, with a DISCONNECT or without.
LEMMA DropKeeps == ASSUME AcknowledgedInv, BrokerDrops PROVE AcknowledgedInv'
<1> DEFINE p == Packet("DISCONNECT", 0)
           r == <<p>>
<1>1. r \in Seq(Packets) /\ \A i \in 1..Len(r) : r[i].type # "PUBREL"
  BY OnePacket
<1>2. (toSub' = toSub \/ toSub' = Append(toSub, p)) /\ UNCHANGED <<clientVars, toBroker, brokerVars>>
  BY DEF BrokerDrops
<1>3. p \in Packets
  BY PacketType
<1> HIDE DEF p
<1>4. toSub' = toSub \/ toSub' = toSub \o r
  BY <1>2, <1>3 DEF AcknowledgedInv, SubType
<1> HIDE DEF r
<1>5. Known' = Known /\ Known \subseteq Acked
  BY <1>2 DEF Known, Acked, brokerVars
<1>6. /\ made' \in Nat /\ held' \in Nat /\ asked' \subseteq Nat /\ unreleased' \subseteq Nat
      /\ IsFiniteSet(unreleased') /\ owed' \subseteq Nat /\ IsFiniteSet(owed')
  BY <1>2 DEF AcknowledgedInv, SubType, brokerVars, requestVars
<1> QED
  BY <1>1, <1>2, <1>4, <1>5, <1>6, BrokerStep

\* A CONNECT is answered, and a resumed session sends again what it holds.
LEMMA ConnectRead ==
  ASSUME AcknowledgedInv, toBroker # <<>>, toBroker' = Tail(toBroker), BrokerConnect,
         UNCHANGED <<clientVars, brokerVars>>
  PROVE  AcknowledgedInv'
<1>1. Known' = Known /\ Known \subseteq Acked /\ unreleased \subseteq Known
  BY DEF Known, Acked, brokerVars
<1>2. /\ made' \in Nat /\ held' \in Nat /\ asked' \subseteq Nat /\ unreleased' \subseteq Nat
      /\ IsFiniteSet(unreleased') /\ owed' \subseteq Nat /\ IsFiniteSet(owed')
  BY DEF AcknowledgedInv, SubType, brokerVars, requestVars
<1>3. ASSUME NEW r \in Seq(Packets), toSub' = toSub \o r,
             \A i \in 1..Len(r) : r[i].type = "PUBREL" => r[i].msg \in unreleased
      PROVE  AcknowledgedInv'
  BY <1>1, <1>2, <1>3, BrokerStep
<1>4. CASE toSub' = toSub \o (<<Packet("CONNACK", 0)>> \o Resend)
  <2> DEFINE a == <<Packet("CONNACK", 0)>>
  <2>1. a \in Seq(Packets) /\ \A i \in 1..Len(a) : a[i].type # "PUBREL"
    BY OnePacket
  <2>2. /\ Resend \in Seq(Packets)
        /\ \A i \in 1..Len(Resend) : Resend[i].type = "PUBREL" => Resend[i].msg \in unreleased
    BY ResendType DEF AcknowledgedInv
  <2>3. toSub' = toSub \o (a \o Resend)
    BY <1>4
  <2> HIDE DEF a
  <2>4. /\ a \o Resend \in Seq(Packets)
        /\ \A i \in 1..Len(a \o Resend) : \/ i \in 1..Len(a) /\ (a \o Resend)[i] = a[i]
                                          \/ \E j \in 1..Len(Resend) : (a \o Resend)[i] = Resend[j]
    BY <2>1, <2>2, QueueType
  <2>5. \A i \in 1..Len(a \o Resend) : (a \o Resend)[i].type = "PUBREL" => (a \o Resend)[i].msg \in unreleased
    BY <2>1, <2>2, <2>4
  <2> QED
    BY <1>3, <2>3, <2>4, <2>5
<1>5. CASE toSub' = toSub \o <<Packet("REFUSED", 0)>>
  <2> DEFINE a == <<Packet("REFUSED", 0)>>
  <2>1. a \in Seq(Packets) /\ \A i \in 1..Len(a) : a[i].type # "PUBREL"
    BY OnePacket
  <2>2. toSub' = toSub \o a
    BY <1>5
  <2> HIDE DEF a
  <2> QED
    BY <1>3, <2>1, <2>2
<1> QED
  BY <1>4, <1>5 DEF BrokerConnect, Deliver

\* A SUBSCRIBE is answered, perhaps after a retained message.
LEMMA SubscribeRead ==
  ASSUME AcknowledgedInv, toBroker # <<>>, toBroker' = Tail(toBroker), BrokerSubscribe,
         UNCHANGED <<clientVars, unreleased, completed, requestVars>>
  PROVE  AcknowledgedInv'
<1> DEFINE m == made + 1
<1>1. Known' = Known /\ Known \subseteq Acked
  BY DEF Known, Acked
<1>2. held' \in Nat /\ asked' \subseteq Nat /\ unreleased' \subseteq Nat /\ IsFiniteSet(unreleased')
  BY DEF AcknowledgedInv, SubType, requestVars
<1>3. m \in Nat /\ (made' = made \/ made' = m) /\ (owed' = owed \/ owed' = owed \cup {m})
  BY DEF BrokerSubscribe, AcknowledgedInv, SubType
<1>4. made' \in Nat
  BY <1>3 DEF AcknowledgedInv, SubType
<1>5. owed' \subseteq Nat /\ IsFiniteSet(owed')
  BY <1>3, OwesOneMore
<1>6. ASSUME NEW r \in Seq(Packets), toSub' = toSub \o r,
             \A i \in 1..Len(r) : r[i].type # "PUBREL"
      PROVE  AcknowledgedInv'
  BY <1>1, <1>2, <1>4, <1>5, <1>6, BrokerStep
<1>7. CASE \E t \in {"SUBACK", "REFUSED"} : toSub' = toSub \o <<Packet(t, 0)>>
  <2>1. PICK t \in {"SUBACK", "REFUSED"} : toSub' = toSub \o <<Packet(t, 0)>>
    BY <1>7
  <2> DEFINE a == <<Packet(t, 0)>>
  <2>2. a \in Seq(Packets) /\ \A i \in 1..Len(a) : a[i].type # "PUBREL"
    BY OnePacket
  <2>3. toSub' = toSub \o a
    BY <2>1
  <2> HIDE DEF a
  <2> QED
    BY <1>6, <2>2, <2>3
<1>8. CASE toSub' = toSub \o <<Packet("PUBLISH", m), Packet("SUBACK", 0)>>
  <2> DEFINE a == Packet("PUBLISH", m)
             b == Packet("SUBACK", 0)
             r == <<a, b>>
  <2>1. a \in Packets /\ a.type # "PUBREL" /\ b \in Packets /\ b.type # "PUBREL"
    BY <1>3, PacketType
  <2>2. toSub' = toSub \o r
    BY <1>8
  <2> HIDE DEF a, b
  <2>3. r \in Seq(Packets) /\ \A i \in 1..Len(r) : r[i].type # "PUBREL"
    BY <2>1
  <2> HIDE DEF r
  <2> QED
    BY <1>6, <2>2, <2>3
<1> QED
  BY <1>7, <1>8 DEF BrokerSubscribe, Deliver

\* A PUBACK, PUBREC or PUBCOMP: the broker learns what the client acknowledged.
LEMMA AckRead ==
  ASSUME AcknowledgedInv, toBroker # <<>>, toBroker' = Tail(toBroker),
         UNCHANGED <<clientVars, made, requestVars>>, NEW p, p = Head(toBroker),
         \/ /\ p.type = "PUBACK" /\ owed' = owed \ {p.msg} /\ completed' = completed \cup {p.msg}
            /\ UNCHANGED <<toSub, unreleased>>
         \/ /\ p.type = "PUBREC" /\ owed' = owed \ {p.msg} /\ unreleased' = unreleased \cup {p.msg}
            /\ toSub' = toSub \o <<Packet("PUBREL", p.msg)>> /\ UNCHANGED completed
         \/ /\ p.type = "PUBCOMP" /\ unreleased' = unreleased \ {p.msg} /\ completed' = completed \cup {p.msg}
            /\ UNCHANGED <<toSub, owed>>
  PROVE  AcknowledgedInv'
<1>1. p \in Packets /\ 1 \in 1..Len(toBroker) /\ p = toBroker[1]
  BY QueueType DEF AcknowledgedInv, SubType
<1>2. p.msg \in Nat
  BY <1>1 DEF Packets
<1>3. p.msg \in Acked
  <2>1. CASE p.type = "PUBCOMP"
    BY <1>1, <2>1, AckedElements DEF AcknowledgedInv, Released
  <2>2. CASE p.type \in Ackings
    BY <1>1, <2>2, AckedElements
  <2> QED
    BY <2>1, <2>2 DEF Ackings
<1>4. Known' = Known \cup {p.msg}
  <2>1. CASE p.type = "PUBACK"
    BY <2>1 DEF Known
  <2>2. CASE p.type = "PUBREC"
    BY <2>2 DEF Known
  <2>3. CASE p.type = "PUBCOMP"
    BY <2>3 DEF Known
  <2> QED
    BY <2>1, <2>2, <2>3
<1>5. Known' \subseteq Acked
  BY <1>3, <1>4 DEF Acked
<1>6. /\ made' \in Nat /\ held' \in Nat /\ asked' \subseteq Nat
      /\ owed' \subseteq Nat /\ IsFiniteSet(owed') /\ unreleased' \subseteq Nat /\ IsFiniteSet(unreleased')
  <2>1. IsFiniteSet(owed) /\ owed \subseteq Nat /\ IsFiniteSet(unreleased) /\ unreleased \subseteq Nat
    BY DEF AcknowledgedInv, SubType
  <2>2. /\ IsFiniteSet(owed \ {p.msg}) /\ IsFiniteSet(unreleased \ {p.msg})
        /\ IsFiniteSet(unreleased \cup {p.msg})
    BY <2>1, FS_AddElement, FS_RemoveElement, Zenon
  <2>3. owed' = owed \/ owed' = owed \ {p.msg}
    OBVIOUS
  <2>4. unreleased' = unreleased \/ unreleased' = unreleased \ {p.msg} \/ unreleased' = unreleased \cup {p.msg}
    OBVIOUS
  <2>5. owed' \subseteq Nat /\ IsFiniteSet(owed')
    BY <2>1, <2>2, <2>3
  <2>6. unreleased' \subseteq Nat /\ IsFiniteSet(unreleased')
    BY <1>2, <2>1, <2>2, <2>4
  <2> QED
    BY <2>5, <2>6 DEF AcknowledgedInv, SubType, requestVars
<1> DEFINE x == Packet("PUBREL", p.msg)
           r == <<x>>
<1>7. x \in Packets /\ x.msg = p.msg
  BY <1>2, PacketType
<1>8. toSub' = toSub \/ toSub' = toSub \o r
  OBVIOUS
<1> HIDE DEF x
<1>9. r \in Seq(Packets) /\ \A i \in 1..Len(r) : r[i].msg \in Known'
  BY <1>4, <1>7
<1> HIDE DEF r
<1> QED
  BY <1>4, <1>5, <1>6, <1>8, <1>9, BrokerStep

\* The request and its release: the packets that answer them release no message.
LEMMA RequestRead ==
  ASSUME AcknowledgedInv, toBroker # <<>>, toBroker' = Tail(toBroker),
         BrokerRequest(Head(toBroker).msg) \/ BrokerRelease,
         UNCHANGED <<clientVars, made, owed, unreleased, completed>>
  PROVE  AcknowledgedInv'
<1>1. Head(toBroker) \in Packets
  BY QueueType DEF AcknowledgedInv, SubType
<1>2. Head(toBroker).msg \in Nat
  BY <1>1 DEF Packets
<1>3. Known' = Known /\ Known \subseteq Acked
  BY DEF Known, Acked
<1>4. held' \in Nat /\ asked' \subseteq Nat
  <2>1. CASE BrokerRequest(Head(toBroker).msg)
    BY <1>2, <2>1 DEF BrokerRequest, AcknowledgedInv, SubType, requestVars
  <2>2. CASE BrokerRelease
    BY <2>2 DEF BrokerRelease, AcknowledgedInv, SubType
  <2> QED
    BY <2>1, <2>2
<1>5. /\ made' \in Nat /\ unreleased' \subseteq Nat
      /\ IsFiniteSet(unreleased') /\ owed' \subseteq Nat /\ IsFiniteSet(owed')
  BY DEF AcknowledgedInv, SubType
<1>6. CASE toSub' = toSub \o <<>>
  <2>1. toSub' = toSub /\ <<>> \in Seq(Packets) /\ \A i \in 1..Len(<<>>) : FALSE
    BY <1>6 DEF AcknowledgedInv, SubType
  <2> QED
    BY <1>3, <1>4, <1>5, <2>1, BrokerStep
<1>7. ASSUME NEW t \in {"PUBACK", "PUBREC", "PUBCOMP"}, toSub' = toSub \o <<Packet(t, 0)>>
      PROVE  AcknowledgedInv'
  <2> DEFINE r == <<Packet(t, 0)>>
  <2>1. r \in Seq(Packets) /\ \A i \in 1..Len(r) : r[i].type # "PUBREL"
    BY OnePacket
  <2>2. toSub' = toSub \o r
    BY <1>7
  <2> HIDE DEF r
  <2> QED
    BY <1>3, <1>4, <1>5, <2>1, <2>2, BrokerStep
<1> QED
  BY <1>6, <1>7 DEF BrokerRequest, BrokerRelease, Deliver

\* The broker reads a packet.
LEMMA BrokerReadKeeps == ASSUME AcknowledgedInv, BrokerRead PROVE AcknowledgedInv'
<1> DEFINE p == Head(toBroker)
<1>1. toBroker # <<>> /\ UNCHANGED clientVars
  BY DEF BrokerRead
<1>2. CASE p.type = "CONNECT"
  BY <1>1, <1>2, ConnectRead DEF BrokerRead
<1>3. CASE p.type = "SUBSCRIBE"
  BY <1>1, <1>3, SubscribeRead DEF BrokerRead
<1>4. CASE p.type \in {"PUBACK", "PUBREC", "PUBCOMP"}
  BY <1>1, <1>4, AckRead DEF BrokerRead, Deliver
<1>5. CASE p.type = "DISCONNECT"
  BY <1>1, <1>5, EndSessionKeeps DEF BrokerRead
<1>6. CASE p.type \in {"REQUEST", "PUBREL"}
  BY <1>1, <1>6, RequestRead DEF BrokerRead
<1> QED
  BY <1>2, <1>3, <1>4, <1>5, <1>6 DEF BrokerRead

-----------------------------------------------------------------------------
\* No run has started.
LEMMA AcknowledgedInit == Init => AcknowledgedInv
<1> SUFFICES ASSUME Init PROVE AcknowledgedInv
  OBVIOUS
<1>1. SubType
  BY FS_EmptySet DEF Init, SubType
<1>2. Released
  BY DEF Init, Released
<1>3. Lost = {}
  BY AckedElements DEF Init, Known, Lost
<1>4. LostByKills
  BY <1>3, FS_EmptySet DEF Init, LostByKills
<1> QED
  BY <1>1, <1>2, <1>4 DEF AcknowledgedInv

\* Every step of the command, of the broker and of the responder.
LEMMA AcknowledgedNext == ASSUME AcknowledgedInv, [Next]_vars PROVE AcknowledgedInv'
<1>1. CASE Command
  BY <1>1, ConnectedKeeps, WaitSubackKeeps, SendRequestKeeps, ReadOwnAckKeeps, AcknowledgeKeeps,
     PrintKeeps, EndKeeps, ReleaseKeeps DEF Command
<1>2. CASE BrokerRead
  BY <1>2, BrokerReadKeeps
<1>3. CASE ConnectionEnds
  BY <1>3, EndSessionKeeps DEF ConnectionEnds
<1>4. CASE UNCHANGED vars
  <2>1. UNCHANGED <<clientVars, toSub, toBroker, brokerVars>>
    BY <1>4 DEF vars, clientVars, brokerVars, requestVars
  <2>2. SubType' /\ Released' /\ Acked' = Acked
    BY <2>1 DEF AcknowledgedInv, SubType, Released, Acked, Known, clientVars, brokerVars, requestVars
  <2>3. Lost' \subseteq Lost
    BY <2>1, <2>2 DEF Handled, Lost, clientVars
  <2>4. LostByKills'
    BY <2>1, <2>3, LostShrinks DEF AcknowledgedInv, SubType, clientVars
  <2> QED
    BY <2>2, <2>4 DEF AcknowledgedInv
<1> QED
  BY <1>1, <1>2, <1>3, <1>4, StartKeeps, KillKeeps, PublishKeeps, RespondKeeps, DropKeeps DEF Next, Finished

\* The loop acknowledges before it prints: what the broker takes for acknowledged was printed,
\* or is about to be, but for one message for every kill.
THEOREM AcknowledgedArePrinted == Spec => []CompletedIsPrinted
<1>1. AcknowledgedInv /\ [Next]_vars => AcknowledgedInv'
  BY AcknowledgedNext
<1>2. ASSUME AcknowledgedInv PROVE CompletedIsPrinted
  <2> DEFINE C == Known \ Handled
  <2>1. IsFiniteSet(Lost) /\ Cardinality(Lost) <= kills /\ Cardinality(Lost) \in Nat /\ kills \in Nat
    BY <1>2, FS_CardinalityType DEF AcknowledgedInv, LostByKills, SubType
  <2>2. /\ IsFiniteSet(Lost \cup {current})
        /\ \/ Cardinality(Lost \cup {current}) = Cardinality(Lost)
           \/ Cardinality(Lost \cup {current}) = Cardinality(Lost) + 1
    BY <2>1, FS_AddElement, Zenon
  <2>3. CASE cpc = "print"
    <3>1. C \subseteq Lost \cup {current}
      BY <2>3 DEF Lost, Acked
    <3>2. Cardinality(C) <= Cardinality(Lost \cup {current}) /\ Cardinality(C) \in Nat
      BY <2>2, <3>1, FS_Subset, FS_CardinalityType
    <3>3. Cardinality(C) <= kills + 1
      BY <2>1, <2>2, <3>2
    <3> QED
      BY <2>3, <3>3 DEF CompletedIsPrinted, Known
  <2>4. CASE cpc # "print"
    <3>1. C \subseteq Lost
      BY <2>4 DEF Lost, Acked
    <3>2. Cardinality(C) <= Cardinality(Lost) /\ Cardinality(C) \in Nat
      BY <2>1, <3>1, FS_Subset, FS_CardinalityType
    <3>3. Cardinality(C) <= kills + 0
      BY <2>1, <3>2
    <3> QED
      BY <2>4, <3>3 DEF CompletedIsPrinted, Known
  <2> QED
    BY <2>3, <2>4
<1> QED
  BY <1>1, <1>2, AcknowledgedInit, PTL DEF Spec
==============================================================================
