------------------------ MODULE BenchSubscriber_proofs ------------------------
(***************************************************************************)
(* Machine-checked proofs about BenchSubscriber, for any number of         *)
(* deliveries, any QoS, any foreign payloads and any time.                 *)
(***************************************************************************)
EXTENDS BenchSubscriber, FiniteSetTheorems, TLAPS

Payloads == [len : Int, stamp : Nat \cup {Huge}]
Packets == [type : {"SUBACK", "REFUSED", "PUBLISH", "PUBREL", "DISCONNECT", "PUBACK", "PUBREC", "PUBCOMP"},
            id : Nat, qos : Nat, payload : Payloads]

\* The streams and the books of the task have their types.
StreamsOK ==
    /\ toSub \in Seq(Packets) /\ toBroker \in Seq(Packets)
    /\ now \in Nat /\ delivered \in Nat
    /\ received \subseteq 1..delivered
    /\ samples \in Seq(Nat \X Int)

\* A message is on its way once, and not any more when it is counted; a PUBREL is of a
\* counted message.
OnItsWay ==
    /\ \A i \in 1..Len(toSub) :
         /\ toSub[i].type = "PUBLISH" => toSub[i].id \in (1..delivered) \ received
         /\ toSub[i].type = "PUBREL" => toSub[i].id \in received
    /\ \A i, j \in 1..Len(toSub) :
         toSub[i].type = "PUBLISH" /\ toSub[j].type = "PUBLISH" /\ toSub[i].id = toSub[j].id => i = j

\* What the task answers is of counted messages.
AnswersCounted == \A i \in 1..Len(toBroker) : toBroker[i].id \in received

\* The samples, over their indices.
SamplesOK ==
    \A i \in 1..Len(samples) :
      /\ samples[i][1] \in received
      /\ \A j \in 1..Len(samples) : samples[i][1] = samples[j][1] => i = j
      /\ samples[i][2] \in 0..(now - Warmup)

SubscriberInv == StreamsOK /\ OnItsWay /\ AnswersCounted /\ SamplesOK

-----------------------------------------------------------------------------
(***************************************************************************)
(* The operators.                                                          *)
(***************************************************************************)

\* payload::build never makes a payload shorter than its header.
LEMMA BuildLengthType == BuildLength(PayloadSize) \in Nat /\ BuildLength(PayloadSize) >= HEADER_LEN
<1> DEFINE S == {PayloadSize, HEADER_LEN}
<1>1. PayloadSize \in Nat /\ HEADER_LEN \in Nat
  BY SubscriberAssumption DEF HEADER_LEN
<1>2. \E x \in S : \A y \in S : x >= y
  <2>1. CASE PayloadSize >= HEADER_LEN
    BY <1>1, <2>1
  <2>2. CASE HEADER_LEN >= PayloadSize
    BY <1>1, <2>2
  <2> QED
    BY <1>1, <2>1, <2>2
<1>3. Max(S) \in S /\ \A y \in S : Max(S) >= y
  <2>1. Max(S) = CHOOSE x \in S : \A y \in S : x >= y
    BY DEF Max
  <2> HIDE DEF S
  <2> QED
    BY <1>2, <2>1, Zenon
<1> QED
  BY <1>1, <1>3 DEF BuildLength

\* A set of at most one element makes a sequence of at most one.
LEMMA SmallSetToSeq == /\ SetToSeq({}) = <<>>
                       /\ \A x : SetToSeq({x}) = <<x>>
<1>1. SetToSeq({}) = <<>>
  <2> DEFINE F == [1..Cardinality({}) -> {}]
  <2>1. Cardinality({}) = 0
    BY FS_EmptySet
  <2>2. <<>> \in F /\ IsInjective(<<>>)
    BY <2>1 DEF IsInjective
  <2>3. \A f \in F : f = <<>>
    BY <2>1
  <2>4. SetToSeq({}) = CHOOSE f \in F : IsInjective(f)
    BY DEF SetToSeq
  <2> HIDE DEF F
  <2> QED
    BY <2>2, <2>3, <2>4, Zenon
<1>2. ASSUME NEW x PROVE SetToSeq({x}) = <<x>>
  <2> DEFINE F == [1..Cardinality({x}) -> {x}]
  <2>1. Cardinality({x}) = 1
    BY FS_Singleton
  <2>2. <<x>> \in F /\ IsInjective(<<x>>)
    BY <2>1 DEF IsInjective
  <2>3. \A f \in F : f = <<x>>
    BY <2>1
  <2>4. SetToSeq({x}) = CHOOSE f \in F : IsInjective(f)
    BY DEF SetToSeq
  <2> HIDE DEF F
  <2> QED
    BY <2>2, <2>3, <2>4, Zenon
<1> QED
  BY <1>1, <1>2

\* checked_add and the two comparisons: a message gives one sample at most, and one of the
\* measuring part of the run.
LEMMA TimedType ==
  ASSUME StreamsOK, NEW p \in Packets
  PROVE  \/ Timed(p) = <<>>
         \/ \E d \in 0..(now - Warmup) : Timed(p) = <<<<p.id, d>>>>
<1> DEFINE T == {t \in Decode(p.payload) : Measured(t)}
           X == {<<p.id, now - t>> : t \in T}
<1>1. Timed(p) = SetToSeq(X)
  BY DEF Timed
<1>2. p.payload.stamp \in Nat \cup {Huge} /\ now \in Nat /\ Warmup \in Nat
  BY SubscriberAssumption DEF Packets, Payloads, StreamsOK
<1>3. T = {} \/ (T = {p.payload.stamp} /\ Measured(p.payload.stamp))
  BY DEF Decode
<1>4. CASE T = {}
  <2>1. X = {}
    BY <1>4
  <2> QED
    BY <1>1, <2>1, SmallSetToSeq
<1>5. CASE T = {p.payload.stamp} /\ Measured(p.payload.stamp)
  <2>1. X = {<<p.id, now - p.payload.stamp>>}
    BY <1>5
  <2>2. Timed(p) = <<<<p.id, now - p.payload.stamp>>>>
    BY <1>1, <2>1, SmallSetToSeq
  <2>3. now - p.payload.stamp \in 0..(now - Warmup)
    BY <1>2, <1>5 DEF Measured
  <2> QED
    BY <2>2, <2>3
<1> QED
  BY <1>3, <1>4, <1>5

\* Taking from a queue and adding to it.
LEMMA QueueType ==
  ASSUME NEW S, NEW q \in Seq(S)
  PROVE  /\ Len(q) \in Nat /\ DOMAIN q = 1..Len(q) /\ \A i \in 1..Len(q) : q[i] \in S
         /\ q # <<>> => /\ Head(q) \in S /\ Head(q) = q[1] /\ Tail(q) \in Seq(S) /\ 1 \in 1..Len(q)
                        /\ Len(Tail(q)) = Len(q) - 1
                        /\ \A i \in 1..Len(Tail(q)) : i + 1 \in 1..Len(q) /\ i + 1 # 1 /\ Tail(q)[i] = q[i + 1]
         /\ \A x \in S : /\ Append(q, x) \in Seq(S) /\ q \o <<x>> = Append(q, x)
                          /\ \A i \in 1..Len(Append(q, x)) :
                               \/ i \in 1..Len(q) /\ Append(q, x)[i] = q[i]
                               \/ i = Len(q) + 1 /\ Append(q, x)[i] = x
OBVIOUS

\* What the task and the broker write.
LEMMA ReplyType ==
  ASSUME NEW id \in Nat,
         NEW t \in {"SUBACK", "REFUSED", "PUBREL", "DISCONNECT", "PUBACK", "PUBREC", "PUBCOMP"}
  PROVE  Reply(t, id) \in Packets /\ Reply(t, id).type = t /\ Reply(t, id).id = id
BY DEF Reply, Packet, Packets, Payloads

-----------------------------------------------------------------------------
(***************************************************************************)
(* The steps.                                                              *)
(***************************************************************************)

\* Nothing is under way before the SUBSCRIBE is answered.
LEMMA SubscriberInit == Init => SubscriberInv
BY DEF Init, SubscriberInv, StreamsOK, OnItsWay, AnswersCounted, SamplesOK

\* Steps that touch no stream and no book; time may pass.
LEMMA IdleKeeps ==
  ASSUME SubscriberInv, UNCHANGED <<received, samples, toSub, toBroker, delivered>>, now' \in {now, now + 1}
  PROVE  SubscriberInv'
<1>1. now \in Nat /\ now' \in Nat /\ now' >= now /\ Warmup \in Nat
  BY SubscriberAssumption DEF SubscriberInv, StreamsOK
<1>2. \A x : x \in 0..(now - Warmup) => x \in 0..(now' - Warmup)
  <2>1. ASSUME NEW a \in Nat, NEW b \in Nat, NEW w \in Nat, a <= b, NEW x \in 0..(a - w)
        PROVE  x \in 0..(b - w)
    BY <2>1
  <2> QED
    BY <1>1, <2>1
<1>3. StreamsOK' /\ OnItsWay' /\ AnswersCounted'
  BY <1>1 DEF SubscriberInv, StreamsOK, OnItsWay, AnswersCounted
<1>4. SamplesOK'
  BY <1>2 DEF SubscriberInv, SamplesOK
<1> QED
  BY <1>3, <1>4 DEF SubscriberInv

\* A packet is read, whatever becomes of it.
LEMMA ReadStream ==
  ASSUME SubscriberInv, toSub # <<>>, toSub' = Tail(toSub), delivered' = delivered,
         \/ received' = received
         \/ Head(toSub).type = "PUBLISH" /\ received' = received \cup {Head(toSub).id}
  PROVE  /\ toSub' \in Seq(Packets) /\ OnItsWay' /\ received' \subseteq 1..delivered /\ Head(toSub) \in Packets
         /\ Head(toSub).type = "PUBLISH" => Head(toSub).id \notin received
         /\ Head(toSub).type = "PUBREL" => Head(toSub).id \in received
<1>1. /\ toSub' \in Seq(Packets) /\ Head(toSub) \in Packets /\ Head(toSub) = toSub[1] /\ 1 \in 1..Len(toSub)
      /\ \A i \in 1..Len(toSub') : i + 1 \in 1..Len(toSub) /\ i + 1 # 1 /\ toSub'[i] = toSub[i + 1]
      /\ \A i \in 1..Len(toSub') : i \in Nat
  BY QueueType DEF SubscriberInv, StreamsOK
<1>2. /\ \A i \in 1..Len(toSub) :
            /\ toSub[i].type = "PUBLISH" => toSub[i].id \in (1..delivered) \ received
            /\ toSub[i].type = "PUBREL" => toSub[i].id \in received
      /\ \A i, j \in 1..Len(toSub) :
            toSub[i].type = "PUBLISH" /\ toSub[j].type = "PUBLISH" /\ toSub[i].id = toSub[j].id => i = j
      /\ received \subseteq 1..delivered
  BY DEF SubscriberInv, StreamsOK, OnItsWay
<1>3. ASSUME NEW i \in 1..Len(toSub'), toSub'[i].type = "PUBLISH"
      PROVE  toSub'[i].id \in (1..delivered) \ received'
  <2>1. CASE received' = received
    BY <1>1, <1>2, <1>3, <2>1
  <2>2. CASE Head(toSub).type = "PUBLISH" /\ received' = received \cup {Head(toSub).id}
    BY <1>1, <1>2, <1>3, <2>2
  <2> QED
    BY <2>1, <2>2
<1>4. ASSUME NEW i \in 1..Len(toSub'), toSub'[i].type = "PUBREL" PROVE toSub'[i].id \in received'
  BY <1>1, <1>2, <1>4
<1>5. ASSUME NEW i \in 1..Len(toSub'), NEW j \in 1..Len(toSub'),
             toSub'[i].type = "PUBLISH", toSub'[j].type = "PUBLISH", toSub'[i].id = toSub'[j].id
      PROVE  i = j
  <2>1. i + 1 = j + 1
    BY <1>1, <1>2, <1>5
  <2> QED
    BY <1>1, <2>1
<1>6. OnItsWay'
  BY <1>3, <1>4, <1>5 DEF OnItsWay
<1>7. received' \subseteq 1..delivered
  <2>1. Head(toSub).type = "PUBLISH" => Head(toSub).id \in 1..delivered
    BY <1>1, <1>2
  <2>2. CASE received' = received
    BY <1>2, <2>2
  <2>3. CASE Head(toSub).type = "PUBLISH" /\ received' = received \cup {Head(toSub).id}
    BY <1>2, <2>1, <2>3
  <2> QED
    BY <2>2, <2>3
<1> QED
  BY <1>1, <1>2, <1>6, <1>7

\* A packet is added to the stream of the task.
LEMMA StreamGrows ==
  ASSUME SubscriberInv, NEW p \in Packets, toSub' = Append(toSub, p), received' = received,
         delivered' \in Nat, delivered' >= delivered,
         p.type = "PUBLISH" => p.id = delivered + 1 /\ delivered' = delivered + 1,
         p.type = "PUBREL" => p.id \in received
  PROVE  toSub' \in Seq(Packets) /\ OnItsWay' /\ received' \subseteq 1..delivered'
<1>1. /\ toSub' \in Seq(Packets) /\ Len(toSub) \in Nat
      /\ \A i \in 1..Len(toSub') : \/ i \in 1..Len(toSub) /\ toSub'[i] = toSub[i]
                                   \/ i = Len(toSub) + 1 /\ toSub'[i] = p
  BY QueueType DEF SubscriberInv, StreamsOK
<1>2. /\ \A i \in 1..Len(toSub) :
            /\ toSub[i].type = "PUBLISH" => toSub[i].id \in (1..delivered) \ received
            /\ toSub[i].type = "PUBREL" => toSub[i].id \in received
      /\ \A i, j \in 1..Len(toSub) :
            toSub[i].type = "PUBLISH" /\ toSub[j].type = "PUBLISH" /\ toSub[i].id = toSub[j].id => i = j
      /\ received \subseteq 1..delivered /\ delivered \in Nat
  BY DEF SubscriberInv, StreamsOK, OnItsWay
<1>3. /\ \A x : x \in 1..delivered => x \in 1..delivered' /\ x # delivered + 1
      /\ p.type = "PUBLISH" => p.id \in (1..delivered') \ received
  <2>1. \A x : x \in 1..delivered => x \in 1..delivered' /\ x # delivered + 1
    BY <1>2
  <2>2. p.type = "PUBLISH" => p.id \in 1..delivered'
    BY <1>2
  <2> QED
    BY <1>2, <2>1, <2>2
<1>4. ASSUME NEW i \in 1..Len(toSub')
      PROVE  /\ toSub'[i].type = "PUBLISH" => toSub'[i].id \in (1..delivered') \ received'
             /\ toSub'[i].type = "PUBREL" => toSub'[i].id \in received'
  BY <1>1, <1>2, <1>3
<1>5. ASSUME NEW i \in 1..Len(toSub'), NEW j \in 1..Len(toSub'),
             toSub'[i].type = "PUBLISH", toSub'[j].type = "PUBLISH", toSub'[i].id = toSub'[j].id
      PROVE  i = j
  BY <1>1, <1>2, <1>3, <1>5
<1>6. OnItsWay'
  BY <1>4, <1>5 DEF OnItsWay
<1> QED
  BY <1>1, <1>2, <1>3, <1>6

\* write_packet: an answer of a counted message, or nothing.
LEMMA AnswerSent ==
  ASSUME SubscriberInv, NEW id \in Nat, NEW t \in {"PUBACK", "PUBREC", "PUBCOMP"}, id \in received',
         received \subseteq received', Send(Reply(t, id)) \/ UNCHANGED toBroker
  PROVE  toBroker' \in Seq(Packets) /\ AnswersCounted'
<1> DEFINE p == Reply(t, id)
<1>1. p \in Packets /\ p.id = id
  BY ReplyType
<1>2. Send(p) \/ UNCHANGED toBroker
  OBVIOUS
<1> HIDE DEF p
<1>3. toBroker' = toBroker \/ toBroker' = Append(toBroker, p)
  BY <1>2 DEF Send
<1>4. toBroker \in Seq(Packets) /\ \A i \in 1..Len(toBroker) : toBroker[i].id \in received
  BY DEF SubscriberInv, StreamsOK, AnswersCounted
<1>5. CASE toBroker' = toBroker
  BY <1>4, <1>5 DEF AnswersCounted
<1>6. CASE toBroker' = Append(toBroker, p)
  <2>1. /\ toBroker' \in Seq(Packets)
        /\ \A i \in 1..Len(toBroker') : \/ i \in 1..Len(toBroker) /\ toBroker'[i] = toBroker[i]
                                        \/ i = Len(toBroker) + 1 /\ toBroker'[i] = p
    BY <1>1, <1>4, <1>6, QueueType
  <2> QED
    BY <1>1, <1>4, <2>1 DEF AnswersCounted
<1> QED
  BY <1>3, <1>5, <1>6

\* The wait for the SUBACK.
LEMMA WaitSubackKeeps == ASSUME SubscriberInv, WaitSuback PROVE SubscriberInv'
<1>1. /\ toSub # <<>> /\ toSub' = Tail(toSub)
      /\ UNCHANGED <<received, samples, toBroker, delivered, now>>
  BY DEF WaitSuback, brokerVars
<1>2. toSub' \in Seq(Packets) /\ OnItsWay'
  BY <1>1, ReadStream
<1> QED
  BY <1>1, <1>2 DEF SubscriberInv, StreamsOK, AnswersCounted, SamplesOK

\* The sample of a message just counted is its only one.
LEMMA SampleAdded ==
  ASSUME SubscriberInv, NEW p \in Packets, p.id \notin received, received' = received \cup {p.id},
         samples' = samples \o Timed(p), now' = now
  PROVE  samples' \in Seq(Nat \X Int) /\ SamplesOK'
<1>1. samples \in Seq(Nat \X Int) /\ StreamsOK
  BY DEF SubscriberInv, StreamsOK
<1>2. \A i \in 1..Len(samples) :
        /\ samples[i][1] \in received
        /\ \A j \in 1..Len(samples) : samples[i][1] = samples[j][1] => i = j
        /\ samples[i][2] \in 0..(now - Warmup)
  BY DEF SubscriberInv, SamplesOK
<1>3. CASE Timed(p) = <<>>
  <2>1. samples' = samples
    BY <1>1, <1>3
  <2> QED
    BY <1>1, <1>2, <2>1 DEF SamplesOK
<1>4. ASSUME NEW d \in 0..(now - Warmup), Timed(p) = <<<<p.id, d>>>>
      PROVE  samples' \in Seq(Nat \X Int) /\ SamplesOK'
  <2> DEFINE x == <<p.id, d>>
  <2>1. x \in Nat \X Int /\ x[1] = p.id /\ x[2] = d
    BY <1>1, SubscriberAssumption DEF Packets, StreamsOK
  <2>2. samples' = samples \o <<x>>
    BY <1>4
  <2> HIDE DEF x
  <2>3. /\ samples' \in Seq(Nat \X Int)
        /\ \A i \in 1..Len(samples') : \/ i \in 1..Len(samples) /\ samples'[i] = samples[i]
                                       \/ i = Len(samples) + 1 /\ samples'[i] = x
    BY <1>1, <2>1, <2>2, QueueType
  <2>4. ASSUME NEW i \in 1..Len(samples')
        PROVE  /\ samples'[i][1] \in received'
               /\ \A j \in 1..Len(samples') : samples'[i][1] = samples'[j][1] => i = j
               /\ samples'[i][2] \in 0..(now' - Warmup)
    <3>1. samples'[i][1] \in received' /\ samples'[i][2] \in 0..(now' - Warmup)
      BY <1>2, <2>1, <2>3
    <3>2. ASSUME NEW j \in 1..Len(samples'), samples'[i][1] = samples'[j][1] PROVE i = j
      <4>1. CASE i \in 1..Len(samples) /\ samples'[i] = samples[i]
        <5>1. samples'[i][1] \in received
          BY <1>2, <4>1
        <5>2. j \in 1..Len(samples) /\ samples'[j] = samples[j]
          BY <2>1, <2>3, <3>2, <5>1
        <5> QED
          BY <1>2, <3>2, <4>1, <5>2
      <4>2. CASE i = Len(samples) + 1 /\ samples'[i] = x
        <5>1. samples'[j][1] \notin received
          BY <2>1, <3>2, <4>2
        <5>2. ~(j \in 1..Len(samples) /\ samples'[j] = samples[j])
          BY <1>2, <5>1
        <5> QED
          BY <2>3, <4>2, <5>2
      <4> QED
        BY <2>3, <4>1, <4>2
    <3> QED
      BY <3>1, <3>2
  <2> QED
    BY <2>3, <2>4 DEF SamplesOK
<1> QED
  BY <1>1, <1>3, <1>4, TimedType

\* A PUBLISH is counted, timed and acknowledged.
LEMMA ReadPublishKeeps == ASSUME SubscriberInv, ReadPublish PROVE SubscriberInv'
<1> DEFINE p == Head(toSub)
<1>1. /\ toSub # <<>> /\ toSub' = Tail(toSub) /\ p.type = "PUBLISH"
      /\ received' = received \cup {p.id} /\ samples' = samples \o Timed(p)
      /\ UNCHANGED <<delivered, now>>
  BY DEF ReadPublish, brokerVars
<1>2. /\ toSub' \in Seq(Packets) /\ OnItsWay' /\ received' \subseteq 1..delivered
      /\ p \in Packets /\ p.id \notin received
  BY <1>1, ReadStream
<1>3. samples' \in Seq(Nat \X Int) /\ SamplesOK'
  BY <1>1, <1>2, SampleAdded
<1>4. \/ UNCHANGED toBroker
      \/ Send(Reply("PUBACK", p.id)) \/ Send(Reply("PUBREC", p.id))
  <2>1. CASE p.qos = 0
    BY <2>1, Zenon DEF ReadPublish
  <2>2. CASE p.qos > 0
    <3>1. p.qos # 0
      BY <1>2, <2>2 DEF Packets
    <3>2. \/ Send(Reply(IF p.qos = 1 THEN "PUBACK" ELSE "PUBREC", p.id))
          \/ UNCHANGED toBroker
      BY <2>2, <3>1 DEF ReadPublish
    <3> QED
      BY <3>2
  <2>3. p.qos = 0 \/ p.qos > 0
    BY <1>2 DEF Packets
  <2> QED
    BY <2>1, <2>2, <2>3
<1>5. p.id \in Nat /\ p.id \in received' /\ received \subseteq received'
  BY <1>1, <1>2 DEF Packets
<1>6. toBroker' \in Seq(Packets) /\ AnswersCounted'
  BY <1>4, <1>5, AnswerSent
<1> QED
  BY <1>1, <1>2, <1>3, <1>6 DEF SubscriberInv, StreamsOK

\* A PUBREL is answered by a PUBCOMP.
LEMMA ReadPubrelKeeps == ASSUME SubscriberInv, ReadPubrel PROVE SubscriberInv'
<1> DEFINE p == Head(toSub)
<1>1. /\ toSub # <<>> /\ toSub' = Tail(toSub) /\ p.type = "PUBREL"
      /\ UNCHANGED <<received, samples, delivered, now>>
      /\ UNCHANGED toBroker \/ Send(Reply("PUBCOMP", p.id))
  BY DEF ReadPubrel, brokerVars
<1>2. toSub' \in Seq(Packets) /\ OnItsWay' /\ p \in Packets /\ p.id \in received
  BY <1>1, ReadStream
<1>3. p.id \in Nat /\ p.id \in received' /\ received \subseteq received'
  BY <1>1, <1>2 DEF Packets
<1>4. toBroker' \in Seq(Packets) /\ AnswersCounted'
  BY <1>1, <1>3, AnswerSent
<1> QED
  BY <1>1, <1>2, <1>4 DEF SubscriberInv, StreamsOK, SamplesOK

\* The broker grants or refuses the subscription, or goes.
LEMMA BrokerSaysKeeps ==
  ASSUME SubscriberInv, NEW t \in {"SUBACK", "REFUSED", "DISCONNECT"}, toSub' = Append(toSub, Reply(t, 0)),
         UNCHANGED <<received, samples, toBroker, delivered, now>>
  PROVE  SubscriberInv'
<1> DEFINE p == Reply(t, 0)
<1>1. p \in Packets /\ p.type = t
  BY ReplyType
<1>2. toSub' = Append(toSub, p) /\ delivered \in Nat
  BY DEF SubscriberInv, StreamsOK
<1> HIDE DEF p
<1>3. toSub' \in Seq(Packets) /\ OnItsWay'
  BY <1>1, <1>2, StreamGrows
<1> QED
  BY <1>3 DEF SubscriberInv, StreamsOK, AnswersCounted, SamplesOK

\* The broker delivers a message once.
LEMMA BrokerDeliverKeeps == ASSUME SubscriberInv, BrokerDeliver PROVE SubscriberInv'
<1>1. PICK qos \in 0..QoS, payload \in OwnPayloads \cup Foreign :
        toSub' = Append(toSub, Packet("PUBLISH", delivered + 1, qos, payload))
  BY DEF BrokerDeliver
<1>2. delivered' = delivered + 1 /\ UNCHANGED <<received, samples, toBroker, now>> /\ delivered \in Nat /\ now \in Nat
  BY DEF BrokerDeliver, SubscriberInv, StreamsOK
<1>3. payload \in Payloads
  <2>1. CASE payload \in OwnPayloads
    <3>1. BuildLength(PayloadSize) \in Int
      BY BuildLengthType
    <3> QED
      BY <1>2, <2>1, <3>1 DEF OwnPayloads, Payloads
  <2>2. CASE payload \in Foreign
    <3>1. payload \in [len : Nat, stamp : Nat \cup {Huge}]
      BY <2>2, SubscriberAssumption
    <3> QED
      BY <3>1 DEF Payloads
  <2> QED
    BY <2>1, <2>2
<1> DEFINE p == Packet("PUBLISH", delivered + 1, qos, payload)
<1>4. p \in Packets /\ p.type = "PUBLISH" /\ p.id = delivered + 1
  BY <1>2, <1>3, SubscriberAssumption DEF Packet, Packets
<1>5. toSub' = Append(toSub, p)
  BY <1>1
<1> HIDE DEF p
<1>6. toSub' \in Seq(Packets) /\ OnItsWay' /\ received' \subseteq 1..delivered'
  BY <1>2, <1>4, <1>5, StreamGrows
<1> QED
  BY <1>2, <1>6 DEF SubscriberInv, StreamsOK, AnswersCounted, SamplesOK

\* The broker reads an answer of the task.
LEMMA BrokerReadKeeps == ASSUME SubscriberInv, BrokerRead PROVE SubscriberInv'
<1>1. /\ toBroker # <<>> /\ toBroker' = Tail(toBroker)
      /\ UNCHANGED <<received, samples, delivered, now>>
      /\ toSub' = toSub \/ toSub' = Append(toSub, Reply("PUBREL", Head(toBroker).id))
  BY DEF BrokerRead
<1>2. /\ toBroker' \in Seq(Packets) /\ Head(toBroker) \in Packets /\ Head(toBroker) = toBroker[1]
      /\ 1 \in 1..Len(toBroker)
      /\ \A i \in 1..Len(toBroker') : i + 1 \in 1..Len(toBroker) /\ toBroker'[i] = toBroker[i + 1]
  BY <1>1, QueueType DEF SubscriberInv, StreamsOK
<1>3. AnswersCounted' /\ Head(toBroker).id \in received /\ Head(toBroker).id \in Nat /\ delivered \in Nat
  BY <1>1, <1>2 DEF SubscriberInv, AnswersCounted, Packets, StreamsOK
<1>4. toSub' \in Seq(Packets) /\ OnItsWay'
  <2>1. CASE toSub' = toSub
    BY <1>1, <2>1 DEF SubscriberInv, StreamsOK, OnItsWay
  <2>2. CASE toSub' = Append(toSub, Reply("PUBREL", Head(toBroker).id))
    <3> DEFINE p == Reply("PUBREL", Head(toBroker).id)
    <3>1. p \in Packets /\ p.type = "PUBREL" /\ p.id \in received
      BY <1>3, ReplyType
    <3>2. toSub' = Append(toSub, p)
      BY <2>2
    <3> HIDE DEF p
    <3> QED
      BY <1>1, <1>3, <3>1, <3>2, StreamGrows
  <2> QED
    BY <1>1, <2>1, <2>2
<1> QED
  BY <1>1, <1>2, <1>3, <1>4 DEF SubscriberInv, StreamsOK, SamplesOK

\* Every step of the task, of the run and of the broker.
LEMMA SubscriberNext == ASSUME SubscriberInv, [Next]_vars PROVE SubscriberInv'
<1>1. CASE WaitSuback
  BY <1>1, WaitSubackKeeps
<1>2. CASE ReadPublish
  BY <1>2, ReadPublishKeeps
<1>3. CASE ReadPubrel
  BY <1>3, ReadPubrelKeeps
<1>4. CASE BrokerSuback
  BY <1>4, BrokerSaysKeeps DEF BrokerSuback
<1>5. CASE BrokerDeliver
  BY <1>5, BrokerDeliverKeeps
<1>6. CASE BrokerRead
  BY <1>6, BrokerReadKeeps
<1>7. CASE BrokerLost
  BY <1>7, BrokerSaysKeeps, IdleKeeps DEF BrokerLost, brokerVars
<1>8. CASE SubackLost \/ ReadFails \/ ReadEof \/ Stopped \/ MakeReport \/ RequestStop
  BY <1>8, IdleKeeps DEF SubackLost, ReadFails, ReadEof, Stopped, MakeReport, RequestStop, brokerVars
<1>9. CASE Tick
  BY <1>9, IdleKeeps DEF Tick, brokerVars
<1>10. CASE UNCHANGED vars
  BY <1>10, IdleKeeps DEF vars, brokerVars
<1> QED
  BY <1>1, <1>2, <1>3, <1>4, <1>5, <1>6, <1>7, <1>8, <1>9, <1>10 DEF Next, Subscriber, Finished

\* The inductive invariant.
LEMMA SubscriberInvariant == Spec => []SubscriberInv
<1>1. SubscriberInv /\ [Next]_vars => SubscriberInv'
  BY SubscriberNext
<1> QED
  BY <1>1, SubscriberInit, PTL DEF Spec

-----------------------------------------------------------------------------
\* subscriber::run counts before it acknowledges: what the broker may take for delivered
\* is in counters.received, whatever overtakes the SUBACK and wherever the stream breaks.
THEOREM CompletedAreCounted == Spec => []CompletedIsCounted
<1>1. SubscriberInv => CompletedIsCounted
  <2> SUFFICES ASSUME SubscriberInv PROVE CompletedIsCounted
    OBVIOUS
  <2>1. DOMAIN toBroker = 1..Len(toBroker)
    BY QueueType DEF SubscriberInv, StreamsOK
  <2> QED
    BY <2>1 DEF SubscriberInv, AnswersCounted, CompletedIsCounted
<1> QED
  BY <1>1, SubscriberInvariant, PTL

\* The header check, checked_add and the warm-up of subscriber::run: a message is timed
\* once, only if counted, and never longer than the measuring part of the run.
THEOREM SamplesMeasured == Spec => []SamplesAreMeasured
<1>1. SubscriberInv => SamplesAreMeasured
  <2> SUFFICES ASSUME SubscriberInv PROVE SamplesAreMeasured
    OBVIOUS
  <2>1. DOMAIN samples = 1..Len(samples)
    BY QueueType DEF SubscriberInv, StreamsOK
  <2> QED
    BY <2>1 DEF SubscriberInv, SamplesOK, SamplesAreMeasured
<1> QED
  BY <1>1, SubscriberInvariant, PTL

-----------------------------------------------------------------------------
(***************************************************************************)
(* The summary of the samples.  An induction is an argument about the      *)
(* least number for which a claim fails.                                   *)
(***************************************************************************)

\* Of numbers that fail there is a least one.
LEMMA LeastNumber ==
  ASSUME NEW T, T \subseteq Nat, T # {}
  PROVE  \E x \in T : \A y \in T : x <= y
<1>1. PICK x \in T : \A y \in T : ~(<<y, x>> \in OpToRel(<, Nat))
  BY NatLessThanWellFounded, WFMin
<1>2. \A y \in T : ~(y < x)
  BY <1>1 DEF OpToRel
<1> QED
  BY <1>2

\* A set without one of its elements.
LEMMA Removed ==
  ASSUME NEW D, IsFiniteSet(D), NEW x \in SUBSET D, NEW y \in x
  PROVE  /\ x \ {y} \in SUBSET D /\ Cardinality(x) \in Nat /\ Cardinality(x) # 0
         /\ Cardinality(x \ {y}) = Cardinality(x) - 1 /\ Cardinality(x) - 1 \in Nat
<1>1. IsFiniteSet(x)
  BY FS_Subset
<1>2. Cardinality(x) \in Nat /\ Cardinality(x) # 0
  BY <1>1, FS_CardinalityType, FS_EmptySet
<1>3. Cardinality(x \ {y}) = Cardinality(x) - 1
  BY <1>1, FS_RemoveElement
<1> QED
  BY <1>2, <1>3

\* g[x] is the sum of f over x, taken element by element in the order of pick.
Sums(D, f, pick, g) == g = [x \in SUBSET D |-> IF x = {} THEN 0 ELSE f[pick[x]] + g[x \ {pick[x]}]]

\* There are such sums.
LEMMA SumExists ==
  ASSUME NEW D, IsFiniteSet(D), NEW f, NEW pick, \A x \in SUBSET D : x # {} => pick[x] \in x
  PROVE  \E g : Sums(D, f, pick, g)
<1> DEFINE Value(g, x) == IF x = {} THEN 0 ELSE f[pick[x]] + g[x \ {pick[x]}]
           UpTo(g, k) == \A x \in SUBSET D : Cardinality(x) <= k => g[x] = Value(g, x)
           F == {k \in Nat : ~\E g : UpTo(g, k)}
<1>1. 0 \notin F
  <2> DEFINE g == [x \in SUBSET D |-> 0]
  <2>1. ASSUME NEW x \in SUBSET D, Cardinality(x) <= 0 PROVE g[x] = Value(g, x)
    <3>1. IsFiniteSet(x) /\ Cardinality(x) \in Nat
      BY FS_Subset, FS_CardinalityType
    <3>2. x = {}
      BY <2>1, <3>1, FS_EmptySet
    <3> QED
      BY <3>2
  <2>2. UpTo(g, 0)
    BY <2>1
  <2> HIDE DEF UpTo
  <2> QED
    BY <2>2
<1>2. ASSUME NEW k \in Nat, k # 0, NEW g, UpTo(g, k - 1) PROVE \E h : UpTo(h, k)
  <2> DEFINE h == [x \in SUBSET D |-> Value(g, x)]
  <2>1. ASSUME NEW x \in SUBSET D, Cardinality(x) <= k PROVE h[x] = Value(h, x)
    <3>1. CASE x = {}
      BY <3>1
    <3>2. CASE x # {}
      <4> DEFINE y == pick[x]
                 r == x \ {y}
      <4>0. y \in x
        BY <3>2
      <4>1. r \in SUBSET D /\ Cardinality(r) = Cardinality(x) - 1 /\ Cardinality(x) \in Nat
        <5> HIDE DEF y
        <5> QED
          BY <4>0, Removed
      <4>2. Cardinality(r) <= k - 1
        BY <2>1, <4>1
      <4>3. g[r] = Value(g, r)
        <5> HIDE DEF r
        <5> QED
          BY <1>2, <4>1, <4>2
      <4>4. h[r] = Value(g, r)
        BY <4>1
      <4> QED
        BY <3>2, <4>3, <4>4
    <3> QED
      BY <3>1, <3>2
  <2>2. UpTo(h, k)
    BY <2>1
  <2> HIDE DEF UpTo, h
  <2> QED
    BY <2>2
<1>3. F = {}
  <2> HIDE DEF UpTo
  <2> SUFFICES ASSUME F # {} PROVE FALSE
    OBVIOUS
  <2>1. PICK k \in F : \A y \in F : k <= y
    <3>1. F \subseteq Nat
      OBVIOUS
    <3> HIDE DEF F
    <3> QED
      BY <3>1, LeastNumber
  <2>2. k \in Nat /\ k # 0
    BY <1>1
  <2>3. k - 1 \in Nat /\ k - 1 \notin F
    <3> HIDE DEF F
    <3> QED
      BY <2>1, <2>2
  <2>4. PICK g : UpTo(g, k - 1)
    BY <2>3
  <2>5. \E h : UpTo(h, k)
    BY <1>2, <2>2, <2>4
  <2> QED
    BY <2>5
<1>4. Cardinality(D) \in Nat
  BY FS_CardinalityType
<1>5. PICK g : UpTo(g, Cardinality(D))
  <2> HIDE DEF UpTo
  <2> QED
    BY <1>3, <1>4
<1> DEFINE h == [x \in SUBSET D |-> g[x]]
<1>6. ASSUME NEW x \in SUBSET D PROVE h[x] = Value(h, x)
  <2>1. Cardinality(x) <= Cardinality(D)
    BY FS_Subset
  <2>2. h[x] = Value(g, x)
    BY <1>5, <2>1
  <2>3. ASSUME x # {} PROVE h[x \ {pick[x]}] = g[x \ {pick[x]}]
    <3>1. x \ {pick[x]} \in SUBSET D
      OBVIOUS
    <3> QED
      BY <3>1
  <2> QED
    BY <2>2, <2>3
<1>7. h = [x \in SUBSET D |-> Value(h, x)]
  BY <1>6
<1>8. Sums(D, f, pick, h)
  BY <1>7 DEF Sums
<1> HIDE DEF h
<1> QED
  BY <1>8

\* The sum of numbers is one.
LEMMA SumIsInt ==
  ASSUME NEW D, IsFiniteSet(D), NEW f \in [D -> Int], NEW pick, \A x \in SUBSET D : x # {} => pick[x] \in x,
         NEW g, Sums(D, f, pick, g)
  PROVE  g[D] \in Int
<1> DEFINE B == {k \in Nat : \E x \in SUBSET D : Cardinality(x) = k /\ g[x] \notin Int}
<1>1. \A x \in SUBSET D : g[x] = IF x = {} THEN 0 ELSE f[pick[x]] + g[x \ {pick[x]}]
  BY DEF Sums
<1>2. B = {}
  <2> SUFFICES ASSUME B # {} PROVE FALSE
    OBVIOUS
  <2>1. PICK k \in B : \A y \in B : k <= y
    <3>1. B \subseteq Nat
      OBVIOUS
    <3> HIDE DEF B
    <3> QED
      BY <3>1, LeastNumber
  <2>2. PICK x \in SUBSET D : Cardinality(x) = k /\ g[x] \notin Int
    BY <2>1
  <2>3. x # {} /\ g[x] = f[pick[x]] + g[x \ {pick[x]}]
    <3>1. g[x] = IF x = {} THEN 0 ELSE f[pick[x]] + g[x \ {pick[x]}]
      BY <1>1, Zenon
    <3>2. x # {}
      BY <2>2, <3>1
    <3> QED
      BY <3>1, <3>2
  <2> DEFINE y == pick[x]
             r == x \ {y}
  <2>4. y \in x /\ y \in D
    BY <2>3
  <2>5. r \in SUBSET D /\ Cardinality(r) = k - 1 /\ k - 1 \in Nat /\ k \in Nat
    <3> HIDE DEF y
    <3> QED
      BY <2>2, <2>4, Removed
  <2>6. k - 1 \notin B
    <3> HIDE DEF B
    <3> QED
      BY <2>1, <2>5
  <2>7. g[r] \in Int
    <3> HIDE DEF r
    <3> QED
      BY <2>5, <2>6
  <2>8. f[y] \in Int
    BY <2>4
  <2> QED
    BY <2>2, <2>3, <2>7, <2>8
<1>3. Cardinality(D) \in Nat /\ D \in SUBSET D
  BY FS_CardinalityType
<1> QED
  BY <1>2, <1>3

\* The sum of Samples::summary, taken in whatever order, is a number.
LEMMA SumType ==
  ASSUME NEW s \in Seq(Int)
  PROVE  FoldSeq(+, 0, s) \in Int
<1> DEFINE D == DOMAIN s
           Step(g) == [x \in SUBSET D |-> IF x = {} THEN 0
                                          ELSE s[CHOOSE y \in x : TRUE] + g[x \ {CHOOSE y \in x : TRUE}]]
           Iter == CHOOSE g : g = Step(g)
           pick == [x \in SUBSET D |-> CHOOSE y \in x : TRUE]
<1>1. FoldSeq(+, 0, s) = Iter[D]
  BY Zenon DEF FoldSeq, FoldFunction, FoldFunctionOnSet, MapThenFoldSet
<1>2. IsFiniteSet(D) /\ s \in [D -> Int]
  <2>1. D = 1..Len(s) /\ Len(s) \in Nat
    OBVIOUS
  <2>2. IsFiniteSet(D)
    BY <2>1, FS_Interval
  <2> QED
    BY <2>1, <2>2
<1>3. \A x \in SUBSET D : x # {} => pick[x] \in x
  <2> HIDE DEF D
  <2> QED
    BY Zenon
<1>4. ASSUME NEW g PROVE g = Step(g) <=> Sums(D, s, pick, g)
  <2> HIDE DEF D
  <2>1. \A x \in SUBSET D : pick[x] = CHOOSE y \in x : TRUE
    BY Zenon
  <2> HIDE DEF pick
  <2>2. ASSUME NEW x \in SUBSET D
        PROVE  (IF x = {} THEN 0 ELSE s[CHOOSE y \in x : TRUE] + g[x \ {CHOOSE y \in x : TRUE}])
               = IF x = {} THEN 0 ELSE s[pick[x]] + g[x \ {pick[x]}]
    <3>1. (CHOOSE y \in x : TRUE) = pick[x]
      BY <2>1, Zenon
    <3> QED
      BY <3>1
  <2>3. Step(g) = [x \in SUBSET D |-> IF x = {} THEN 0 ELSE s[pick[x]] + g[x \ {pick[x]}]]
    BY <2>2, Zenon
  <2> HIDE DEF Step
  <2> QED
    BY <2>3 DEF Sums
<1> HIDE DEF D, pick
<1>5. \E g : Sums(D, s, pick, g)
  BY <1>2, <1>3, SumExists, Zenon
<1>6. Sums(D, s, pick, Iter)
  <2> HIDE DEF Step
  <2>1. \E g : g = Step(g)
    BY <1>4, <1>5
  <2>2. Iter = Step(Iter)
    BY <2>1, Zenon
  <2> QED
    BY <1>4, <2>2, Zenon
<1>7. Iter[D] \in Int
  <2> HIDE DEF Iter
  <2> QED
    BY <1>2, <1>3, <1>6, SumIsInt, Zenon
<1> QED
  BY <1>1, <1>7, Zenon

\* The sum of the values; how many are at or below v, and the value at a share of p percent,
\* as the comment of percentile has them.
Total(s) == FoldSeq(+, 0, s)
AtOrBelow(s, v) == Cardinality({i \in DOMAIN s : s[i] <= v})
NearestRank(s, p) == Min({v \in ToSet(s) : 100 * AtOrBelow(s, v) >= p * Len(s)})

\* The values up to the i-th, in the order sort_unstable puts them.
UpTo(s, i) == {j \in DOMAIN s : s[j] < s[i] \/ (s[j] = s[i] /\ j <= i)}

\* The position of a value counts it and what goes before it.
LEMMA PositionType ==
  ASSUME NEW s \in Seq(Int), NEW i \in 1..Len(s)
  PROVE  /\ UpTo(s, i) \subseteq 1..Len(s) /\ IsFiniteSet(UpTo(s, i)) /\ i \in UpTo(s, i)
         /\ Position(s, i) = Cardinality(UpTo(s, i)) /\ Position(s, i) \in 1..Len(s)
<1>0. Len(s) \in Nat /\ DOMAIN s = 1..Len(s) /\ IsFiniteSet(1..Len(s)) /\ Cardinality(1..Len(s)) = Len(s)
  <2>1. Len(s) \in Nat /\ DOMAIN s = 1..Len(s)
    OBVIOUS
  <2>2. IsFiniteSet(1..Len(s)) /\ Cardinality(1..Len(s)) = IF 1 > Len(s) THEN 0 ELSE Len(s) - 1 + 1
    BY <2>1, FS_Interval
  <2> QED
    BY <2>1, <2>2
<1>1. UpTo(s, i) \subseteq 1..Len(s) /\ i \in UpTo(s, i)
  BY <1>0 DEF UpTo
<1>2. IsFiniteSet(UpTo(s, i)) /\ Cardinality(UpTo(s, i)) <= Len(s)
  BY <1>0, <1>1, FS_Subset
<1>3. Cardinality(UpTo(s, i)) \in Nat /\ Cardinality(UpTo(s, i)) # 0
  BY <1>1, <1>2, FS_CardinalityType, FS_EmptySet
<1>4. Position(s, i) = Cardinality(UpTo(s, i))
  BY DEF Position, UpTo
<1> QED
  BY <1>0, <1>1, <1>2, <1>3, <1>4

\* What comes first has the smaller position.
LEMMA PositionGrows ==
  ASSUME NEW s \in Seq(Int), NEW i \in 1..Len(s), NEW j \in 1..Len(s), j \in UpTo(s, i), j # i
  PROVE  Position(s, j) < Position(s, i)
<1>0. DOMAIN s = 1..Len(s) /\ \A k \in 1..Len(s) : s[k] \in Int
  OBVIOUS
<1>1. s[j] < s[i] \/ (s[j] = s[i] /\ j < i)
  BY <1>0 DEF UpTo
<1>2. UpTo(s, j) \subseteq UpTo(s, i) \ {i}
  BY <1>0, <1>1 DEF UpTo
<1>3. IsFiniteSet(UpTo(s, i) \ {i}) /\ Cardinality(UpTo(s, i) \ {i}) = Position(s, i) - 1
  BY PositionType, FS_RemoveElement
<1>4. Cardinality(UpTo(s, j)) <= Cardinality(UpTo(s, i) \ {i})
  BY <1>2, <1>3, FS_Subset
<1>5. Position(s, j) <= Position(s, i) - 1
  BY <1>3, <1>4, PositionType
<1> QED
  BY <1>5, PositionType

\* Every place of the sorted vector is taken.
LEMMA PlacesTaken ==
  ASSUME NEW s \in Seq(Int), NEW k \in 1..Len(s)
  PROVE  \E i \in 1..Len(s) : Position(s, i) = k
<1> DEFINE D == 1..Len(s)
           f == [i \in D |-> Position(s, i)]
<1>1. IsFiniteSet(D)
  BY FS_Interval
<1>2. f \in [D -> D]
  BY PositionType
<1>3. ASSUME NEW i \in D, NEW j \in D, f[i] = f[j] PROVE i = j
  <2> SUFFICES ASSUME i # j PROVE FALSE
    OBVIOUS
  <2>1. j \in UpTo(s, i) \/ i \in UpTo(s, j)
    BY DEF UpTo
  <2>2. Position(s, j) < Position(s, i) \/ Position(s, i) < Position(s, j)
    BY <2>1, PositionGrows
  <2>3. Position(s, i) \in 1..Len(s) /\ Position(s, j) \in 1..Len(s)
    BY PositionType
  <2> QED
    BY <1>3, <2>2, <2>3
<1> HIDE DEF f
<1>4. f \in Injection(D, D)
  BY <1>2, <1>3 DEF Injection, IsInjective
<1>5. f \in Surjection(D, D)
  BY <1>1, <1>4, FS_Injection
<1>6. \E i \in D : f[i] = k
  BY <1>5 DEF Surjection
<1> QED
  BY <1>6 DEF f

\* The k-th of the sorted values is the smallest at or below which there are k.
LEMMA SortedValue ==
  ASSUME NEW s \in Seq(Int), NEW k \in 1..Len(s)
  PROVE  /\ Sorted(s)[k] \in ToSet(s) /\ Sorted(s)[k] \in Int
         /\ AtOrBelow(s, Sorted(s)[k]) >= k
         /\ \A w \in Int : AtOrBelow(s, w) >= k => Sorted(s)[k] <= w
<1>0. DOMAIN s = 1..Len(s) /\ Len(s) \in Nat /\ \A i \in 1..Len(s) : s[i] \in Int
  OBVIOUS
<1> DEFINE c == CHOOSE i \in DOMAIN s : Position(s, i) = k
<1>1. c \in 1..Len(s) /\ Position(s, c) = k
  BY <1>0, PlacesTaken
<1>2. Sorted(s)[k] = s[c]
  BY <1>0 DEF Sorted
<1> HIDE DEF c
<1>3. s[c] \in ToSet(s) /\ s[c] \in Int
  BY <1>0, <1>1 DEF ToSet
<1>4. IsFiniteSet(1..Len(s))
  BY <1>0, FS_Interval
<1>5. \A w \in Int : /\ IsFiniteSet({i \in DOMAIN s : s[i] <= w}) /\ AtOrBelow(s, w) \in Nat
  <2> TAKE w \in Int
  <2>1. {i \in DOMAIN s : s[i] <= w} \subseteq 1..Len(s)
    BY <1>0
  <2>2. IsFiniteSet({i \in DOMAIN s : s[i] <= w})
    BY <1>4, <2>1, FS_Subset
  <2> QED
    BY <2>2, FS_CardinalityType DEF AtOrBelow
<1>6. AtOrBelow(s, s[c]) >= k
  <2> DEFINE L == {i \in DOMAIN s : s[i] <= s[c]}
  <2>1. UpTo(s, c) \subseteq L
    BY <1>0, <1>1 DEF UpTo
  <2>2. IsFiniteSet(L) /\ AtOrBelow(s, s[c]) = Cardinality(L) /\ Cardinality(L) \in Nat
    BY <1>3, <1>5 DEF AtOrBelow
  <2> HIDE DEF L
  <2>3. Cardinality(UpTo(s, c)) <= Cardinality(L)
    BY <2>1, <2>2, FS_Subset
  <2> QED
    BY <1>1, <2>2, <2>3, PositionType
<1>7. ASSUME NEW w \in Int, AtOrBelow(s, w) >= k PROVE s[c] <= w
  <2> SUFFICES ASSUME w < s[c] PROVE FALSE
    BY <1>3
  <2> DEFINE L == {i \in DOMAIN s : s[i] <= w}
  <2>1. L \subseteq UpTo(s, c) \ {c}
    BY <1>0, <1>1 DEF UpTo
  <2>2. IsFiniteSet(UpTo(s, c) \ {c}) /\ Cardinality(UpTo(s, c) \ {c}) = k - 1
    BY <1>1, PositionType, FS_RemoveElement
  <2>3. Cardinality(L) = AtOrBelow(s, w) /\ Cardinality(L) \in Nat
    BY <1>5 DEF AtOrBelow
  <2> HIDE DEF L
  <2>4. Cardinality(L) <= k - 1
    BY <2>1, <2>2, FS_Subset
  <2> QED
    BY <1>7, <2>3, <2>4
<1> QED
  BY <1>2, <1>3, <1>6, <1>7

\* The rank percentile computes is the least number of values that make up the share.
LEMMA RankIsShare ==
  ASSUME NEW n \in Nat, n > 0, NEW p \in {50, 95, 99}
  PROVE  LET rank == (p * n + 99) \div 100
         IN  rank \in 1..n /\ \A b \in Int : b >= rank <=> 100 * b >= p * n
<1>1. CASE p = 50
  BY <1>1
<1>2. CASE p = 95
  BY <1>2
<1>3. CASE p = 99
  BY <1>3
<1> QED
  BY <1>1, <1>2, <1>3

\* The least and the greatest of numbers, when there is one.
LEMMA LeastOf ==
  ASSUME NEW S, S \subseteq Int, NEW x \in S, \A y \in S : x <= y
  PROVE  Min(S) = x
<1> DEFINE m == Min(S)
<1>1. m \in S /\ \A y \in S : m <= y
  BY DEF Min
<1> HIDE DEF m
<1>2. m \in Int /\ x \in Int /\ m <= x /\ x <= m
  BY <1>1
<1>3. m = x
  BY <1>2
<1> QED
  BY <1>3 DEF m

LEMMA GreatestOf ==
  ASSUME NEW S, S \subseteq Int, NEW x \in S, \A y \in S : x >= y
  PROVE  Max(S) = x
<1> DEFINE m == Max(S)
<1>1. m \in S /\ \A y \in S : m >= y
  BY DEF Max
<1> HIDE DEF m
<1>2. m \in Int /\ x \in Int /\ m <= x /\ x <= m
  BY <1>1
<1>3. m = x
  BY <1>2
<1> QED
  BY <1>3 DEF m

\* percentile returns the value its comment describes.
LEMMA PercentileExact ==
  ASSUME NEW s \in Seq(Int), s # <<>>, NEW p \in {50, 95, 99}
  PROVE  Percentile(Sorted(s), p) = NearestRank(s, p)
<1> DEFINE n == Len(s)
           rank == (p * n + 99) \div 100
           S == {v \in ToSet(s) : 100 * AtOrBelow(s, v) >= p * Len(s)}
<1>0. n \in Nat /\ n > 0 /\ DOMAIN s = 1..n /\ \A i \in 1..n : s[i] \in Int
  OBVIOUS
<1>1. rank \in 1..n /\ \A b \in Int : b >= rank <=> 100 * b >= p * n
  BY <1>0, RankIsShare
<1>2. Len(Sorted(s)) = n
  <2>1. \A k \in 1..n : Sorted(s)[k] \in Int
    BY SortedValue
  <2>2. DOMAIN Sorted(s) = 1..n /\ Sorted(s) = [k \in 1..n |-> Sorted(s)[k]]
    BY <1>0 DEF Sorted
  <2> QED
    BY <1>0, <2>1, <2>2
<1>3. Percentile(Sorted(s), p) = Sorted(s)[Max({1, Min({rank, n})})]
  BY <1>2 DEF Percentile
<1> HIDE DEF rank, n
<1>4. Min({rank, n}) = rank /\ Max({1, rank}) = rank
  <2>1. Min({rank, n}) = rank
    <3> DEFINE P == {rank, n}
    <3>1. P \subseteq Int /\ rank \in P /\ \A y \in P : rank <= y
      BY <1>0, <1>1
    <3> HIDE DEF P
    <3>2. Min(P) = rank
      BY <3>1, LeastOf
    <3> QED
      BY <3>2 DEF P
  <2>2. Max({1, rank}) = rank
    <3> DEFINE P == {1, rank}
    <3>1. P \subseteq Int /\ rank \in P /\ \A y \in P : rank >= y
      BY <1>0, <1>1
    <3> HIDE DEF P
    <3>2. Max(P) = rank
      BY <3>1, GreatestOf
    <3> QED
      BY <3>2 DEF P
  <2> QED
    BY <2>1, <2>2
<1>5. ToSet(s) \subseteq Int
  BY <1>0 DEF ToSet
<1>6. \A v \in ToSet(s) : AtOrBelow(s, v) \in Int
  <2> TAKE v \in ToSet(s)
  <2>1. {i \in DOMAIN s : s[i] <= v} \subseteq 1..n
    BY <1>0
  <2>2. IsFiniteSet({i \in DOMAIN s : s[i] <= v})
    BY <1>0, <2>1, FS_Interval, FS_Subset
  <2> QED
    BY <2>2, FS_CardinalityType DEF AtOrBelow
<1> DEFINE v == Sorted(s)[rank]
<1>7. /\ v \in ToSet(s) /\ v \in Int /\ AtOrBelow(s, v) >= rank
      /\ \A w \in Int : AtOrBelow(s, w) >= rank => v <= w
  BY <1>1, SortedValue DEF n
<1> HIDE DEF v
<1>8. v \in S
  BY <1>1, <1>6, <1>7 DEF n
<1>9. \A w \in S : v <= w
  BY <1>1, <1>5, <1>6, <1>7 DEF n
<1>10. S \subseteq Int
  BY <1>5
<1>11. Min(S) = v
  <2> HIDE DEF S
  <2> QED
    BY <1>8, <1>9, <1>10, LeastOf
<1> QED
  BY <1>3, <1>4, <1>11 DEF v, NearestRank

\* The ends of the sorted vector are the least and the greatest value.
LEMMA EndsExact ==
  ASSUME NEW s \in Seq(Int), s # <<>>
  PROVE  Sorted(s)[1] = Min(ToSet(s)) /\ Sorted(s)[Len(s)] = Max(ToSet(s))
<1> DEFINE n == Len(s)
           L(w) == {i \in DOMAIN s : s[i] <= w}
<1>0. n \in Nat /\ n > 0 /\ DOMAIN s = 1..n /\ \A i \in 1..n : s[i] \in Int
  OBVIOUS
<1>1. ToSet(s) \subseteq Int /\ \A v \in ToSet(s) : \E i \in 1..n : v = s[i]
  BY <1>0 DEF ToSet
<1>2. IsFiniteSet(1..n) /\ Cardinality(1..n) = n
  BY <1>0, FS_Interval
<1>3. ASSUME NEW w \in Int
      PROVE  IsFiniteSet(L(w)) /\ Cardinality(L(w)) \in Nat /\ L(w) \in SUBSET (1..n)
             /\ AtOrBelow(s, w) = Cardinality(L(w))
  <2>1. L(w) \in SUBSET (1..n)
    BY <1>0
  <2>2. IsFiniteSet(L(w))
    BY <1>2, <2>1, FS_Subset
  <2> QED
    BY <2>1, <2>2, FS_CardinalityType DEF AtOrBelow
<1>4. Sorted(s)[1] = Min(ToSet(s))
  <2> DEFINE v == Sorted(s)[1]
  <2>1. v \in ToSet(s) /\ v \in Int /\ \A w \in Int : AtOrBelow(s, w) >= 1 => v <= w
    BY <1>0, SortedValue
  <2>2. ASSUME NEW w \in ToSet(s) PROVE v <= w
    <3>1. w \in Int /\ L(w) # {}
      BY <1>0, <1>1
    <3>2. AtOrBelow(s, w) >= 1
      <4> HIDE DEF L
      <4> QED
        BY <1>3, <3>1, FS_EmptySet
    <3> HIDE DEF v
    <3> QED
      BY <2>1, <3>1, <3>2
  <2> HIDE DEF v
  <2>3. Min(ToSet(s)) = v
    BY <1>1, <2>1, <2>2, LeastOf
  <2> QED
    BY <2>3 DEF v
<1>5. Sorted(s)[n] = Max(ToSet(s))
  <2> DEFINE v == Sorted(s)[n]
  <2>1. v \in ToSet(s) /\ v \in Int /\ AtOrBelow(s, v) >= n
    BY <1>0, SortedValue
  <2> HIDE DEF v
  <2>2. L(v) = 1..n
    <3> HIDE DEF L, n
    <3>1. Cardinality(L(v)) <= n
      BY <1>2, <1>3, <2>1, FS_Subset
    <3>2. Cardinality(L(v)) = n
      BY <1>0, <1>3, <2>1, <3>1
    <3> QED
      BY <1>2, <1>3, <2>1, <3>2, FS_Subset
  <2>3. ASSUME NEW w \in ToSet(s) PROVE v >= w
    BY <1>0, <1>1, <2>1, <2>2
  <2>4. Max(ToSet(s)) = v
    BY <1>1, <2>1, <2>3, GreatestOf
  <2> QED
    BY <2>4 DEF v
<1> QED
  BY <1>4, <1>5

-----------------------------------------------------------------------------
\* The samples of the tasks that did not fail.
Merged == OtherSamples \o (IF result = "ok" THEN [i \in DOMAIN samples |-> samples[i][2]] ELSE <<>>)

\* Once made, the report is the summary of samples that no longer change.
ReportInv == \A r \in report : spc = "returned" /\ r.endToEnd = Summary(Merged)

\* The merged samples are numbers.
LEMMA MergedType == ASSUME StreamsOK PROVE Merged \in Seq(Int)
<1> DEFINE own == [i \in DOMAIN samples |-> samples[i][2]]
<1>1. samples \in Seq(Nat \X Int) /\ OtherSamples \in Seq(Int)
  BY SubscriberAssumption DEF StreamsOK
<1>2. own \in Seq(Int)
  <2>1. Len(samples) \in Nat /\ DOMAIN samples = 1..Len(samples) /\ \A i \in 1..Len(samples) : samples[i][2] \in Int
    BY <1>1
  <2>2. own = [i \in 1..Len(samples) |-> samples[i][2]]
    BY <2>1
  <2> QED
    BY <2>1, <2>2
<1> HIDE DEF own
<1>3. CASE result = "ok"
  BY <1>1, <1>2, <1>3 DEF Merged, own
<1>4. CASE result # "ok"
  <2>1. Merged = OtherSamples \o <<>>
    BY <1>4 DEF Merged
  <2> QED
    BY <1>1, <2>1
<1> QED
  BY <1>3, <1>4

\* The report is made when the task has returned, and nothing moves its samples then.
LEMMA ReportNext == ASSUME SubscriberInv, ReportInv, [Next]_vars PROVE ReportInv'
<1>1. CASE MakeReport
  <2>1. Merged' = Merged
    BY <1>1 DEF MakeReport, Merged
  <2>2. Merged = LET own == [i \in DOMAIN samples |-> samples[i][2]]
                 IN  IF result = "ok" THEN OtherSamples \o own ELSE OtherSamples
    <3>1. OtherSamples \o <<>> = OtherSamples
      BY SubscriberAssumption
    <3> QED
      BY <3>1 DEF Merged
  <2>3. report' = {[endToEnd |-> Summary(Merged), disabled |-> ~MeasuresEndToEnd(1, PayloadSize)]}
    BY <1>1, <2>2 DEF MakeReport
  <2>4. spc' = "returned"
    BY <1>1 DEF MakeReport
  <2> HIDE DEF ReportInv
  <2> QED
    BY <2>1, <2>3, <2>4 DEF ReportInv
<1>2. CASE ~MakeReport
  <2>1. report' = report
    BY <1>2 DEF Next, Subscriber, Finished, vars, brokerVars, WaitSuback, SubackLost, ReadPublish, ReadPubrel,
       ReadFails, ReadEof, Stopped, RequestStop, Tick, BrokerSuback, BrokerDeliver, BrokerRead, BrokerLost
  <2>2. ASSUME spc = "returned" PROVE spc' = spc /\ samples' = samples /\ result' = result
    BY <1>2, <2>2 DEF Next, Subscriber, Finished, vars, brokerVars, WaitSuback, SubackLost, ReadPublish, ReadPubrel,
       ReadFails, ReadEof, Stopped, RequestStop, Tick, BrokerSuback, BrokerDeliver, BrokerRead, BrokerLost
  <2>3. ASSUME NEW r \in report PROVE Merged' = Merged /\ spc' = "returned"
    BY <2>2, <2>3 DEF ReportInv, Merged
  <2> QED
    BY <2>1, <2>3 DEF ReportInv
<1> QED
  BY <1>1, <1>2

\* What SummaryIsExact says, in these terms.
LEMMA SummaryMeans ==
  ASSUME \A r \in report : \A e \in r.endToEnd :
           /\ e.count = Len(Merged)
           /\ e.p50 = NearestRank(Merged, 50) /\ e.p95 = NearestRank(Merged, 95)
           /\ e.p99 = NearestRank(Merged, 99)
           /\ e.min = Min(ToSet(Merged)) /\ e.max = Max(ToSet(Merged))
           /\ Total(Merged) - e.mean * e.count \in 0..(e.count - 1)
  PROVE  SummaryIsExact
<1> DEFINE Below(v) == Cardinality({i \in DOMAIN Merged : Merged[i] <= v})
           Nearest(p) == Min({v \in ToSet(Merged) : 100 * Below(v) >= p * Len(Merged)})
<1>1. /\ Nearest(50) = NearestRank(Merged, 50) /\ Nearest(95) = NearestRank(Merged, 95)
      /\ Nearest(99) = NearestRank(Merged, 99)
  BY DEF NearestRank, AtOrBelow
<1>2. SummaryIsExact <=>
        \A r \in report : \A e \in r.endToEnd :
          /\ e.count = Len(Merged)
          /\ e.p50 = Nearest(50) /\ e.p95 = Nearest(95) /\ e.p99 = Nearest(99)
          /\ e.min = Min(ToSet(Merged)) /\ e.max = Max(ToSet(Merged))
          /\ Total(Merged) - e.mean * e.count \in 0..(e.count - 1)
  BY Zenon DEF SummaryIsExact, Merged, Total
<1> HIDE DEF Nearest
<1>3. \A r \in report : \A e \in r.endToEnd :
        /\ e.count = Len(Merged)
        /\ e.p50 = Nearest(50) /\ e.p95 = Nearest(95) /\ e.p99 = Nearest(99)
        /\ e.min = Min(ToSet(Merged)) /\ e.max = Max(ToSet(Merged))
        /\ Total(Merged) - e.mean * e.count \in 0..(e.count - 1)
  <2> TAKE r \in report
  <2> TAKE e \in r.endToEnd
  <2>1. /\ e.p50 = NearestRank(Merged, 50) /\ e.p95 = NearestRank(Merged, 95)
        /\ e.p99 = NearestRank(Merged, 99)
    OBVIOUS
  <2>2. e.p50 = Nearest(50) /\ e.p95 = Nearest(95) /\ e.p99 = Nearest(99)
    BY <1>1, <2>1, Zenon
  <2> QED
    BY <2>2
<1> QED
  BY <1>2, <1>3, Zenon

\* Samples::summary over what join_tasks merged: every percentile of the report is the
\* smallest sample at or below which that share of them falls, whatever their number, and
\* count, mean, min and max are theirs.
THEOREM SummaryExact == Spec => []SummaryIsExact
<1>1. Init => ReportInv
  BY DEF Init, ReportInv
<1>2. SubscriberInv /\ ReportInv /\ [Next]_vars => ReportInv'
  BY ReportNext
<1>3. SubscriberInv /\ ReportInv => SummaryIsExact
  <2> SUFFICES ASSUME SubscriberInv, ReportInv, NEW r \in report, NEW e \in r.endToEnd
               PROVE  /\ e.count = Len(Merged)
                      /\ e.p50 = NearestRank(Merged, 50) /\ e.p95 = NearestRank(Merged, 95)
                      /\ e.p99 = NearestRank(Merged, 99)
                      /\ e.min = Min(ToSet(Merged)) /\ e.max = Max(ToSet(Merged))
                      /\ Total(Merged) - e.mean * e.count \in 0..(e.count - 1)
    BY SummaryMeans
  <2> DEFINE all == Merged
             n == Len(all)
             sum == Total(all)
  <2>1. all \in Seq(Int)
    BY MergedType DEF SubscriberInv
  <2>2. e \in Summary(all)
    BY DEF ReportInv
  <2> HIDE DEF all
  <2>3. all # <<>>
    BY <2>2 DEF Summary
  <2>4. e = [count |-> n, min |-> Sorted(all)[1], max |-> Sorted(all)[n],
             p50 |-> Percentile(Sorted(all), 50), p95 |-> Percentile(Sorted(all), 95),
             p99 |-> Percentile(Sorted(all), 99), mean |-> sum \div n]
    BY <2>2, <2>3, Zenon DEF Summary, Total
  <2>5. n \in Nat /\ n > 0
    BY <2>1, <2>3
  <2>6. sum \in Int
    BY <2>1, SumType DEF Total
  <2> HIDE DEF n, sum
  <2>7. sum - (sum \div n) * n \in 0..(n - 1)
    BY <2>5, <2>6
  <2>8. e.count = n /\ sum - e.mean * e.count \in 0..(e.count - 1)
    BY <2>4, <2>7
  <2>9. e.min = Min(ToSet(all)) /\ e.max = Max(ToSet(all))
    BY <2>1, <2>3, <2>4, EndsExact DEF n
  <2>10. e.p50 = NearestRank(all, 50) /\ e.p95 = NearestRank(all, 95) /\ e.p99 = NearestRank(all, 99)
    <3>1. \A p \in {50, 95, 99} : Percentile(Sorted(all), p) = NearestRank(all, p)
      BY <2>1, <2>3, PercentileExact
    <3>2. e.p50 = Percentile(Sorted(all), 50) /\ e.p95 = Percentile(Sorted(all), 95) /\ e.p99 = Percentile(Sorted(all), 99)
      BY <2>4
    <3> QED
      BY <3>1, <3>2, Zenon
  <2> QED
    BY <2>8, <2>9, <2>10 DEF all, n, sum
<1> QED
  BY <1>1, <1>2, <1>3, SubscriberInvariant, PTL DEF Spec
==============================================================================
