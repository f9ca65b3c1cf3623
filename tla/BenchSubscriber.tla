--------------------------- MODULE BenchSubscriber ---------------------------
(***************************************************************************)
(* One subscribing connection of `wispmq-cli bench`                        *)
(* (src/src/bench/subscriber.rs): SUBSCRIBE, wait for the SUBACK, then     *)
(* count, time and acknowledge every message until the stop signal; and    *)
(* the end-to-end part of the report bench::run makes of it                *)
(* (src/src/bench/mod.rs).                                                 *)
(*                                                                         *)
(* The broker is external: it delivers each message once, at a QoS no      *)
(* higher than the subscription's, and completes a QoS 1 or 2 delivery by  *)
(* the exchange of MQTT 4.3.  Messages are numbered in the order of        *)
(* delivery, and the number is also the packet identifier.                 *)
(***************************************************************************)
EXTENDS BenchStats

CONSTANTS
    QoS,          \* config.qos, the QoS of the subscription
    Deliveries,   \* bound: messages the broker delivers
    EarlyPublish, \* whether a PUBLISH may precede the SUBACK (MQTT 3.8.4)
    PayloadSize,  \* config.payload_size
    Foreign,      \* payloads of other runs and programs on the topics: any length, any
                  \* bytes where the header would be
    Huge,         \* an elapsed time no Instant can hold
    OtherSamples, \* the latencies the other subscribers recorded
    Warmup,       \* warmup_until, as a time since the baseline
    MaxTime,      \* bound on the clock
    Faults        \* whether the broker may disconnect, close or break the stream

ASSUME SubscriberAssumption ==
    /\ QoS \in 0..2 /\ Deliveries \in Nat /\ Warmup \in Nat /\ MaxTime \in Nat
    /\ {EarlyPublish, Faults} \subseteq BOOLEAN
    /\ PayloadSize \in Nat
    /\ Foreign \subseteq [len : Nat, stamp : Nat \cup {Huge}]
    /\ OtherSamples \in Seq(Nat)

Msgs == 1..Deliveries

VARIABLES
    spc,        \* where the task is: "suback", "loop", "closed" or "returned"
    result,     \* what run returned
    stop,       \* the stop signal
    now,        \* the clock, since the baseline
    received,   \* the messages counted in counters.received
    samples,    \* the task's Samples, each as <<message, latency>>
    report,     \* the Report, once bench::run has made it
    conn,       \* the stream: "open", "eof" or "broken"
    toSub,      \* packets on their way to the subscriber
    toBroker,   \* packets on their way to the broker
    delivered,  \* broker: messages delivered so far
    grant,      \* broker: the subscription is "due", "granted" or "refused"
    pending     \* broker: QoS > 0 messages not yet completed

vars == <<spc, result, stop, now, received, samples, report, conn, toSub, toBroker,
          delivered, grant, pending>>
brokerVars == <<delivered, grant, pending>>

Packet(type, id, qos, payload) == [type |-> type, id |-> id, qos |-> qos, payload |-> payload]
Reply(type, id) == Packet(type, id, 0, [len |-> 0, stamp |-> 0])

Init ==
    /\ spc = "suback" /\ result = "none" /\ stop = FALSE /\ now = 0
    /\ received = {} /\ samples = <<>> /\ report = {}
    /\ conn = "open" /\ toSub = <<>> /\ toBroker = <<>>
    /\ delivered = 0 /\ grant = "due" /\ pending = {}

-----------------------------------------------------------------------------
(***************************************************************************)
(* subscriber::run, from the SUBSCRIBE on.                                 *)
(***************************************************************************)
Return(r) == spc' = "returned" /\ result' = r

\* The top of the loop looks at the stop signal before it waits for a packet, so after a
\* stop at most the packet that races it in the select is handled.
LoopTop == IF stop THEN Return("ok") ELSE spc' = "loop" /\ UNCHANGED result

\* What write_packet leaves on the wire; on a lost connection it may also fail.
Send(p) == toBroker' = IF conn = "open" THEN Append(toBroker, p) ELSE toBroker

\* The wait for the SUBACK: a refusal ends the task, and any other packet is
\* thrown away, a PUBLISH included.
WaitSuback ==
    /\ spc = "suback" /\ toSub # <<>>
    /\ toSub' = Tail(toSub)
    /\ CASE Head(toSub).type = "SUBACK"  -> LoopTop
         [] Head(toSub).type = "REFUSED" -> Return("err")
         [] OTHER -> UNCHANGED <<spc, result>>
    /\ UNCHANGED <<stop, now, received, samples, report, conn, toBroker, brokerVars>>

\* The end of the stream or a read error while waiting for it.
SubackLost ==
    /\ spc = "suback"
    /\ conn = "broken" \/ (conn = "eof" /\ toSub = <<>>)
    /\ Return("err")
    /\ UNCHANGED <<stop, now, received, samples, report, conn, toSub, toBroker, brokerVars>>

\* Mutant: the warm-up is timed too.
MeasuredFromStart(stamp) == stamp # Huge /\ now >= stamp

\* checked_add, then the warm-up and the order of the instants.
Measured(stamp) == stamp # Huge /\ stamp >= Warmup /\ now >= stamp

\* The sample of a message that carries a header.
Timed(p) == SetToSeq({<<p.id, now - stamp>> : stamp \in {t \in Decode(p.payload) : Measured(t)}})

\* Mutant: a message is counted only when it can be timed.
ReadPublishCountsTimed ==
    /\ spc = "loop" /\ toSub # <<>> /\ Head(toSub).type = "PUBLISH"
    /\ toSub' = Tail(toSub)
    /\ LET p == Head(toSub) IN
         /\ received' = IF Timed(p) = <<>> THEN received ELSE received \cup {p.id}
         /\ samples' = samples \o Timed(p)
         /\ CASE p.qos = 0 -> UNCHANGED toBroker
              [] p.qos > 0 -> Send(Reply(IF p.qos = 1 THEN "PUBACK" ELSE "PUBREC", p.id))
    /\ LoopTop
    /\ UNCHANGED <<stop, now, report, conn, brokerVars>>

\* A PUBLISH is counted, timed and acknowledged as its QoS asks.
ReadPublish ==
    /\ spc = "loop" /\ toSub # <<>> /\ Head(toSub).type = "PUBLISH"
    /\ toSub' = Tail(toSub)
    /\ LET p == Head(toSub) IN
         /\ received' = received \cup {p.id}
         /\ samples' = samples \o Timed(p)
         /\ CASE p.qos = 0 -> LoopTop /\ UNCHANGED toBroker
              [] p.qos > 0 ->
                   \/ /\ Send(Reply(IF p.qos = 1 THEN "PUBACK" ELSE "PUBREC", p.id))
                      /\ LoopTop
                   \/ conn # "open" /\ Return("err") /\ UNCHANGED toBroker
    /\ UNCHANGED <<stop, now, report, conn, brokerVars>>

\* Mutant: a PUBREL is ignored.
ReadPubrelSilent ==
    /\ spc = "loop" /\ toSub # <<>> /\ Head(toSub).type = "PUBREL"
    /\ toSub' = Tail(toSub)
    /\ LoopTop
    /\ UNCHANGED <<stop, now, received, samples, report, conn, toBroker, brokerVars>>

\* A PUBREL is answered by a PUBCOMP.
ReadPubrel ==
    /\ spc = "loop" /\ toSub # <<>> /\ Head(toSub).type = "PUBREL"
    /\ toSub' = Tail(toSub)
    /\ \/ Send(Reply("PUBCOMP", Head(toSub).id)) /\ LoopTop
       \/ conn # "open" /\ Return("err") /\ UNCHANGED toBroker
    /\ UNCHANGED <<stop, now, received, samples, report, conn, brokerVars>>

\* A DISCONNECT of the broker, or a read error, fails the task.
ReadFails ==
    /\ spc = "loop"
    /\ conn = "broken" \/ (toSub # <<>> /\ Head(toSub).type = "DISCONNECT")
    /\ Return("err")
    /\ UNCHANGED <<stop, now, received, samples, report, conn, toSub, toBroker, brokerVars>>

\* The end of the stream: wait for the stop signal.
ReadEof ==
    /\ spc = "loop" /\ toSub = <<>> /\ conn = "eof"
    /\ spc' = "closed"
    /\ UNCHANGED <<result, stop, now, received, samples, report, conn, toSub, toBroker, brokerVars>>

\* Mutant: the stop signal is not awaited after the end of the stream.
StoppedReading ==
    /\ spc = "loop" /\ stop
    /\ Return("ok")
    /\ UNCHANGED <<stop, now, received, samples, report, conn, toSub, toBroker, brokerVars>>

\* The stop signal, in the select of the loop or after the end of the stream.
Stopped ==
    /\ spc \in {"loop", "closed"} /\ stop
    /\ Return("ok")
    /\ UNCHANGED <<stop, now, received, samples, report, conn, toSub, toBroker, brokerVars>>

Subscriber == WaitSuback \/ SubackLost \/ ReadPublish \/ ReadPubrel \/ ReadFails
              \/ ReadEof \/ Stopped

\* join_tasks merges the samples of the tasks that did not fail; the Report has their
\* summary, and says whether the payload was too small to time.
MakeReport ==
    /\ spc = "returned" /\ report = {}
    /\ LET own == [i \in DOMAIN samples |-> samples[i][2]]
           merged == IF result = "ok" THEN OtherSamples \o own ELSE OtherSamples
       IN  report' = {[endToEnd |-> Summary(merged),
                       disabled |-> ~MeasuresEndToEnd(1, PayloadSize)]}
    /\ UNCHANGED <<spc, result, stop, now, received, samples, conn, toSub, toBroker, brokerVars>>

-----------------------------------------------------------------------------
(***************************************************************************)
(* The environment: the run, the clock, and the broker (external).         *)
(***************************************************************************)
RequestStop ==
    /\ ~stop /\ stop' = TRUE
    /\ UNCHANGED <<spc, result, now, received, samples, report, conn, toSub, toBroker, brokerVars>>

Tick ==
    /\ now < MaxTime /\ now' = now + 1
    /\ UNCHANGED <<spc, result, stop, received, samples, report, conn, toSub, toBroker, brokerVars>>

\* The SUBACK, or its refusing form.
BrokerSuback ==
    /\ conn = "open" /\ grant = "due"
    /\ \/ grant' = "granted" /\ toSub' = Append(toSub, Reply("SUBACK", 0))
       \/ Faults /\ grant' = "refused" /\ toSub' = Append(toSub, Reply("REFUSED", 0))
    /\ UNCHANGED <<spc, result, stop, now, received, samples, report, conn, toBroker,
                   delivered, pending>>

\* The payloads the publishers of this run have built so far.
OwnPayloads == [len : {BuildLength(PayloadSize)}, stamp : 0..now]

BrokerDeliver ==
    /\ conn = "open" /\ delivered < Deliveries
    /\ grant = "granted" \/ (grant = "due" /\ EarlyPublish)
    /\ delivered' = delivered + 1
    /\ \E qos \in 0..QoS, payload \in OwnPayloads \cup Foreign :
         /\ toSub' = Append(toSub, Packet("PUBLISH", delivered + 1, qos, payload))
         /\ pending' = IF qos > 0 THEN pending \cup {delivered + 1} ELSE pending
    /\ UNCHANGED <<spc, result, stop, now, received, samples, report, conn, toBroker, grant>>

\* PUBACK and PUBCOMP complete a delivery, a PUBREC asks for the PUBREL.
BrokerRead ==
    /\ conn = "open" /\ toBroker # <<>>
    /\ toBroker' = Tail(toBroker)
    /\ LET p == Head(toBroker) IN
         \/ /\ p.type = "PUBREC"
            /\ toSub' = Append(toSub, Reply("PUBREL", p.id))
            /\ UNCHANGED pending
         \/ /\ p.type \in {"PUBACK", "PUBCOMP"}
            /\ pending' = pending \ {p.id}
            /\ UNCHANGED toSub
    /\ UNCHANGED <<spc, result, stop, now, received, samples, report, conn, delivered, grant>>

BrokerLost ==
    /\ conn = "open" /\ Faults
    /\ conn' \in {"eof", "broken"}
    /\ toSub' \in {toSub, Append(toSub, Reply("DISCONNECT", 0))}
    /\ UNCHANGED <<spc, result, stop, now, received, samples, report, toBroker, brokerVars>>

Finished == report # {} /\ UNCHANGED vars

Next == Subscriber \/ MakeReport \/ RequestStop \/ Tick \/ BrokerSuback \/ BrokerDeliver
        \/ BrokerRead \/ BrokerLost \/ Finished

Spec == Init /\ [][Next]_vars
ClientSpec == Spec /\ WF_vars(Subscriber)
FairSpec == ClientSpec /\ WF_vars(BrokerRead) /\ WF_vars(BrokerSuback)

-----------------------------------------------------------------------------
\* The broker considers a QoS 1 or 2 delivery complete only when the run has counted
\* it: counters.received is incremented before the acknowledgement is written, and a
\* PUBCOMP answers only the PUBREL of a message that was counted.
CompletedIsCounted ==
    \A i \in DOMAIN toBroker : toBroker[i].id \in received

\* Every sample is of a counted message, one per message, and no longer than the
\* measuring part of the run: a stamp of the warm-up, of the future or beyond what an Instant
\* can hold is not timed.  Whose stamp it is the subscriber cannot tell: a foreign payload
\* with a plausible one is timed like any other.
SamplesAreMeasured ==
    \A i, j \in DOMAIN samples :
      /\ samples[i][1] \in received
      /\ samples[i][1] = samples[j][1] => i = j
      /\ samples[i][2] \in 0..(now - Warmup)

\* The comment of percentile, for every percentile of the report: the smallest of all the
\* samples of the tasks that finished at or below which at least that share of them
\* falls.  The mean is theirs too, rounded down.
SummaryIsExact ==
    \A r \in report : \A s \in r.endToEnd :
      LET all == OtherSamples \o (IF result = "ok"
                                  THEN [i \in DOMAIN samples |-> samples[i][2]] ELSE <<>>)
          Below(v) == Cardinality({i \in DOMAIN all : all[i] <= v})
          NearestRank(p) == Min({v \in ToSet(all) : 100 * Below(v) >= p * Len(all)})
      IN  /\ s.count = Len(all)
          /\ s.p50 = NearestRank(50) /\ s.p95 = NearestRank(95) /\ s.p99 = NearestRank(99)
          /\ s.min = Min(ToSet(all)) /\ s.max = Max(ToSet(all))
          /\ FoldSeq(+, 0, all) - s.mean * s.count \in 0..(s.count - 1)

\* The help of --payload-size: below 16 there is no room for the measurement header, and
\* end-to-end latency is not reported.
TooSmallIsNotReported ==
    \A r \in report :
      PayloadSize < HEADER_LEN => WriteLatency(r.endToEnd, r.disabled) = "payload too small"

\* A subscriber that has its SUBACK returns once the run stops, whether it reads, the
\* broker reads its acknowledgements and says nothing, or the stream has ended.
StopEndsSubscriber == (stop /\ spc # "suback") ~> spc = "returned"

\* A delivery that reaches the subscriber after its SUBACK is acknowledged to the end: the
\* module's promise to acknowledge inbound messages.  (One that overtakes the SUBACK is
\* thrown away by the wait for it and never acknowledged.)
DeliveriesComplete ==
    \A m \in Msgs :
      (/\ spc = "loop"
       /\ \E i \in DOMAIN toSub : toSub[i].type = "PUBLISH" /\ toSub[i].id = m)
        ~> (m \notin pending \/ conn # "open" \/ stop)
=============================================================================
