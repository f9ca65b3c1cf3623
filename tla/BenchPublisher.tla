--------------------------- MODULE BenchPublisher ---------------------------
(***************************************************************************)
(* One connection of `wispmq-cli bench` that publishes                     *)
(* (src/src/bench/publisher.rs).                                           *)
(*                                                                         *)
(* Two tasks share the connection.  The WRITER owns the write half: it     *)
(* paces sends, takes one permit of the window per message, enters the     *)
(* packet identifier into in_flight and writes the PUBLISH.  The ACK TASK  *)
(* owns the read half: it matches acknowledgements against in_flight and   *)
(* gives the permits back.  For QoS 2 the ack task may not write, so it    *)
(* hands the identifier of a PUBREC over the channel pubrels, which the    *)
(* writer turns into a PUBREL.                                             *)
(*                                                                         *)
(* The broker is external: it answers the packets in the order it reads    *)
(* them, may refuse a message, may close or break the connection           *)
(* (Faults), and may send acknowledgements nobody asked for (MaxStray).    *)
(* A message is its number in the order of sending, which stands for the   *)
(* `Instant` that in_flight stores and the `seq` of the payload's header.  *)
(***************************************************************************)
EXTENDS Integers, Sequences, FiniteSets

CONSTANTS
    QoS,             \* config.qos: 0, 1 or 2
    Quota,           \* Config::quota_for: the messages of this publisher
    Inflight,        \* config.inflight, the window asked for
    ReceiveMaximum,  \* Option<u16> of CONNACK: {} for None, {n} for Some(n)
    MaxId,           \* u16::MAX, the largest packet identifier
    Paced,           \* whether --rate is given
    Codes,           \* the answers of the broker: TRUE is a reason code >= 0x80
    Faults,          \* connection failures that may happen: "eof", "broken"
    Timeouts,        \* whether the drain and join limits may expire
    SocketRoom,      \* the unread packets the connection buffers before a write waits
    MaxStray         \* bound on acknowledgements that answer nothing

ASSUME QoSAssumption == QoS \in 0..2
ASSUME QuotaAssumption == Quota \in Nat
ASSUME InflightAssumption == Inflight \in Nat
ASSUME MaxIdAssumption == MaxId \in Nat \ {0}
ASSUME ReceiveMaximumAssumption ==
    /\ ReceiveMaximum \in SUBSET (0..MaxId)
    /\ \A m, n \in ReceiveMaximum : m = n
ASSUME EnvironmentAssumption ==
    /\ Codes \in SUBSET BOOLEAN
    /\ Faults \in SUBSET {"eof", "broken"}
    /\ Paced \in BOOLEAN
    /\ Timeouts \in BOOLEAN
    /\ SocketRoom \in Nat \ {0}
    /\ MaxStray \in Nat

Ids == 1..MaxId
NoMsg == 0

\* Mutant: the broker's Receive Maximum is ignored.
EffectiveInflightUncapped(requested, cap) == IF requested < 1 THEN 1 ELSE requested

\* bench::effective_inflight: what was asked for, capped by the broker, never 0.
EffectiveInflight(requested, cap) ==
    LET capped == IF \E c \in cap : c < requested
                  THEN CHOOSE c \in cap : c < requested
                  ELSE requested
    IN  IF capped < 1 THEN 1 ELSE capped

\* publisher::run keeps it within the identifiers there are.
Window == LET w == EffectiveInflight(Inflight, ReceiveMaximum)
          IN  IF w > MaxId THEN MaxId ELSE w

\* Mutant: the identifier is kept in half the bits and wraps early.
NextIdNarrow(id) == LET n == (id + 1) % ((MaxId \div 2) + 1) IN IF n = 0 THEN 1 ELSE n

\* u16::wrapping_add(1), skipping 0.
NextId(id) == LET n == (id + 1) % (MaxId + 1) IN IF n = 0 THEN 1 ELSE n

AckTypes == {"PUBACK", "PUBREC", "PUBCOMP"}
Publish(id, msg) == [type |-> "PUBLISH", id |-> id, msg |-> msg]
Pubrel(id)       == [type |-> "PUBREL", id |-> id, msg |-> NoMsg]
Disconnect       == [type |-> "DISCONNECT", id |-> 0, msg |-> NoMsg]
Ack(type, id, err) == [type |-> type, id |-> id, err |-> err]

ToBroker == [type : {"PUBLISH"}, id : IF QoS = 0 THEN {0} ELSE Ids, msg : Nat]
            \cup [type : {"PUBREL"}, id : Ids, msg : {NoMsg}] \cup {Disconnect}
FromBroker == [type : AckTypes, id : Ids, err : BOOLEAN]
              \cup {Ack("DISCONNECT", 0, FALSE)}

VARIABLES
    wpc,          \* where the writer is
    sent,         \* writer: messages sent
    nextId,       \* writer: next_packet_id
    windowClosed, \* writer: window_closed
    result,       \* writer: what run returned
    apc,          \* ack task: "read", "ended" or "aborted"
    readError,    \* ack task: read_error is Some
    permits,      \* Semaphore: available permits
    closed,       \* Semaphore: closed
    inFlight,     \* in_flight: the message under each identifier, or NoMsg
    pubrels,      \* the channel pubrel_tx -> pubrel_rx
    published,    \* counters.published
    pubErrors,    \* counters.publish_errors
    acked,        \* the messages counted in counters.acknowledged
    refused,      \* counters: refusals recorded
    stop,         \* the stop signal of the run
    conn,         \* the connection: "open", "eof" or "broken"
    toBroker,     \* packets written and not yet read by the broker
    fromBroker,   \* packets of the broker not yet read by the ack task
    awaiting,     \* broker: the QoS 2 message held under each identifier
    accepted,     \* broker: the messages it took responsibility for
    strays        \* broker: acknowledgements sent that answer nothing

writerVars == <<wpc, sent, nextId, windowClosed, result, published, pubErrors>>
ackVars    == <<apc, readError, acked, refused>>
windowVars == <<permits, closed, inFlight>>
brokerVars == <<awaiting, accepted, strays>>
vars == <<writerVars, ackVars, windowVars, brokerVars,
          pubrels, stop, conn, toBroker, fromBroker>>

Init ==
    /\ wpc = "top" /\ sent = 0 /\ nextId = 0 /\ windowClosed = FALSE
    /\ result = "none"
    /\ apc = "read" /\ readError = FALSE
    /\ permits = Window /\ closed = FALSE
    /\ inFlight = [id \in Ids |-> NoMsg]
    /\ pubrels = <<>>
    /\ published = 0 /\ pubErrors = 0 /\ acked = {} /\ refused = 0
    /\ stop = FALSE
    /\ conn = "open" /\ toBroker = <<>> /\ fromBroker = <<>>
    /\ awaiting = [id \in Ids |-> NoMsg] /\ accepted = {} /\ strays = 0

InFlightIds == {id \in Ids : inFlight[id] # NoMsg}

-----------------------------------------------------------------------------
(***************************************************************************)
(* The writer: publisher::run from the spawn of the ack task on.           *)
(***************************************************************************)

\* A packet written to a connection that is gone is lost; whether the write
\* then fails is up to the operating system (MayFail).
Deliver(packets) ==
    toBroker' = IF conn = "open" THEN toBroker \o packets ELSE toBroker
MayFail == conn # "open"

\* write_packet(..).await waits for room, with no stop signal and no limit beside it.
SocketReady == conn = "open" => Len(toBroker) < SocketRoom

Return(r) == wpc' = "returned" /\ result' = r

\* drain_pubrels at the top of the loop: one PUBREL written.
DrainPubrel ==
    /\ wpc = "top" /\ pubrels # <<>> /\ SocketReady
    /\ pubrels' = Tail(pubrels)
    /\ Deliver(<<Pubrel(Head(pubrels))>>)
    /\ UNCHANGED <<writerVars, ackVars, windowVars, brokerVars, stop, conn, fromBroker>>

\* ... or failing, which leaves run through `?`.
DrainPubrelFails ==
    /\ wpc = "top" /\ pubrels # <<>> /\ MayFail
    /\ Return("err")
    /\ pubrels' = <<>>
    /\ UNCHANGED <<sent, nextId, windowClosed, published, pubErrors, ackVars,
                   windowVars, brokerVars, stop, conn, toBroker, fromBroker>>

\* The channel is empty: the quota, then the stop signal, else on to the next
\* message, through the pacing sleep when there is a rate.
LoopTop ==
    /\ wpc = "top" /\ pubrels = <<>>
    /\ wpc' = CASE sent >= Quota \/ stop -> "drain"
                [] ~(sent >= Quota \/ stop) /\ Paced -> "pace"
                [] OTHER -> IF QoS = 0 THEN "insert" ELSE "acquire"
    /\ UNCHANGED <<sent, nextId, windowClosed, result, published, pubErrors, ackVars,
                   windowVars, brokerVars, pubrels, stop, conn, toBroker, fromBroker>>

\* The select of the scheduled instant and the stop signal.
Pace ==
    /\ wpc = "pace"
    /\ \/ wpc' = IF QoS = 0 THEN "insert" ELSE "acquire"
       \/ stop /\ wpc' = "drain"
    /\ UNCHANGED <<sent, nextId, windowClosed, result, published, pubErrors, ackVars,
                   windowVars, brokerVars, pubrels, stop, conn, toBroker, fromBroker>>

\* Mutant: the window is not waited for.
AcquireUnguarded ==
    /\ wpc = "acquire" /\ ~closed
    /\ permits' = permits - 1
    /\ wpc' = "insert"
    /\ UNCHANGED <<sent, nextId, windowClosed, result, published, pubErrors, ackVars,
                   closed, inFlight, brokerVars, pubrels, stop, conn, toBroker, fromBroker>>

\* The select of acquire_owned and the stop signal: a permit ...
Acquire ==
    /\ wpc = "acquire" /\ permits > 0 /\ ~closed
    /\ permits' = permits - 1
    /\ wpc' = "insert"
    /\ UNCHANGED <<sent, nextId, windowClosed, result, published, pubErrors, ackVars,
                   closed, inFlight, brokerVars, pubrels, stop, conn, toBroker, fromBroker>>

\* ... a closed semaphore ...
AcquireClosed ==
    /\ wpc = "acquire" /\ closed
    /\ windowClosed' = TRUE
    /\ wpc' = "disconnect"
    /\ UNCHANGED <<sent, nextId, result, published, pubErrors, ackVars,
                   windowVars, brokerVars, pubrels, stop, conn, toBroker, fromBroker>>

\* Mutant: the select has no arm for the stop signal.
AcquireDeaf == FALSE /\ UNCHANGED vars

\* ... or the stop signal.
AcquireStopped ==
    /\ wpc = "acquire" /\ stop
    /\ wpc' = "drain"
    /\ UNCHANGED <<sent, nextId, windowClosed, result, published, pubErrors, ackVars,
                   windowVars, brokerVars, pubrels, stop, conn, toBroker, fromBroker>>

\* The packet identifier, and its entry in in_flight before the write.
Insert ==
    /\ wpc = "insert"
    /\ IF QoS = 0 THEN UNCHANGED <<nextId, inFlight>>
       ELSE /\ nextId' = NextId(nextId)
            /\ inFlight' = [inFlight EXCEPT ![NextId(nextId)] = sent + 1]
    /\ wpc' = "write"
    /\ UNCHANGED <<sent, windowClosed, result, published, pubErrors, ackVars, permits,
                   closed, brokerVars, pubrels, stop, conn, toBroker, fromBroker>>

\* The PUBLISH is written; the ack task may see its answer from here on.
WritePublish ==
    /\ wpc = "write" /\ SocketReady
    /\ Deliver(<<Publish(IF QoS = 0 THEN 0 ELSE nextId, sent + 1)>>)
    /\ wpc' = "count"
    /\ UNCHANGED <<sent, nextId, windowClosed, result, published, pubErrors, ackVars,
                   windowVars, brokerVars, pubrels, stop, conn, fromBroker>>

\* Mutant: a failed write leaves its entry in in_flight.
WriteFailsKeepsEntry ==
    /\ wpc = "write" /\ MayFail
    /\ pubErrors' = pubErrors + 1
    /\ permits' = IF QoS = 0 THEN permits ELSE permits + 1
    /\ Return("err")
    /\ pubrels' = <<>>
    /\ UNCHANGED <<sent, nextId, windowClosed, published, ackVars, closed, inFlight,
                   brokerVars, stop, conn, toBroker, fromBroker>>

\* The write fails: the entry is removed, the permit drops back into the
\* semaphore, and run returns without joining the ack task.
WriteFails ==
    /\ wpc = "write" /\ MayFail
    /\ pubErrors' = pubErrors + 1
    /\ IF QoS = 0 THEN UNCHANGED <<inFlight, permits>>
       ELSE /\ inFlight' = [inFlight EXCEPT ![nextId] = NoMsg]
            /\ permits' = permits + 1
    /\ Return("err")
    /\ pubrels' = <<>>
    /\ UNCHANGED <<sent, nextId, windowClosed, published, ackVars, closed,
                   brokerVars, stop, conn, toBroker, fromBroker>>

\* Mutant: a write that completes after the stop signal is not counted.
CountPublishedUnlessStopped ==
    /\ wpc = "count"
    /\ published' = IF stop THEN published ELSE published + 1
    /\ sent' = sent + 1
    /\ wpc' = "top"
    /\ UNCHANGED <<nextId, windowClosed, result, pubErrors, ackVars,
                   windowVars, brokerVars, pubrels, stop, conn, toBroker, fromBroker>>

\* The counters after a successful write; the permit is forgotten.
CountPublished ==
    /\ wpc = "count"
    /\ published' = published + 1
    /\ sent' = sent + 1
    /\ wpc' = "top"
    /\ UNCHANGED <<nextId, windowClosed, result, pubErrors, ackVars,
                   windowVars, brokerVars, pubrels, stop, conn, toBroker, fromBroker>>

\* The drain loop: a PUBREC can still land.  A failed write is ignored.
DrainTick ==
    /\ wpc = "drain" /\ InFlightIds # {} /\ pubrels # <<>> /\ SocketReady
    /\ pubrels' = Tail(pubrels)
    /\ Deliver(<<Pubrel(Head(pubrels))>>)
    /\ UNCHANGED <<writerVars, ackVars, windowVars, brokerVars, stop, conn, fromBroker>>

\* Nothing is in flight any more, or the five seconds are over.  The PUBRELs
\* left in the channel are written together with the DISCONNECT that follows.
DrainDone ==
    /\ wpc = "drain" /\ SocketReady
    /\ InFlightIds = {} \/ Timeouts
    /\ Deliver([i \in 1..Len(pubrels) |-> Pubrel(pubrels[i])] \o <<Disconnect>>)
    /\ pubrels' = <<>>
    /\ wpc' = "join"
    /\ UNCHANGED <<sent, nextId, windowClosed, result, published, pubErrors, ackVars,
                   windowVars, brokerVars, stop, conn, fromBroker>>

\* A closed window skips the drain loop and its PUBRELs.
DisconnectClosed ==
    /\ wpc = "disconnect" /\ SocketReady
    /\ Deliver(<<Disconnect>>)
    /\ wpc' = "join"
    /\ UNCHANGED <<sent, nextId, windowClosed, result, published, pubErrors, ackVars,
                   windowVars, brokerVars, pubrels, stop, conn, fromBroker>>

\* The ack task ended within the limit.
Join ==
    /\ wpc = "join" /\ apc = "ended"
    /\ Return(IF readError \/ windowClosed THEN "err" ELSE "ok")
    /\ UNCHANGED <<sent, nextId, windowClosed, published, pubErrors, ackVars,
                   windowVars, brokerVars, pubrels, stop, conn, toBroker, fromBroker>>

\* It did not, and is aborted.
JoinTimeout ==
    /\ wpc = "join" /\ apc = "read" /\ Timeouts
    /\ apc' = "aborted"
    /\ Return("err")
    /\ UNCHANGED <<sent, nextId, windowClosed, published, pubErrors, readError, acked,
                   refused, windowVars, brokerVars, pubrels, stop, conn, toBroker, fromBroker>>

Writer ==
    \/ DrainPubrel \/ DrainPubrelFails \/ LoopTop \/ Pace
    \/ Acquire \/ AcquireClosed \/ AcquireStopped
    \/ Insert \/ WritePublish \/ WriteFails \/ CountPublished
    \/ DrainTick \/ DrainDone \/ DisconnectClosed \/ Join \/ JoinTimeout

-----------------------------------------------------------------------------
(***************************************************************************)
(* The ack task.                                                           *)
(***************************************************************************)

\* Mutant: the permit of a refused message is never given back.
CompleteAckKeepsPermit(id, err) ==
    /\ refused' = refused + (IF err THEN 1 ELSE 0)
    /\ IF inFlight[id] = NoMsg THEN UNCHANGED <<inFlight, permits, acked>>
       ELSE /\ inFlight' = [inFlight EXCEPT ![id] = NoMsg]
            /\ permits' = IF err THEN permits ELSE permits + 1
            /\ acked' = IF err THEN acked ELSE acked \cup {inFlight[id]}

\* Mutant: the entry is read and not removed.
CompleteAckKeepsEntry(id, err) ==
    /\ refused' = refused + (IF err THEN 1 ELSE 0)
    /\ UNCHANGED inFlight
    /\ IF inFlight[id] = NoMsg THEN UNCHANGED <<permits, acked>>
       ELSE /\ permits' = permits + 1
            /\ acked' = IF err THEN acked ELSE acked \cup {inFlight[id]}

\* Mutant: a refusal counts as an acknowledgement.
CompleteAckCountsRefusal(id, err) ==
    /\ refused' = refused + (IF err THEN 1 ELSE 0)
    /\ IF inFlight[id] = NoMsg THEN UNCHANGED <<inFlight, permits, acked>>
       ELSE /\ inFlight' = [inFlight EXCEPT ![id] = NoMsg]
            /\ permits' = permits + 1
            /\ acked' = acked \cup {inFlight[id]}

\* Mutant: a permit comes back for every acknowledgement, entry or not.
CompleteAckAlwaysReleases(id, err) ==
    /\ refused' = refused + (IF err THEN 1 ELSE 0)
    /\ inFlight' = [inFlight EXCEPT ![id] = NoMsg]
    /\ permits' = permits + 1
    /\ acked' = IF err \/ inFlight[id] = NoMsg THEN acked ELSE acked \cup {inFlight[id]}

\* complete_ack: the entry goes, and with it a permit comes back; only an
\* acknowledgement without error counts.  The steps of the function between
\* two awaits touch nothing the writer can tell apart.
CompleteAck(id, err) ==
    /\ refused' = refused + (IF err THEN 1 ELSE 0)
    /\ IF inFlight[id] = NoMsg THEN UNCHANGED <<inFlight, permits, acked>>
       ELSE /\ inFlight' = [inFlight EXCEPT ![id] = NoMsg]
            /\ permits' = permits + 1
            /\ acked' = IF err THEN acked ELSE acked \cup {inFlight[id]}

\* PUBACK, PUBCOMP and an erroring PUBREC end the exchange of an identifier.
Terminal(p) == p.type \in {"PUBACK", "PUBCOMP"} \/ (p.type = "PUBREC" /\ p.err)

\* Mutant: the reason code of a PUBREC is not looked at.
HandOverAny(p) == IF p.type = "PUBREC" /\ wpc # "returned"
                  THEN Append(pubrels, p.id) ELSE pubrels

\* Any other PUBREC is handed to the writer, while there is one.
HandOver(p) == IF p.type = "PUBREC" /\ ~p.err /\ wpc # "returned"
               THEN Append(pubrels, p.id) ELSE pubrels

\* One packet read by the loop; what is not an acknowledgement is ignored.
AckRead ==
    /\ apc = "read" /\ fromBroker # <<>>
    /\ LET p == Head(fromBroker) IN
         /\ IF Terminal(p) THEN CompleteAck(p.id, p.err)
            ELSE UNCHANGED <<refused, inFlight, permits, acked>>
         /\ pubrels' = HandOver(p)
    /\ fromBroker' = Tail(fromBroker)
    /\ UNCHANGED <<writerVars, apc, readError, closed, brokerVars, stop, conn, toBroker>>

\* Mutant: the end of the stream leaves the semaphore open.
AckEofLeavesOpen ==
    /\ apc = "read" /\ fromBroker = <<>> /\ conn = "eof"
    /\ apc' = "ended"
    /\ UNCHANGED <<writerVars, readError, acked, refused, windowVars, brokerVars,
                   pubrels, stop, conn, toBroker, fromBroker>>

\* The loop ends and the semaphore closes: at the end of the stream ...
AckEof ==
    /\ apc = "read" /\ fromBroker = <<>> /\ conn = "eof"
    /\ apc' = "ended"
    /\ closed' = TRUE
    /\ UNCHANGED <<writerVars, readError, acked, refused, permits, inFlight, brokerVars,
                   pubrels, stop, conn, toBroker, fromBroker>>

\* ... or at a read error, which may overtake packets already received.
AckError ==
    /\ apc = "read" /\ conn = "broken"
    /\ apc' = "ended"
    /\ readError' = TRUE
    /\ closed' = TRUE
    /\ UNCHANGED <<writerVars, acked, refused, permits, inFlight, brokerVars,
                   pubrels, stop, conn, toBroker, fromBroker>>

AckTask == AckRead \/ AckEof \/ AckError

-----------------------------------------------------------------------------
(***************************************************************************)
(* The environment: the run's stop signal, and the broker (external).      *)
(***************************************************************************)

\* Ctrl-C or the run's deadline, through the watch channel of bench::run.
RequestStop ==
    /\ ~stop /\ wpc # "returned"
    /\ stop' = TRUE
    /\ UNCHANGED <<writerVars, ackVars, windowVars, brokerVars,
                   pubrels, conn, toBroker, fromBroker>>

Reply(p) == fromBroker' = Append(fromBroker, p)

BrokerPublish(p, err) ==
    \/ /\ QoS = 0
       /\ accepted' = accepted \cup {p.msg}
       /\ UNCHANGED <<awaiting, fromBroker>>
    \/ /\ QoS = 1
       /\ accepted' = IF err THEN accepted ELSE accepted \cup {p.msg}
       /\ Reply(Ack("PUBACK", p.id, err))
       /\ UNCHANGED awaiting
    \/ /\ QoS = 2 /\ awaiting[p.id] # NoMsg      \* a retransmission, it thinks
       /\ Reply(Ack("PUBREC", p.id, FALSE))
       /\ UNCHANGED <<awaiting, accepted>>
    \/ /\ QoS = 2 /\ awaiting[p.id] = NoMsg
       /\ Reply(Ack("PUBREC", p.id, err))
       /\ IF err THEN UNCHANGED <<awaiting, accepted>>
          ELSE /\ awaiting' = [awaiting EXCEPT ![p.id] = p.msg]
               /\ accepted' = accepted \cup {p.msg}

\* The broker reads and answers one packet; DISCONNECT makes it close.
BrokerRead ==
    /\ conn = "open" /\ toBroker # <<>>
    /\ toBroker' = Tail(toBroker)
    /\ LET p == Head(toBroker) IN
         \/ /\ p.type = "PUBLISH"
            /\ \E err \in Codes : BrokerPublish(p, err)
            /\ UNCHANGED conn
         \/ /\ p.type = "PUBREL"
            /\ Reply(Ack("PUBCOMP", p.id, awaiting[p.id] = NoMsg))
            /\ awaiting' = [awaiting EXCEPT ![p.id] = NoMsg]
            /\ UNCHANGED <<accepted, conn>>
         \/ /\ p.type = "DISCONNECT"
            /\ conn' = "eof"
            /\ UNCHANGED <<awaiting, accepted, fromBroker>>
    /\ UNCHANGED <<writerVars, ackVars, windowVars, pubrels, stop, strays>>

\* An acknowledgement nobody waits for: a duplicate, or a wrong identifier.
BrokerStray ==
    /\ conn = "open" /\ strays < MaxStray
    /\ strays' = strays + 1
    /\ \E type \in AckTypes, id \in Ids, err \in Codes : Reply(Ack(type, id, err))
    /\ UNCHANGED <<writerVars, ackVars, windowVars, awaiting, accepted,
                   pubrels, stop, conn, toBroker>>

\* The broker goes away early, with or without a DISCONNECT of its own, or the
\* stream breaks: a reset, or bytes that are no packet.
ConnectionLost ==
    /\ conn = "open"
    /\ conn' \in Faults
    /\ fromBroker' \in {fromBroker, Append(fromBroker, Ack("DISCONNECT", 0, FALSE))}
    /\ UNCHANGED <<writerVars, ackVars, windowVars, brokerVars, pubrels, stop, toBroker>>

Finished == wpc = "returned" /\ UNCHANGED vars

Next == Writer \/ AckTask \/ RequestStop \/ BrokerRead \/ BrokerStray
        \/ ConnectionLost \/ Finished

Spec == Init /\ [][Next]_vars

\* The executor polls a task that is ready, and timers fire.
FairClient == WF_vars(Writer) /\ WF_vars(AckTask)

\* A client on its own, and one whose broker keeps reading and answering.
ClientSpec == Spec /\ FairClient
FairSpec == ClientSpec /\ WF_vars(BrokerRead)

-----------------------------------------------------------------------------
(***************************************************************************)
(* Properties.                                                             *)
(***************************************************************************)

\* Type correctness of the state of publisher::run, its ack task and its peer.
TypeOK ==
    /\ wpc \in {"top", "pace", "acquire", "insert", "write", "count",
                "drain", "disconnect", "join", "returned"}
    /\ sent \in Nat /\ nextId \in 0..MaxId /\ windowClosed \in BOOLEAN
    /\ wpc = "write" /\ QoS # 0 => nextId \in Ids
    /\ result \in {"none", "ok", "err"}
    /\ apc \in {"read", "ended", "aborted"} /\ readError \in BOOLEAN
    /\ permits \in Nat /\ closed \in BOOLEAN
    /\ inFlight \in [Ids -> Nat]
    /\ pubrels \in Seq(Ids)
    /\ published \in Nat /\ pubErrors \in Nat /\ acked \in SUBSET Nat /\ refused \in Nat
    /\ stop \in BOOLEAN
    /\ conn \in {"open", "eof", "broken"}
    /\ toBroker \in Seq(ToBroker) /\ fromBroker \in Seq(FromBroker)
    /\ awaiting \in [Ids -> Nat] /\ accepted \in SUBSET Nat /\ strays \in Nat

\* Permits taken and not yet entered into in_flight.
Pending == IF wpc = "insert" /\ QoS # 0 THEN 1 ELSE 0

\* Whatever the broker sends, the free permits and the messages in flight never
\* exceed the window while the publisher runs: complete_ack gives a permit back
\* only for an entry it removed, and the writer forgets the permit it spent.
WindowBounded ==
    wpc # "returned" => permits + Cardinality(InFlightIds) + Pending <= Window

\* With a broker that answers each message once, no permit is lost either: every
\* permit is free, held by the writer, or owned by a message in flight.
WindowConserved ==
    wpc # "returned" => permits + Cardinality(InFlightIds) + Pending = Window

\* The comment at `let window`: two outstanding messages never share a packet
\* identifier, or in_flight.insert would overwrite the older one.
NoIdCollision == wpc = "insert" /\ QoS # 0 => inFlight[NextId(nextId)] = NoMsg

\* The broker never holds more QoS > 0 messages than its Receive Maximum, counting
\* those it has not read yet (effective_inflight, MQTT 3.2.2.3.3).
ReceiveMaximumRespected ==
    QoS # 0 =>
      \A n \in ReceiveMaximum :
        Cardinality({i \in DOMAIN toBroker : toBroker[i].type = "PUBLISH"})
          + Cardinality({id \in Ids : awaiting[id] # NoMsg}) <= IF n < 1 THEN 1 ELSE n

\* A message counted as acknowledged, and timed, is one the broker accepted: an
\* acknowledgement is never matched with another message's entry.
AckMeansAccepted == acked \subseteq accepted

\* Every message written is acknowledged, refused or still in flight: complete_ack
\* and the failing write drop or count none twice.
Accounting ==
    QoS # 0 => published + (IF wpc \in {"write", "count"} THEN 1 ELSE 0)
                 = Cardinality(acked) + refused + Cardinality(InFlightIds)

\* 4.3.3 as the ack task quotes it: a PUBREL goes only to a broker that holds the
\* message, never after a refusing PUBREC and never twice.
PubrelAnswersPubrec ==
    \A i \in DOMAIN toBroker : toBroker[i].type = "PUBREL" => awaiting[toBroker[i].id] # NoMsg

\* When the publisher returns, counters.published covers every message the broker
\* accepted: a write that reached the broker is counted on every path out of run.
PublishedCoversAccepted == wpc = "returned" => Cardinality(accepted) <= published

\* The writer awaits a write that the broker, by not reading, does not let it finish.
WriteBlocked ==
    /\ ~SocketReady
    /\ wpc \in {"write", "drain", "disconnect"} \/ (wpc = "top" /\ pubrels # <<>>)

\* Once the run is told to stop the publisher returns, whatever the broker answers or does
\* not answer, unless a write waits for ever for the broker to read: every wait of
\* publisher::run but write_packet has the stop signal or a limit beside it.
StopEndsPublisher == (stop ~> wpc = "returned") \/ <>[]WriteBlocked

\* Once the connection is lost the publisher returns without waiting for a stop: the
\* ack task closes the semaphore the writer may be waiting for.
LossEndsPublisher == conn # "open" ~> wpc = "returned"

\* A QoS 1 run limited by --count ends by itself when its broker keeps reading and
\* answering, without a stop signal: no refusal, stray acknowledgement or lost
\* connection leaves the writer waiting for a permit that never comes.
CountRunCompletes == WF_vars(BrokerRead) => <>(stop \/ wpc = "returned")

\* The module comment of publisher.rs: the writer drains the channel of PUBRECs
\* between publishes, writing one PUBREL per identifier.
PubrecIsAnswered == pubrels # <<>> ~> (pubrels = <<>> \/ conn # "open")

\* The window as the report and the broker see it.
Abstract == INSTANCE AckWindow WITH
    last    <- IF wpc \in {"write", "count"} \/ pubErrors > 0 THEN sent + 1 ELSE sent,
    unacked <- {inFlight[id] : id \in InFlightIds},
    ended   <- wpc = "returned"

\* publisher::run implements the abstract window: messages go out in order, at most
\* Window wait for an answer, each is answered at most once.
ImplementsAckWindow == Abstract!Spec
=============================================================================
