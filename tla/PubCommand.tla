----------------------------- MODULE PubCommand -----------------------------
(***************************************************************************)
(* `wispmq-cli pub` (src/src/publish.rs over src/src/client.rs), run       *)
(* several times with one client identifier: connect, publish one message  *)
(* per line and finish its QoS handshake before the next, disconnect.  A   *)
(* run may be killed at any point and the command started again.           *)
(*                                                                         *)
(* The broker is external: it answers in order, and keeps the session of   *)
(* the client across runs when --persistent-session asks for it.  A        *)
(* message is numbered in the order of publishing over all runs.           *)
(***************************************************************************)
EXTENDS Integers, Sequences, FiniteSets

CONSTANTS
    QoS,         \* args.qos
    Lines,       \* messages per run: one, or the lines of --stdin-lines
    MaxRuns,     \* bound: runs of the command
    MaxId,       \* u16::MAX, the largest packet identifier
    Codes,       \* reason codes the broker may answer with: TRUE is an error
    Crashes,     \* whether a run may be killed
    Faults       \* whether the broker may drop the connection

ASSUME PubAssumption ==
    /\ QoS \in 0..2 /\ Lines \in Nat /\ MaxRuns \in Nat /\ MaxId \in Nat \ {0}
    /\ {Crashes, Faults} \subseteq BOOLEAN
    /\ Codes \in SUBSET BOOLEAN

Ids == 1..MaxId

\* Mutant: the identifier does not wrap.
NextPacketIdUnbounded(id) == id + 1

\* Client::next_packet_id: u16::wrapping_add(1), skipping 0.
NextPacketId(id) == LET n == (id + 1) % (MaxId + 1) IN IF n = 0 THEN 1 ELSE n

VARIABLES
    persistent, \* --persistent-session, on v3.x where the session outlives its connection
    cpc,        \* where the process is: "off" when none runs
    exit,       \* exit status of the last run: "none", "ok", "err" or "killed"
    runs,       \* runs started
    broken,     \* history: runs that failed or were killed
    line,       \* messages this run published
    nextId,     \* client.next_packet_id
    msg,        \* number of the last message published, over all runs
    confirmed,  \* messages whose publish_one returned Ok
    conn,       \* "down", "open", or "eof" once the broker dropped it
    toBroker, fromBroker,
    awaiting,   \* broker: session's QoS 2 identifiers waiting for PUBREL
    accepted    \* broker: messages it took

vars == <<persistent, cpc, exit, runs, broken, line, nextId, msg, confirmed, conn, toBroker, fromBroker,
          awaiting, accepted>>
clientVars == <<persistent, cpc, exit, runs, broken, line, nextId, msg, confirmed>>

Packet(type, id, m) == [type |-> type, id |-> id, msg |-> m]
Answer(type, err) == [type |-> type, err |-> err]

Init ==
    /\ persistent \in BOOLEAN
    /\ cpc = "off" /\ exit = "none" /\ runs = 0 /\ broken = 0 /\ line = 0 /\ nextId = 0 /\ msg = 0
    /\ confirmed = {}
    /\ conn = "down" /\ toBroker = <<>> /\ fromBroker = <<>>
    /\ awaiting = {} /\ accepted = {}

-----------------------------------------------------------------------------
\* write_packet: lost, or failing, once the broker is gone.
Send(p) == toBroker' = IF conn = "open" THEN Append(toBroker, p) ELSE toBroker
SendMayFail == conn # "open"

Exit(status) ==
    /\ cpc' = "off" /\ exit' = status
    /\ broken' = IF status = "ok" THEN broken ELSE broken + 1

\* Client::connect: dial, CONNECT with clean_start = !--persistent-session.
Start ==
    /\ cpc = "off" /\ conn = "down" /\ runs < MaxRuns
    /\ runs' = runs + 1
    /\ cpc' = "connect" /\ exit' = "none"
    /\ line' = 0 /\ nextId' = 0
    /\ conn' = "open"
    /\ toBroker' = <<Packet("CONNECT", 0, 0)>> /\ fromBroker' = <<>>
    /\ UNCHANGED <<persistent, broken, msg, confirmed, awaiting, accepted>>

\* handshake: a successful CONNACK, or the end of the run.
Handshake ==
    /\ cpc = "connect" /\ fromBroker # <<>>
    /\ fromBroker' = Tail(fromBroker)
    /\ IF Head(fromBroker).type = "CONNACK" /\ ~Head(fromBroker).err
       THEN cpc' = "line" /\ UNCHANGED <<exit, broken>> ELSE Exit("err")
    /\ UNCHANGED <<persistent, runs, line, nextId, msg, confirmed, conn, toBroker, awaiting, accepted>>

\* Mutant: the next line does not wait for the acknowledgement.
PublishLineAtOnce ==
    /\ cpc = "line" /\ line < Lines
    /\ msg' = msg + 1
    /\ nextId' = IF QoS = 0 THEN nextId ELSE NextPacketId(nextId)
    /\ Send(Packet("PUBLISH", nextId', msg'))
    /\ line' = line + 1
    /\ UNCHANGED <<persistent, cpc, exit, broken, runs, confirmed, conn, fromBroker, awaiting, accepted>>

\* publish_one up to its first wait; QoS 0 waits for nothing.
PublishLine ==
    /\ cpc = "line" /\ line < Lines
    /\ msg' = msg + 1
    /\ nextId' = IF QoS = 0 THEN nextId ELSE NextPacketId(nextId)
    /\ \/ /\ Send(Packet("PUBLISH", nextId', msg'))
          /\ line' = line + 1
          /\ cpc' = (IF QoS = 0 THEN "line" ELSE "ack")
          /\ UNCHANGED <<exit, broken>>
       \/ SendMayFail /\ Exit("err") /\ UNCHANGED <<line, toBroker>>
    /\ UNCHANGED <<persistent, runs, confirmed, conn, fromBroker, awaiting, accepted>>

\* The next line of stdin cannot be read: `?` in the loop over the lines.
LineFails ==
    /\ cpc = "line" /\ line < Lines
    /\ Exit("err")
    /\ UNCHANGED <<persistent, runs, line, nextId, msg, confirmed, conn, toBroker, fromBroker,
                   awaiting, accepted>>

\* Mutant: the reason code is not checked.
ExpectAckUnchecked ==
    /\ cpc \in {"ack", "comp"} /\ fromBroker # <<>>
    /\ Head(fromBroker).type \in {"PUBACK", "PUBREC", "PUBCOMP"}
    /\ fromBroker' = Tail(fromBroker)
    /\ \/ /\ QoS = 2 /\ cpc = "ack"
          /\ Send(Packet("PUBREL", nextId, 0)) /\ cpc' = "comp"
          /\ UNCHANGED <<exit, broken, confirmed>>
       \/ /\ QoS = 1 \/ cpc = "comp"
          /\ confirmed' = confirmed \cup {msg}
          /\ cpc' = "line" /\ UNCHANGED <<exit, broken, toBroker>>
    /\ UNCHANGED <<persistent, runs, line, nextId, msg, conn, awaiting, accepted>>

\* expect_ack and check: any acknowledgement will do, whatever its type and its
\* identifier.  The first one of QoS 2 is followed by the PUBREL.
ExpectAck ==
    /\ cpc \in {"ack", "comp"} /\ fromBroker # <<>>
    /\ Head(fromBroker).type \in {"PUBACK", "PUBREC", "PUBCOMP"}
    /\ fromBroker' = Tail(fromBroker)
    /\ \/ /\ Head(fromBroker).err
          /\ Exit("err") /\ UNCHANGED <<confirmed, toBroker>>
       \/ /\ ~Head(fromBroker).err /\ QoS = 2 /\ cpc = "ack"
          /\ \/ Send(Packet("PUBREL", nextId, 0)) /\ cpc' = "comp" /\ UNCHANGED <<exit, broken>>
             \/ SendMayFail /\ Exit("err") /\ UNCHANGED toBroker
          /\ UNCHANGED confirmed
       \/ /\ ~Head(fromBroker).err /\ (QoS = 1 \/ cpc = "comp")
          /\ confirmed' = confirmed \cup {msg}
          /\ cpc' = "line" /\ UNCHANGED <<exit, broken, toBroker>>
    /\ UNCHANGED <<persistent, runs, line, nextId, msg, conn, awaiting, accepted>>

\* Any other packet than a PINGRESP is an error of the run.
ExpectAckFails ==
    /\ cpc \in {"ack", "comp"} /\ fromBroker # <<>>
    /\ Head(fromBroker).type \in {"DISCONNECT", "PUBLISH"}
    /\ fromBroker' = Tail(fromBroker)
    /\ Exit("err")
    /\ UNCHANGED <<persistent, runs, line, nextId, msg, confirmed, conn, toBroker, awaiting, accepted>>

\* Mutant: the end of the stream reads as nothing new.
RecvEofRetries == FALSE /\ UNCHANGED vars

\* Client::recv: the end of the stream is an error.
RecvEof ==
    /\ cpc \in {"connect", "ack", "comp"} /\ fromBroker = <<>> /\ conn = "eof"
    /\ Exit("err")
    /\ UNCHANGED <<persistent, runs, line, nextId, msg, confirmed, conn, toBroker, fromBroker,
                   awaiting, accepted>>

\* Client::disconnect after the last line.
DisconnectAndExit ==
    /\ cpc = "line" /\ line = Lines
    /\ \/ Send(Packet("DISCONNECT", 0, 0)) /\ Exit("ok")
       \/ SendMayFail /\ Exit("err") /\ UNCHANGED toBroker
    /\ UNCHANGED <<persistent, runs, line, nextId, msg, confirmed, conn, fromBroker, awaiting, accepted>>

Kill ==
    /\ Crashes /\ cpc # "off"
    /\ Exit("killed")
    /\ UNCHANGED <<persistent, runs, line, nextId, msg, confirmed, conn, toBroker, fromBroker,
                   awaiting, accepted>>

Command == Handshake \/ PublishLine \/ LineFails \/ ExpectAck \/ ExpectAckFails \/ RecvEof
           \/ DisconnectAndExit

-----------------------------------------------------------------------------
(***************************************************************************)
(* The broker (external).  What a process wrote before it ended may still  *)
(* be read, or be lost with the connection.                                *)
(***************************************************************************)
Reply(answers) == fromBroker' = fromBroker \o answers

BrokerConnect ==
    /\ awaiting' = IF persistent THEN awaiting ELSE {}
    /\ \E err \in Codes :
         \/ Reply(<<Answer("CONNACK", err)>>)
         \/ \* a resumed session may have a message queued for the client
            persistent /\ ~err /\ Reply(<<Answer("CONNACK", err), Answer("PUBLISH", FALSE)>>)
    /\ UNCHANGED <<accepted, conn>>

BrokerPublish(p) ==
    /\ \E err \in Codes :
         LET taken == /\ ~err
                      /\ QoS = 2 => p.id \notin awaiting     \* else a duplicate
         IN  /\ accepted' = IF taken \/ QoS = 0 THEN accepted \cup {p.msg} ELSE accepted
             /\ awaiting' = IF taken /\ QoS = 2 THEN awaiting \cup {p.id} ELSE awaiting
             /\ Reply(IF QoS = 0 THEN <<>>
                      ELSE <<Answer(IF QoS = 1 THEN "PUBACK" ELSE "PUBREC",
                                    err /\ p.id \notin awaiting)>>)
    /\ UNCHANGED conn

BrokerRead ==
    /\ conn = "open" /\ toBroker # <<>>
    /\ toBroker' = Tail(toBroker)
    /\ LET p == Head(toBroker) IN
         \/ p.type = "CONNECT" /\ BrokerConnect
         \/ p.type = "PUBLISH" /\ BrokerPublish(p)
         \/ /\ p.type = "PUBREL"
            /\ awaiting' = awaiting \ {p.id}
            /\ Reply(<<Answer("PUBCOMP", p.id \notin awaiting)>>)
            /\ UNCHANGED <<accepted, conn>>
         \/ /\ p.type = "DISCONNECT"
            /\ conn' = "down"
            /\ UNCHANGED <<awaiting, accepted, fromBroker>>
    /\ UNCHANGED clientVars

\* The broker drops a client, with or without saying why.
BrokerDrops ==
    /\ conn = "open" /\ cpc # "off" /\ Faults
    /\ conn' = "eof"
    /\ fromBroker' \in {fromBroker, Append(fromBroker, Answer("DISCONNECT", TRUE))}
    /\ UNCHANGED <<clientVars, toBroker, awaiting, accepted>>

\* The connection of a process that is gone goes away.
ConnectionEnds ==
    /\ cpc = "off" /\ conn # "down"
    /\ conn' = "down"
    /\ UNCHANGED <<clientVars, toBroker, fromBroker, awaiting, accepted>>

Finished == cpc = "off" /\ conn = "down" /\ runs = MaxRuns /\ UNCHANGED vars

Next == Start \/ Command \/ Kill \/ BrokerRead \/ BrokerDrops \/ ConnectionEnds \/ Finished

Spec == Init /\ [][Next]_vars
FairSpec == Spec /\ WF_vars(Command) /\ WF_vars(BrokerRead)

-----------------------------------------------------------------------------
\* Type correctness of the command and of its session.
TypeOK ==
    /\ cpc \in {"off", "connect", "line", "ack", "comp"}
    /\ exit \in {"none", "ok", "err", "killed"}
    /\ runs \in 0..MaxRuns /\ broken \in 0..runs /\ line \in 0..Lines /\ nextId \in 0..MaxId /\ msg \in Nat
    /\ confirmed \subseteq 1..msg /\ accepted \subseteq 1..msg
    /\ conn \in {"down", "open", "eof"}
    /\ awaiting \subseteq Ids

\* publish_one: a message reported as published was accepted by the broker; with exit
\* status 0 this holds for every message of the run.  Every process starts its identifiers
\* at 1, so in a persistent session the PUBLISH of a run may pass for a duplicate of the one
\* an earlier run left between PUBREC and PUBCOMP: each broken run costs one message at most,
\* and a clean session none.
ConfirmedIsAccepted ==
    /\ Cardinality(confirmed \ accepted) <= IF persistent THEN broken ELSE 0
    /\ exit = "ok" /\ QoS > 0 => (msg - Lines + 1)..msg \subseteq confirmed

\* The comment in publish_one: QoS 1 and 2 finish their handshake before the next
\* publish or the exit, so the broker never sees two messages of a run under way, and no
\* delivery is incomplete when the exit status is 0, but for one of each broken run whose
\* session persists.
HandshakeFinishes ==
    LET left == IF persistent THEN broken ELSE 0 IN
    QoS > 0 =>
      /\ Cardinality({i \in DOMAIN toBroker : toBroker[i].type = "PUBLISH"})
           + Cardinality(awaiting) <= 1 + left
      /\ exit = "ok" => Cardinality(awaiting) <= left

\* A run ends, whatever the broker refuses and wherever the connection drops, as long as
\* the broker does not fall silent: no wait of the command outlives its connection.
RunEnds == cpc # "off" ~> cpc = "off"
=============================================================================
