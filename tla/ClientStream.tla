---------------------------- MODULE ClientStream ----------------------------
(***************************************************************************)
(* The byte stream under a client over WebSocket: WsByteStream             *)
(* (src/src/transport/ws.rs) between the MQTT framing and the frames of    *)
(* the socket, and Client::recv_keepalive (src/src/client.rs) on top of    *)
(* it.  A `sub` or `request` client reads and writes in one task; a bench  *)
(* publisher splits the stream and does both at once, one poll at a time.  *)
(*                                                                         *)
(* Bytes are numbered in each direction; packet p is the bytes             *)
(* (p-1)*PacketLen+1 .. p*PacketLen.  The WebSocket library, the framing   *)
(* functions read_packet and write_packet, and the broker are external.    *)
(* Time passes in ticks, and only when the client has nothing to do.       *)
(***************************************************************************)
EXTENDS Integers, FiniteSets, Sequences, SequencesExt, FiniteSetsExt

CONSTANTS
    PacketLen,   \* bytes of a packet
    Inbound,     \* bound: packets the broker sends
    Outbound,    \* bound: packets the client writes
    MaxFrame,    \* bound: bytes of one frame of the broker
    Controls,    \* bound: WebSocket Pings of the broker
    KeepAlive,   \* args.keepalive in ticks, even; 0 disables it
    MaxTime      \* bound: ticks

ASSUME StreamAssumption ==
    /\ {PacketLen, MaxFrame} \subseteq Nat \ {0}
    /\ {Inbound, Outbound, Controls, KeepAlive, MaxTime} \subseteq Nat
    /\ KeepAlive % 2 = 0

Numbers(from, to) == [i \in 1..(to - from + 1) |-> from + i - 1]
PacketBytes(p) == Numbers((p - 1) * PacketLen + 1, p * PacketLen)

VARIABLES
    split,      \* a bench connection, reading and writing at once
    writeBuf, sending,   \* WsByteStream::write_buf and sending
    sink,       \* frames the WebSocket library has not written yet
    wire,       \* frames on their way to the broker
    wpc,        \* "idle", "flush" while write_packet awaits its flush, or "failed"
    written,    \* packets handed to write_packet
    incoming,   \* messages that wait to be read from the socket
    produced, controls, closed,   \* broker: bytes sent, Pings sent, Close sent
    readBuf, readPos,    \* WsByteStream::read_buf and read_pos
    got,        \* every byte poll_read delivered
    partial,    \* the packet read_packet is in the middle of
    packets,    \* the packets recv returned
    rpc,        \* "recv", or how the reader ended: "eof", "lost" or "malformed"
    torn,       \* history: a timeout dropped a half-read packet
    waited,     \* ticks of the current timeout
    silent, heard,   \* ticks since the last packet written, and since the last one read
    now

writeVars == <<writeBuf, sending, sink, wire, wpc, written>>
readVars == <<readBuf, readPos, got, partial, packets, rpc, torn>>
brokerVars == <<produced, controls, closed>>
timeVars == <<waited, silent, heard, now>>
vars == <<split, writeVars, incoming, brokerVars, readVars, timeVars>>

Message(kind, bytes) == [kind |-> kind, bytes |-> bytes]

\* WsByteStream::new, in a client of either kind.
Init ==
    /\ split \in BOOLEAN
    /\ writeBuf = <<>> /\ sending = FALSE /\ sink = <<>> /\ wire = <<>>
    /\ wpc = "idle" /\ written = 0
    /\ incoming = <<>> /\ produced = 0 /\ controls = 0 /\ closed = FALSE
    /\ readBuf = <<>> /\ readPos = 0 /\ got = <<>>
    /\ partial = <<>> /\ packets = <<>> /\ rpc = "recv" /\ torn = FALSE
    /\ waited = 0 /\ silent = 0 /\ heard = 0 /\ now = 0

-----------------------------------------------------------------------------
(***************************************************************************)
(* Reading.                                                                *)
(***************************************************************************)

\* The messages poll_read loops over: those without MQTT bytes, and empty frames.
Skipped(m) == m.kind = "ping" \/ (m.kind = "binary" /\ m.bytes = <<>>)
Next1 == SelectInSeq(incoming, LAMBDA m : ~Skipped(m))
Drained == readPos = Len(readBuf)
NothingToRead == Drained /\ Next1 = 0

\* The library answers each Ping it reads with a Pong, unsent until the next flush.
Pongs(messages) == [i \in 1..Cardinality({j \in 1..Len(messages) : messages[j].kind = "ping"})
                      |-> Message("pong", <<>>)]

\* read_packet (external) takes up to cap bytes; recv returns when the packet is
\* complete.  Bytes that do not start a packet are an error or pass for one.
TakeBytes(bytes) ==
    /\ got' = got \o bytes
    /\ LET read == partial \o bytes IN
         IF Len(read) < PacketLen
         THEN partial' = read /\ UNCHANGED <<packets, rpc, waited, heard>>
         ELSE /\ partial' = <<>>
              /\ \/ packets' = Append(packets, read) /\ waited' = 0 /\ heard' = 0
                    /\ UNCHANGED rpc
                 \/ /\ read[1] % PacketLen # 1 % PacketLen
                    /\ rpc' = "malformed" /\ UNCHANGED <<packets, waited, heard>>

\* A task that does both reads only between two writes.
MayRead == rpc = "recv" /\ (split \/ wpc = "idle")
Wanted == PacketLen - Len(partial)

\* Mutant: the rest of a frame is dropped once a read has taken its share.
PollReadDropsRest(cap) ==
    /\ MayRead /\ Next1 > 0 /\ incoming[Next1].kind = "binary"
    /\ LET frame == incoming[Next1].bytes
           n == Min({cap, Len(frame)}) IN
         /\ readBuf' = <<>> /\ readPos' = 0
         /\ TakeBytes(SubSeq(frame, 1, n))
    /\ incoming' = SubSeq(incoming, Next1 + 1, Len(incoming))
    /\ sink' = sink \o Pongs(SubSeq(incoming, 1, Next1))
    /\ UNCHANGED <<split, writeBuf, sending, wire, wpc, written, brokerVars, torn, silent, now>>

\* WsByteStream::poll_read when it yields bytes: what is left of the last frame, or the
\* next Binary frame that has any.
PollRead(cap) ==
    /\ MayRead
    /\ \/ ~Drained /\ UNCHANGED <<incoming, sink, readBuf>>
       \/ /\ Drained /\ Next1 > 0 /\ incoming[Next1].kind = "binary"
          /\ readBuf' = incoming[Next1].bytes
          /\ incoming' = SubSeq(incoming, Next1 + 1, Len(incoming))
          /\ sink' = sink \o Pongs(SubSeq(incoming, 1, Next1))
    /\ LET from == IF Drained THEN 0 ELSE readPos
           n == Min({cap, Len(readBuf') - from}) IN
         /\ readPos' = from + n
         /\ TakeBytes(SubSeq(readBuf', from + 1, from + n))
    /\ UNCHANGED <<split, writeBuf, sending, wire, wpc, written, brokerVars, torn, silent, now>>

\* poll_read when everything that waits is skipped: Pending.
PollReadPending ==
    /\ MayRead /\ NothingToRead /\ incoming # <<>>
    /\ readBuf' = <<>> /\ readPos' = 0
    /\ incoming' = <<>> /\ sink' = sink \o Pongs(incoming)
    /\ UNCHANGED <<split, writeBuf, sending, wire, wpc, written, brokerVars,
                   got, partial, packets, rpc, torn, timeVars>>

\* A Close frame reads as the end of the stream, which recv reports as an error; so does
\* an error of the connection.
PollReadEnds ==
    /\ MayRead /\ Drained /\ Next1 > 0 /\ incoming[Next1].kind \in {"close", "reset"}
    /\ readBuf' = <<>> /\ readPos' = 0
    /\ incoming' = <<>> /\ sink' = sink \o Pongs(incoming)
    /\ rpc' = IF incoming[Next1].kind = "close" THEN "eof" ELSE "lost"
    /\ UNCHANGED <<split, writeBuf, sending, wire, wpc, written, brokerVars,
                   got, partial, packets, torn, timeVars>>

-----------------------------------------------------------------------------
(***************************************************************************)
(* Writing.                                                                *)
(***************************************************************************)

\* poll_write only buffers; write_packet then awaits the flush.
WritePacket ==
    /\ writeBuf' = writeBuf \o PacketBytes(written + 1)
    /\ written' = written + 1
    /\ wpc' = "flush"

\* A bench publisher writes when it likes.
BenchWrites ==
    /\ split /\ wpc = "idle" /\ written < Outbound
    /\ WritePacket
    /\ UNCHANGED <<split, sending, sink, wire, incoming, brokerVars, readVars, timeVars>>

\* Mutant: the buffer is taken before the library is ready for it.
PollFlushTakesFirst ==
    /\ wpc = "flush"
    /\ writeBuf' = <<>>
    /\ \/ writeBuf # <<>> /\ ~sending /\ UNCHANGED <<sink, wire, sending, wpc, silent>>
       \/ /\ wire' = wire \o sink \o (IF writeBuf = <<>> THEN <<>>
                                      ELSE <<Message("binary", writeBuf)>>)
          /\ sink' = <<>> /\ sending' = FALSE /\ wpc' = "idle" /\ silent' = 0
    /\ UNCHANGED <<split, written, incoming, brokerVars, readVars, waited, heard, now>>

\* WsByteStream::poll_flush: once the library is ready the buffer becomes one Binary
\* frame, and the flush of that frame is driven to its end over as many polls as it
\* takes.  `sending` keeps a later poll from starting another frame first.
PollFlush ==
    /\ wpc = "flush"
    /\ LET starts == ~sending /\ writeBuf # <<>>
           frames == IF starts THEN Append(sink, Message("binary", writeBuf)) ELSE sink
       IN  \/ \* poll_ready is Pending
              starts /\ UNCHANGED <<writeBuf, sending, sink, wire, wpc, silent>>
           \/ /\ writeBuf' = IF starts THEN <<>> ELSE writeBuf
              /\ \/ \* the inner poll_flush is Ready
                    /\ wire' = wire \o frames /\ sink' = <<>>
                    /\ sending' = FALSE /\ wpc' = "idle" /\ silent' = 0
                 \/ \* or Pending, with some of the frames gone
                    /\ \E k \in 0..(Len(frames) - 1) :
                         /\ wire' = wire \o SubSeq(frames, 1, k)
                         /\ sink' = SubSeq(frames, k + 1, Len(frames))
                    /\ sending' = (sending \/ starts) /\ UNCHANGED <<wpc, silent>>
    /\ UNCHANGED <<split, written, incoming, brokerVars, readVars, waited, heard, now>>

\* poll_flush on a connection that is gone: poll_ready, start_send or the inner flush
\* fails, with the buffer taken or not, and so does write_packet.
PollFlushFails ==
    /\ wpc = "flush" /\ closed
    /\ wpc' = "failed"
    /\ \/ UNCHANGED <<writeBuf, sending, sink>>
       \/ /\ ~sending /\ writeBuf # <<>> /\ writeBuf' = <<>>
          /\ \/ UNCHANGED <<sending, sink>>
             \/ sending' = TRUE /\ sink' = Append(sink, Message("binary", writeBuf))
    /\ UNCHANGED <<split, wire, written, incoming, brokerVars, readVars, timeVars>>

-----------------------------------------------------------------------------
(***************************************************************************)
(* Time.                                                                   *)
(***************************************************************************)

\* Mutant: the whole interval is waited for.
EveryInterval == KeepAlive

\* Half the negotiated interval.
Every == KeepAlive \div 2

Due == KeepAlive > 0 /\ waited >= Every

\* The timeout of recv_keepalive: the read in progress is dropped with the bytes it has
\* taken, and a PINGREQ goes out.  A packet that is there is returned first.
Timeout ==
    /\ ~split /\ MayRead /\ NothingToRead /\ Due /\ written < Outbound
    /\ partial' = <<>> /\ torn' = (torn \/ partial # <<>>)
    /\ waited' = 0
    /\ WritePacket
    /\ UNCHANGED <<split, sending, sink, wire, incoming, brokerVars,
                   readBuf, readPos, got, packets, rpc, silent, heard, now>>

\* A tick passes for a client that waits.
Tick ==
    /\ ~split /\ now < MaxTime /\ MayRead /\ NothingToRead /\ ~Due
    /\ now' = now + 1
    /\ waited' = waited + 1 /\ silent' = silent + 1 /\ heard' = heard + 1
    /\ UNCHANGED <<split, writeVars, incoming, brokerVars, readVars>>

-----------------------------------------------------------------------------
(***************************************************************************)
(* The broker (external): its frames need not match its packets.           *)
(***************************************************************************)
BrokerSends ==
    /\ ~closed /\ produced < Inbound * PacketLen
    /\ \E n \in 0..Min({MaxFrame, Inbound * PacketLen - produced}) :
         /\ n = 0 => controls < Controls    \* an empty frame counts as a control message
         /\ produced' = produced + n
         /\ controls' = IF n = 0 THEN controls + 1 ELSE controls
         /\ incoming' = Append(incoming, Message("binary", Numbers(produced + 1, produced + n)))
    /\ UNCHANGED <<split, writeVars, closed, readVars, timeVars>>

BrokerPings ==
    /\ ~closed /\ controls < Controls
    /\ controls' = controls + 1
    /\ incoming' = Append(incoming, Message("ping", <<>>))
    /\ UNCHANGED <<split, writeVars, produced, closed, readVars, timeVars>>

BrokerCloses ==
    /\ ~closed
    /\ closed' = TRUE
    /\ \E kind \in {"close", "reset"} : incoming' = Append(incoming, Message(kind, <<>>))
    /\ UNCHANGED <<split, writeVars, produced, controls, readVars, timeVars>>

\* The reader has ended, or with it the whole client when it was a write that failed.
Finished ==
    /\ closed /\ wpc # "flush"
    /\ rpc # "recv" \/ (wpc = "failed" /\ ~split)
    /\ UNCHANGED vars

Next ==
    \/ \E cap \in 1..Wanted : PollRead(cap)
    \/ PollReadPending \/ PollReadEnds \/ BenchWrites \/ PollFlush \/ PollFlushFails
    \/ Timeout \/ Tick
    \/ BrokerSends \/ BrokerPings \/ BrokerCloses \/ Finished

Spec == Init /\ [][Next]_vars

-----------------------------------------------------------------------------
(***************************************************************************)
(* Properties.                                                             *)
(***************************************************************************)
\* The MQTT bytes of a sequence of frames.
BytesOf(frames) ==
    LET upTo[n \in 0..Len(frames)] ==
          IF n = 0 THEN <<>>
          ELSE IF frames[n].kind = "binary" THEN upTo[n - 1] \o frames[n].bytes ELSE upTo[n - 1]
    IN  upTo[Len(frames)]

\* The Binary frames among the first n.
Binaries(frames, n) == Cardinality({j \in 1..n : frames[j].kind = "binary"})

FromBroker == INSTANCE BytePipe WITH in <- Numbers(1, produced), out <- got
ToBroker == INSTANCE BytePipe WITH in <- Numbers(1, written * PacketLen), out <- BytesOf(wire)

\* WsByteStream is a byte stream both ways, however frames cut the packets, Pings and
\* empty frames come between them, and polls of the two halves interleave.
ImplementsBytePipe == FromBroker!Spec /\ ToBroker!Spec

\* The comment of WsByteStream: one flushed write is one Binary frame.  A send that has
\* returned is on the wire, whole and in a frame of its own, before the next one starts.
PacketPerFrame ==
    /\ \A i \in 1..Len(wire) :
         wire[i].kind = "binary" => wire[i].bytes = PacketBytes(Binaries(wire, i))
    /\ wpc = "idle" => Binaries(wire, Len(wire)) = written

\* recv returns the broker's packets, whole and in order, until a keep-alive timeout
\* strikes in the middle of one; recv is not cancel-safe, and what it had read is lost.
IntactUnlessTorn ==
    ~torn => packets = [p \in DOMAIN packets |-> PacketBytes(p)] /\ rpc # "malformed"

\* A client that neither hears nor says anything pings within half the interval.
IdleIsPinged ==
    KeepAlive > 0 /\ ~split /\ wpc = "idle" => 2 * Min({silent, heard}) <= KeepAlive

\* The comments of recv_keepalive: pinging at half the interval and only between reads is
\* enough to keep the session, so the client is never silent for the one and a half
\* intervals after which the broker may close it.
NeverSilentTooLong == KeepAlive > 0 /\ ~split => 2 * silent <= 3 * KeepAlive
=============================================================================
