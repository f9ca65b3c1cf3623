------------------------- MODULE ClientStream_proofs -------------------------
(***************************************************************************)
(* Machine-checked proofs about ClientStream, for packets, frames and a    *)
(* keep-alive of any length, and any number of them.                       *)
(***************************************************************************)
EXTENDS ClientStream, FiniteSetTheorems, SequenceTheorems, TLAPS

-----------------------------------------------------------------------------
(***************************************************************************)
(* The inductive invariants.                                               *)
(***************************************************************************)

\* The clocks: a client that waits has been told or has said something since the timeout
\* last began.
ClockInv ==
    /\ waited \in Nat /\ silent \in Nat /\ heard \in Nat
    /\ KeepAlive > 0 => waited <= Every
    /\ ~split /\ wpc = "idle" => silent <= waited \/ heard <= waited

Frames == [kind : {"binary", "ping", "pong", "close", "reset"}, bytes : Seq(Nat)]

\* Frames that are written one after the other hold the packets in order.
Ordered(s) == \A i \in 1..Len(s) : s[i].kind = "binary" => s[i].bytes = PacketBytes(Binaries(s, i))

\* What the library was given: the frames on the wire and those it still holds.
Given == wire \o sink

\* The writer: what it was given so far is one frame for each packet, but for the packet
\* in the buffer.
WriteInv ==
    /\ wire \in Seq(Frames) /\ sink \in Seq(Frames) /\ incoming \in Seq(Frames)
    /\ written \in Nat /\ produced \in Nat
    /\ Ordered(Given)
    /\ wpc = "idle" =>
         /\ writeBuf = <<>> /\ ~sending
         /\ Binaries(wire, Len(wire)) = written /\ Binaries(Given, Len(Given)) = written
    /\ wpc = "flush" =>
         \/ /\ ~sending /\ written > 0 /\ writeBuf = PacketBytes(written)
            /\ Binaries(Given, Len(Given)) = written - 1
         \/ sending /\ writeBuf = <<>> /\ Binaries(Given, Len(Given)) = written

\* Messages that hold the bytes after a, up to b, in order: start[i] bytes precede message i.
Consecutive(messages, a, b) ==
    \E start \in [1..(Len(messages) + 1) -> 0..b] :
       /\ start[1] = a /\ start[Len(messages) + 1] = b
       /\ \A i \in 1..Len(messages) :
            /\ start[i + 1] = start[i] + Len(messages[i].bytes)
            /\ \A k \in 1..Len(messages[i].bytes) : messages[i].bytes[k] = start[i] + k

ReadType ==
    /\ incoming \in Seq(Frames) /\ readBuf \in Seq(Nat) /\ got \in Seq(Nat) /\ partial \in Seq(Nat)
    /\ packets \in Seq(Seq(Nat)) /\ produced \in Nat /\ torn \in BOOLEAN
    /\ readPos \in 0..Len(readBuf) /\ Len(partial) < PacketLen
    /\ \A i \in 1..Len(incoming) : incoming[i].kind # "binary" => incoming[i].bytes = <<>>

\* As long as the reader reads, the bytes that follow the ones it got are in readBuf, then
\* in the messages that wait, up to the last one produced.
SocketInOrder ==
    rpc = "recv" =>
      /\ \A i \in 1..Len(readBuf) : i > readPos => readBuf[i] = Len(got) + i - readPos
      /\ Consecutive(incoming, Len(got) + (Len(readBuf) - readPos), produced)

GotInOrder == Len(got) <= produced /\ \A i \in 1..Len(got) : got[i] = i

\* The bytes it got are the packets returned, and the one it is in the middle of.
PacketsInOrder ==
    ~torn => /\ rpc # "malformed"
             /\ Len(got) = Len(packets) * PacketLen + Len(partial)
             /\ \A i \in 1..Len(partial) : partial[i] = Len(packets) * PacketLen + i
             /\ \A p \in 1..Len(packets) : packets[p] = PacketBytes(p)

\* The reader: bytes leave the socket, the frame and the packet in order.
ReadInv == ReadType /\ SocketInOrder /\ GotInOrder /\ PacketsInOrder

-----------------------------------------------------------------------------
(***************************************************************************)
(* The keep-alive.                                                         *)
(***************************************************************************)

\* The smaller one of two numbers.
LEMMA MinOfTwo ==
  ASSUME NEW a \in Int, NEW b \in Int
  PROVE  Min({a, b}) \in {a, b} /\ Min({a, b}) <= a /\ Min({a, b}) <= b
<1>1. \E x \in {a, b} : \A y \in {a, b} : x <= y
  BY DEF Min
<1>2. Min({a, b}) \in {a, b} /\ \A y \in {a, b} : Min({a, b}) <= y
  BY <1>1 DEF Min
<1> QED
  BY <1>2

\* Client::new: nothing has been waited for.
LEMMA ClockInit == Init => ClockInv
BY StreamAssumption DEF Init, ClockInv, Every

\* Every step of the client keeps its clocks: a timeout restarts the wait, and its PINGREQ
\* ends the silence before the next one begins.
LEMMA ClockNext == ASSUME ClockInv, [Next]_vars PROVE ClockInv'
<1>0. KeepAlive \in Nat /\ Every \in Nat
  BY StreamAssumption DEF Every
<1>1. CASE \E cap \in 1..Wanted : PollRead(cap)
  <2>1. UNCHANGED <<split, wpc, silent>> /\ (UNCHANGED <<waited, heard>> \/ (waited' = 0 /\ heard' = 0))
    BY <1>1 DEF PollRead, TakeBytes
  <2> QED
    BY <1>0, <2>1 DEF ClockInv, Every
<1>2. CASE UNCHANGED <<split, timeVars>> /\ (wpc' = wpc \/ wpc' # "idle")
  BY <1>2 DEF ClockInv, timeVars, Every
<1>3. CASE PollFlush
  <2>1. /\ UNCHANGED <<split, waited, heard>>
        /\ (UNCHANGED <<wpc, silent>> \/ silent' = 0)
    BY <1>3 DEF PollFlush
  <2> QED
    BY <2>1 DEF ClockInv, Every
<1>4. CASE Timeout
  <2>1. waited' = 0 /\ UNCHANGED <<split, silent, heard>> /\ wpc' = "flush"
    BY <1>4 DEF Timeout, WritePacket
  <2> QED
    BY <1>0, <2>1 DEF ClockInv, Every
<1>5. CASE Tick
  <2>1. /\ waited' = waited + 1 /\ silent' = silent + 1 /\ heard' = heard + 1 /\ UNCHANGED <<split, wpc>>
        /\ ~(KeepAlive > 0 /\ waited >= Every)
    BY <1>5 DEF Tick, writeVars, Due
  <2> QED
    BY <1>0, <2>1 DEF ClockInv, Every
<1>6. CASE UNCHANGED vars
  BY <1>2, <1>6 DEF vars, writeVars
<1> QED
  BY <1>1, <1>2, <1>3, <1>4, <1>5, <1>6
     DEF Next, PollReadPending, PollReadEnds, BenchWrites, WritePacket, PollFlushFails, BrokerSends,
         BrokerPings, BrokerCloses, Finished, writeVars

\* recv_keepalive: a client that neither hears nor says anything pings within half the
\* negotiated interval.
THEOREM IdleClientPings == Spec => []IdleIsPinged
<1>1. ClockInv /\ [Next]_vars => ClockInv'
  BY ClockNext
<1>2. ASSUME ClockInv PROVE IdleIsPinged
  <2> SUFFICES ASSUME KeepAlive > 0, ~split, wpc = "idle" PROVE 2 * Min({silent, heard}) <= KeepAlive
    BY DEF IdleIsPinged
  <2>1. silent \in Nat /\ heard \in Nat /\ waited \in Nat /\ waited <= Every /\ (silent <= waited \/ heard <= waited)
    BY <1>2 DEF ClockInv
  <2>2. Min({silent, heard}) \in {silent, heard} /\ Min({silent, heard}) <= silent /\ Min({silent, heard}) <= heard
    BY <2>1, MinOfTwo
  <2>3. KeepAlive \in Nat /\ 2 * Every = KeepAlive
    BY StreamAssumption DEF Every
  <2>4. Every \in Nat
    BY <2>3 DEF Every
  <2>5. Min({silent, heard}) \in Nat /\ Min({silent, heard}) <= Every
    BY <2>1, <2>2, <2>4
  <2> QED
    BY <2>3, <2>4, <2>5
<1> QED
  BY <1>1, <1>2, ClockInit, PTL DEF Spec

-----------------------------------------------------------------------------
(***************************************************************************)
(* Packets and frames.                                                     *)
(***************************************************************************)

\* A packet is its bytes, in order.
LEMMA PacketBytesType ==
  ASSUME NEW p \in Nat, p > 0
  PROVE  /\ PacketBytes(p) \in Seq(Nat) /\ Len(PacketBytes(p)) = PacketLen /\ PacketBytes(p) # <<>>
         /\ \A i \in 1..PacketLen : PacketBytes(p)[i] = (p - 1) * PacketLen + i
<1> DEFINE a == (p - 1) * PacketLen
<1>1. PacketLen \in Nat /\ PacketLen > 0 /\ a \in Nat /\ p * PacketLen = a + PacketLen
  BY StreamAssumption
<1> HIDE DEF a
<1>2. PacketBytes(p) = [i \in 1..((a + PacketLen) - (a + 1) + 1) |-> (a + 1) + i - 1]
  BY <1>1 DEF PacketBytes, Numbers, a
<1>3. (a + PacketLen) - (a + 1) + 1 = PacketLen
  BY <1>1
<1>4. PacketBytes(p) = [i \in 1..PacketLen |-> a + i]
  BY <1>1, <1>2, <1>3
<1>5. PacketBytes(p) \in Seq(Nat) /\ Len(PacketBytes(p)) = PacketLen
  BY <1>1, <1>4
<1>6. PacketBytes(p) # <<>>
  BY <1>1, <1>5
<1> QED
  BY <1>4, <1>5, <1>6 DEF a

\* Binary frames are counted from the front: later frames do not change the count, and
\* a frame of another kind adds nothing.
LEMMA BinariesOf ==
  ASSUME NEW s \in Seq(Frames), NEW t \in Seq(Frames), NEW n \in 0..Len(s)
  PROVE  /\ Binaries(s, n) \in Nat
         /\ Binaries(s \o t, n) = Binaries(s, n)
         /\ (\A i \in 1..Len(t) : t[i].kind # "binary") =>
              \A k \in Len(s)..Len(s \o t) : Binaries(s \o t, k) = Binaries(s, Len(s))
<1>0. Len(s) \in Nat /\ Len(t) \in Nat /\ Len(s \o t) = Len(s) + Len(t)
  OBVIOUS
<1>1. IsFiniteSet(1..n)
  BY FS_Interval
<1>2. IsFiniteSet({j \in 1..n : s[j].kind = "binary"})
  BY <1>1, FS_Subset
<1>3. Binaries(s, n) \in Nat
  BY <1>2, FS_CardinalityType DEF Binaries
<1>4. \A j \in 1..n : (s \o t)[j] = s[j]
  BY <1>0
<1>5. {j \in 1..n : (s \o t)[j].kind = "binary"} = {j \in 1..n : s[j].kind = "binary"}
  BY <1>4
<1>6. ASSUME \A i \in 1..Len(t) : t[i].kind # "binary", NEW k \in Len(s)..Len(s \o t)
      PROVE  Binaries(s \o t, k) = Binaries(s, Len(s))
  <2>1. ASSUME NEW j \in 1..k, j > Len(s) PROVE (s \o t)[j].kind # "binary"
    <3>1. j - Len(s) \in 1..Len(t) /\ (s \o t)[j] = t[j - Len(s)]
      BY <1>0, <2>1
    <3> QED
      BY <1>6, <3>1
  <2>2. \A j \in 1..Len(s) : j \in 1..k /\ (s \o t)[j] = s[j]
    BY <1>0
  <2>3. \A j \in 1..k : j \in 1..Len(s) \/ j > Len(s)
    BY <1>0
  <2>4. {j \in 1..k : (s \o t)[j].kind = "binary"} = {j \in 1..Len(s) : s[j].kind = "binary"}
    BY <2>1, <2>2, <2>3
  <2> QED
    BY <2>4 DEF Binaries
<1> QED
  BY <1>3, <1>5, <1>6 DEF Binaries

\* One more Binary frame is one more.
LEMMA BinaryAdded ==
  ASSUME NEW s \in Seq(Frames), NEW x \in Frames, x.kind = "binary"
  PROVE  Binaries(Append(s, x), Len(s) + 1) = Binaries(s, Len(s)) + 1
<1> DEFINE A == {j \in 1..Len(s) : s[j].kind = "binary"}
           n == Len(s) + 1
<1>1. Len(s) \in Nat /\ n \in Nat /\ Append(s, x)[n] = x /\ \A j \in 1..Len(s) : Append(s, x)[j] = s[j]
  OBVIOUS
<1>2. {j \in 1..n : Append(s, x)[j].kind = "binary"} = A \cup {n}
  BY <1>1
<1>3. n \notin A
  BY <1>1
<1>4. IsFiniteSet(1..Len(s))
  BY <1>1, FS_Interval
<1>5. IsFiniteSet(A)
  BY <1>4, FS_Subset
<1>6. Cardinality(A \cup {n}) = Cardinality(A) + 1
  BY <1>3, <1>5, FS_AddElement
<1> QED
  BY <1>2, <1>6 DEF Binaries

\* Frames of another kind disturb nothing.
LEMMA OrderedOthers ==
  ASSUME NEW s \in Seq(Frames), NEW t \in Seq(Frames), Ordered(s), \A i \in 1..Len(t) : t[i].kind # "binary"
  PROVE  Ordered(s \o t) /\ Binaries(s \o t, Len(s \o t)) = Binaries(s, Len(s))
<1>0. Len(s) \in Nat /\ Len(t) \in Nat /\ Len(s \o t) = Len(s) + Len(t)
  OBVIOUS
<1>1. Binaries(s \o t, Len(s \o t)) = Binaries(s, Len(s))
  <2>1. Len(s \o t) \in Len(s)..Len(s \o t) /\ Len(s) \in 0..Len(s)
    BY <1>0
  <2> QED
    BY <2>1, BinariesOf
<1>2. ASSUME NEW i \in 1..Len(s \o t), (s \o t)[i].kind = "binary"
      PROVE  (s \o t)[i].bytes = PacketBytes(Binaries(s \o t, i))
  <2>1. CASE i <= Len(s)
    <3>1. i \in 1..Len(s) /\ i \in 0..Len(s) /\ (s \o t)[i] = s[i]
      BY <1>0, <2>1
    <3>2. Binaries(s \o t, i) = Binaries(s, i)
      BY <3>1, BinariesOf
    <3> QED
      BY <1>2, <3>1, <3>2 DEF Ordered
  <2>2. CASE i > Len(s)
    <3>1. i - Len(s) \in 1..Len(t) /\ (s \o t)[i] = t[i - Len(s)]
      BY <1>0, <2>2
    <3> QED
      BY <1>2, <3>1
  <2> QED
    BY <1>0, <2>1, <2>2
<1> QED
  BY <1>1, <1>2 DEF Ordered

\* The next packet in a frame of its own.
LEMMA OrderedNext ==
  ASSUME NEW s \in Seq(Frames), NEW x \in Frames, Ordered(s), x.kind = "binary",
         x.bytes = PacketBytes(Binaries(s, Len(s)) + 1)
  PROVE  Ordered(Append(s, x)) /\ Binaries(Append(s, x), Len(Append(s, x))) = Binaries(s, Len(s)) + 1
<1>0. Len(s) \in Nat /\ Len(Append(s, x)) = Len(s) + 1 /\ <<x>> \in Seq(Frames) /\ Append(s, x) = s \o <<x>>
  OBVIOUS
<1>1. Binaries(Append(s, x), Len(s) + 1) = Binaries(s, Len(s)) + 1
  BY BinaryAdded
<1>2. ASSUME NEW i \in 1..(Len(s) + 1), Append(s, x)[i].kind = "binary"
      PROVE  Append(s, x)[i].bytes = PacketBytes(Binaries(Append(s, x), i))
  <2>1. CASE i <= Len(s)
    <3>1. i \in 1..Len(s) /\ i \in 0..Len(s) /\ Append(s, x)[i] = s[i]
      BY <1>0, <2>1
    <3>2. Binaries(s \o <<x>>, i) = Binaries(s, i)
      BY <1>0, <3>1, BinariesOf
    <3> QED
      BY <1>0, <1>2, <3>1, <3>2 DEF Ordered
  <2>2. CASE i = Len(s) + 1
    BY <1>0, <1>1, <2>2
  <2> QED
    BY <1>0, <2>1, <2>2
<1> QED
  BY <1>0, <1>1, <1>2 DEF Ordered

-----------------------------------------------------------------------------
(***************************************************************************)
(* One frame for each packet: the steps.                                   *)
(***************************************************************************)

\* The answers of the library to Pings are frames, and none is a Binary one.
LEMMA PongsType ==
  ASSUME NEW messages \in Seq(Frames)
  PROVE  /\ Pongs(messages) \in Seq(Frames)
         /\ \A i \in 1..Len(Pongs(messages)) : Pongs(messages)[i].kind # "binary"
<1> DEFINE A == {j \in 1..Len(messages) : messages[j].kind = "ping"}
           x == Message("pong", <<>>)
           n == Cardinality(A)
<1>1. IsFiniteSet(1..Len(messages))
  BY FS_Interval
<1>2. IsFiniteSet(A)
  BY <1>1, FS_Subset
<1>3. n \in Nat
  BY <1>2, FS_CardinalityType
<1>4. x \in Frames /\ x.kind # "binary"
  BY DEF Message, Frames
<1>5. Pongs(messages) = [i \in 1..n |-> x]
  BY DEF Pongs
<1> HIDE DEF x, n
<1> QED
  BY <1>3, <1>4, <1>5

\* f is a, then b.
Cut(a, b, f) == /\ Len(a) + Len(b) = Len(f) /\ \A i \in 1..Len(a) : a[i] = f[i]
                /\ \A i \in 1..Len(b) : b[i] = f[Len(a) + i]

\* A sequence cut in two, put together again after another one.
LEMMA PiecesJoin ==
  ASSUME NEW S, NEW w \in Seq(S), NEW f \in Seq(S), NEW a \in Seq(S), NEW b \in Seq(S), Cut(a, b, f)
  PROVE  (w \o a) \o b = w \o f
<1> USE DEF Cut
<1>0. /\ Len(w) \in Nat /\ Len(f) \in Nat /\ Len(a) \in Nat /\ Len(b) \in Nat
      /\ w \o a \in Seq(S) /\ Len(w \o a) = Len(w) + Len(a)
  OBVIOUS
<1>1. /\ (w \o a) \o b \in Seq(S) /\ Len((w \o a) \o b) = Len(w \o a) + Len(b)
      /\ w \o f \in Seq(S) /\ Len(w \o f) = Len(w) + Len(f)
  BY <1>0
<1>2. Len((w \o a) \o b) = Len(w \o f)
  <2>1. PICK i \in Nat : i = Len(w)
    BY <1>0, Zenon
  <2>2. PICK j \in Nat : j = Len(a)
    BY <1>0, Zenon
  <2>3. PICK k \in Nat : k = Len(b)
    BY <1>0, Zenon
  <2>4. PICK l \in Nat : l = Len(f)
    BY <1>0, Zenon
  <2>5. j + k = l
    BY <2>2, <2>3, <2>4, Zenon
  <2>6. (i + j) + k = i + l
    BY <2>5
  <2> QED
    BY <1>0, <1>1, <2>1, <2>2, <2>3, <2>4, <2>6, Zenon
<1>3. ASSUME NEW i \in 1..Len(w \o f) PROVE ((w \o a) \o b)[i] = (w \o f)[i]
  <2>1. CASE i <= Len(w)
    <3>1. ((w \o a) \o b)[i] = (w \o a)[i]
      BY <1>0, <1>1, <2>1
    <3> QED
      BY <1>0, <1>1, <2>1, <3>1
  <2>2. CASE i > Len(w) /\ i <= Len(w) + Len(a)
    <3>1. ((w \o a) \o b)[i] = (w \o a)[i]
      BY <1>0, <1>1, <2>2
    <3>2. (w \o a)[i] = a[i - Len(w)] /\ (w \o f)[i] = f[i - Len(w)] /\ i - Len(w) \in 1..Len(a)
      BY <1>0, <1>1, <2>2
    <3> QED
      BY <3>1, <3>2
  <2>3. CASE i > Len(w) + Len(a)
    <3> DEFINE j == i - Len(w) - Len(a)
    <3>1. j \in 1..Len(b) /\ ((w \o a) \o b)[i] = b[j]
      BY <1>0, <1>1, <2>3
    <3>2. (w \o f)[i] = f[i - Len(w)] /\ i - Len(w) = Len(a) + j
      BY <1>0, <1>1, <2>3
    <3> QED
      BY <3>1, <3>2
  <2> QED
    BY <1>0, <1>1, <2>1, <2>2, <2>3
<1> QED
  BY <1>1, <1>2, <1>3, SeqEqual

\* Putting sequences together is associative.
LEMMA Associative ==
  ASSUME NEW u \in Seq(Frames), NEW v \in Seq(Frames), NEW t \in Seq(Frames)
  PROVE  (u \o v) \o t = u \o (v \o t)
<1>1. /\ v \o t \in Seq(Frames) /\ Len(v \o t) = Len(v) + Len(t) /\ Len(v) \in Nat /\ Len(t) \in Nat
  OBVIOUS
<1>2. (\A i \in 1..Len(v) : v[i] = (v \o t)[i]) /\ \A i \in 1..Len(t) : t[i] = (v \o t)[Len(v) + i]
  BY <1>1
<1>3. PICK f \in Seq(Frames) : f = v \o t
  BY <1>1
<1>4. Cut(v, t, f)
  BY <1>1, <1>2, <1>3, Zenon DEF Cut
<1>5. (u \o v) \o t = u \o f
  BY <1>4, PiecesJoin
<1> QED
  BY <1>3, <1>5, Zenon

\* poll_read only adds to what the library holds: frames of its own.
LEMMA ReaderWrites ==
  ASSUME WriteInv, NEW t \in Seq(Frames), \A i \in 1..Len(t) : t[i].kind # "binary",
         sink' = sink \o t, incoming' \in Seq(Frames), produced' \in Nat,
         UNCHANGED <<writeBuf, sending, wire, wpc, written>>
  PROVE  WriteInv'
<1>1. Given \in Seq(Frames) /\ Given' = Given \o t /\ sink' \in Seq(Frames)
  <2>1. wire \in Seq(Frames) /\ sink \in Seq(Frames)
    BY DEF WriteInv
  <2>2. wire \o sink \in Seq(Frames) /\ sink \o t \in Seq(Frames)
    BY <2>1
  <2>3. (wire \o sink) \o t = wire \o (sink \o t)
    BY <2>1, Associative
  <2> QED
    BY <2>2, <2>3, Zenon DEF Given
<1>2. Ordered(Given \o t) /\ Binaries(Given \o t, Len(Given \o t)) = Binaries(Given, Len(Given))
  BY <1>1, OrderedOthers DEF WriteInv
<1>3. Ordered(Given') /\ Binaries(Given', Len(Given')) = Binaries(Given, Len(Given))
  BY <1>1, <1>2
<1>4. Ordered(Given)'
  BY <1>3 DEF Ordered, Given, Binaries, PacketBytes, Numbers
<1>5. Binaries(Given, Len(Given))' = Binaries(Given, Len(Given))
  BY <1>3 DEF Given, Binaries
<1>6. Binaries(wire, Len(wire))' = Binaries(wire, Len(wire))
  BY DEF Binaries
<1>7. PacketBytes(written)' = PacketBytes(written)
  BY DEF PacketBytes, Numbers
<1> QED
  BY <1>1, <1>4, <1>5, <1>6, <1>7 DEF WriteInv

\* What was given to the library changes to g: the same at the next state.
LEMMA GivenNext ==
  ASSUME NEW g, wire' \o sink' = g, Ordered(g)
  PROVE  Ordered(Given)' /\ Binaries(Given, Len(Given))' = Binaries(g, Len(g))
<1>1. Given' = g
  BY DEF Given
<1>2. Ordered(Given)' <=> Ordered(Given')
  BY DEF Ordered, Binaries, PacketBytes, Numbers
<1>3. Binaries(Given, Len(Given))' = Binaries(Given', Len(Given'))
  BY DEF Binaries
<1> QED
  BY <1>1, <1>2, <1>3

\* write_packet buffers the next packet.
LEMMA BufferKeeps ==
  ASSUME WriteInv, wpc = "idle", WritePacket, UNCHANGED <<sending, sink, wire, incoming, produced>>
  PROVE  WriteInv'
<1>1. written \in Nat /\ written' = written + 1 /\ writeBuf = <<>> /\ ~sending /\ wpc' = "flush"
  BY DEF WriteInv, WritePacket
<1>2. PacketBytes(written + 1) \in Seq(Nat)
  BY <1>1, PacketBytesType
<1>3. writeBuf' = PacketBytes(written + 1)
  BY <1>1, <1>2 DEF WritePacket
<1>4. writeBuf' = PacketBytes(written)'
  BY <1>1, <1>3 DEF PacketBytes, Numbers
<1>5. wire' \o sink' = Given /\ Ordered(Given) /\ Binaries(Given, Len(Given)) = written
  BY DEF Given, WriteInv
<1>6. Ordered(Given)' /\ Binaries(Given, Len(Given))' = written
  BY <1>5, GivenNext
<1>7. Binaries(Given, Len(Given))' = written' - 1 /\ written' \in Nat /\ written' > 0
  BY <1>1, <1>6
<1> QED
  BY <1>1, <1>4, <1>6, <1>7 DEF WriteInv

\* The buffer as one Binary frame, after what the library was given before.
LEMMA BufferFrame ==
  ASSUME WriteInv, wpc = "flush", ~sending, writeBuf # <<>>
  PROVE  LET g == wire \o Append(sink, Message("binary", writeBuf))
         IN  /\ Append(sink, Message("binary", writeBuf)) \in Seq(Frames)
             /\ g \in Seq(Frames) /\ Ordered(g) /\ Binaries(g, Len(g)) = written
<1> DEFINE x == Message("binary", writeBuf)
<1>1. /\ written \in Nat /\ written > 0 /\ writeBuf = PacketBytes(written)
      /\ Binaries(Given, Len(Given)) = written - 1
  BY DEF WriteInv
<1>2. x \in Frames /\ x.kind = "binary" /\ x.bytes = PacketBytes(written)
  <2>1. PacketBytes(written) \in Seq(Nat)
    BY <1>1, PacketBytesType
  <2> QED
    BY <1>1, <2>1 DEF Message, Frames
<1> HIDE DEF x
<1>3. Given \in Seq(Frames) /\ Append(sink, x) \in Seq(Frames) /\ wire \o Append(sink, x) = Append(Given, x)
  BY <1>2 DEF WriteInv, Given
<1>4. Binaries(Given, Len(Given)) + 1 = written
  BY <1>1
<1>5. Ordered(Append(Given, x)) /\ Binaries(Append(Given, x), Len(Append(Given, x))) = Binaries(Given, Len(Given)) + 1
  BY <1>2, <1>3, <1>4, OrderedNext DEF WriteInv
<1>6. Append(Given, x) \in Seq(Frames)
  BY <1>2, <1>3
<1>7. /\ Append(sink, x) \in Seq(Frames) /\ wire \o Append(sink, x) \in Seq(Frames)
      /\ Ordered(wire \o Append(sink, x))
      /\ Binaries(wire \o Append(sink, x), Len(wire \o Append(sink, x))) = written
  BY <1>3, <1>4, <1>5, <1>6
<1> QED
  BY <1>7 DEF x

\* The first k frames leave the library for the wire.
LEMMA FramesMove ==
  ASSUME NEW w \in Seq(Frames), NEW f \in Seq(Frames), NEW k \in 0..Len(f)
  PROVE  /\ w \o SubSeq(f, 1, k) \in Seq(Frames) /\ SubSeq(f, k + 1, Len(f)) \in Seq(Frames)
         /\ (w \o SubSeq(f, 1, k)) \o SubSeq(f, k + 1, Len(f)) = w \o f
<1>1. /\ SubSeq(f, 1, k) \in Seq(Frames) /\ Len(SubSeq(f, 1, k)) = k
      /\ \A i \in 1..k : SubSeq(f, 1, k)[i] = f[i]
  OBVIOUS
<1>2. /\ SubSeq(f, k + 1, Len(f)) \in Seq(Frames) /\ Len(SubSeq(f, k + 1, Len(f))) = Len(f) - k
      /\ \A i \in 1..(Len(f) - k) : SubSeq(f, k + 1, Len(f))[i] = f[k + i]
  OBVIOUS
<1>3. PICK a \in Seq(Frames) : a = SubSeq(f, 1, k)
  BY <1>1
<1>4. PICK b \in Seq(Frames) : b = SubSeq(f, k + 1, Len(f))
  BY <1>2
<1>5. Len(a) = k /\ Len(b) = Len(f) - k /\ Len(f) \in Nat
  BY <1>1, <1>2, <1>3, <1>4
<1>6. Len(a) + Len(b) = Len(f)
  BY <1>5
<1>7. (\A i \in 1..Len(a) : a[i] = f[i]) /\ (\A i \in 1..Len(b) : b[i] = f[Len(a) + i])
  <2>1. \A i \in 1..Len(a) : a[i] = f[i]
    BY <1>1, <1>3, <1>5, Zenon
  <2>2. \A i \in 1..Len(b) : b[i] = f[Len(a) + i]
    BY <1>2, <1>4, <1>5, Zenon
  <2> QED
    BY <2>1, <2>2
<1>8. (w \o a) \o b = w \o f
  <2>1. Cut(a, b, f)
    BY <1>6, <1>7, Zenon DEF Cut
  <2> QED
    BY <2>1, PiecesJoin
<1>9. w \o a \in Seq(Frames)
  OBVIOUS
<1> QED
  BY <1>3, <1>4, <1>8, <1>9, Zenon

\* poll_flush: the frame is given to the library once, and the flush ends when none is left.
LEMMA FlushKeeps == ASSUME WriteInv, PollFlush PROVE WriteInv'
<1> DEFINE starts == ~sending /\ writeBuf # <<>>
           frames == IF starts THEN Append(sink, Message("binary", writeBuf)) ELSE sink
           g == wire \o frames
<1>0. wpc = "flush" /\ UNCHANGED <<written, incoming, produced>>
  BY DEF PollFlush, brokerVars
<1>1. frames \in Seq(Frames) /\ g \in Seq(Frames) /\ Ordered(g) /\ Binaries(g, Len(g)) = written
  <2>1. CASE starts
    BY <1>0, <2>1, BufferFrame
  <2>2. CASE ~starts
    <3>1. sending \/ writeBuf = <<>>
      BY <2>2
    <3>2. Binaries(Given, Len(Given)) = written
      <4>1. CASE sending
        BY <1>0, <4>1 DEF WriteInv
      <4>2. CASE ~sending /\ writeBuf = <<>>
        <5>1. ~(written > 0 /\ writeBuf = PacketBytes(written))
          BY <4>2, PacketBytesType DEF WriteInv
        <5> QED
          BY <1>0, <4>2, <5>1 DEF WriteInv
      <4> QED
        BY <3>1, <4>1, <4>2
    <3>3. frames = sink /\ g = Given
      BY <2>2 DEF Given
    <3> QED
      BY <3>2, <3>3 DEF WriteInv, Given
  <2> QED
    BY <2>1, <2>2
<1>2. starts \/ (sending /\ writeBuf = <<>>)
  <2>1. written > 0 /\ writeBuf = PacketBytes(written) => writeBuf # <<>>
    BY PacketBytesType DEF WriteInv
  <2> QED
    BY <1>0, <2>1 DEF WriteInv
<1>3. CASE starts /\ UNCHANGED <<writeBuf, sending, sink, wire, wpc>>
  <2>1. wire' \o sink' = Given /\ Ordered(Given)
    BY <1>3 DEF Given, WriteInv
  <2>2. Ordered(Given)' /\ Binaries(Given, Len(Given))' = Binaries(Given, Len(Given))
    BY <2>1, GivenNext
  <2>3. PacketBytes(written)' = PacketBytes(written)
    BY <1>0 DEF PacketBytes, Numbers
  <2> QED
    BY <1>0, <1>3, <2>2, <2>3 DEF WriteInv
<1>4. CASE /\ writeBuf' = IF starts THEN <<>> ELSE writeBuf
           /\ wire' = wire \o frames /\ sink' = <<>> /\ sending' = FALSE /\ wpc' = "idle"
  <2>1. writeBuf' = <<>>
    BY <1>2, <1>4
  <2> HIDE DEF frames
  <2>2. wire' = g /\ wire' \o sink' = g
    BY <1>1, <1>4
  <2> HIDE DEF g
  <2>3. Ordered(Given)' /\ Binaries(Given, Len(Given))' = written
    BY <1>1, <2>2, GivenNext
  <2>4. Binaries(wire, Len(wire))' = written
    BY <1>1, <2>2 DEF Binaries
  <2>5. wire' \in Seq(Frames) /\ sink' \in Seq(Frames)
    BY <1>1, <1>4, <2>2
  <2> QED
    BY <1>0, <1>4, <2>1, <2>3, <2>4, <2>5 DEF WriteInv
<1>5. CASE /\ writeBuf' = IF starts THEN <<>> ELSE writeBuf
           /\ \E k \in 0..(Len(frames) - 1) :
                wire' = wire \o SubSeq(frames, 1, k) /\ sink' = SubSeq(frames, k + 1, Len(frames))
           /\ sending' = (sending \/ starts) /\ wpc' = wpc
  <2>1. writeBuf' = <<>> /\ sending'
    BY <1>2, <1>5
  <2> HIDE DEF frames
  <2>2. PICK k \in 0..(Len(frames) - 1) :
           wire' = wire \o SubSeq(frames, 1, k) /\ sink' = SubSeq(frames, k + 1, Len(frames))
    BY <1>5
  <2>3. wire \in Seq(Frames) /\ k \in 0..Len(frames)
    BY <1>1, <2>2 DEF WriteInv
  <2>4. /\ wire \o SubSeq(frames, 1, k) \in Seq(Frames) /\ SubSeq(frames, k + 1, Len(frames)) \in Seq(Frames)
        /\ (wire \o SubSeq(frames, 1, k)) \o SubSeq(frames, k + 1, Len(frames)) = wire \o frames
    <3>1. frames \in Seq(Frames)
      BY <1>1
    <3> QED
      BY <2>3, <3>1, FramesMove
  <2>5. wire' \in Seq(Frames) /\ sink' \in Seq(Frames) /\ wire' \o sink' = g
    BY <2>2, <2>4, Zenon
  <2> HIDE DEF g
  <2>6. Ordered(Given)' /\ Binaries(Given, Len(Given))' = written
    BY <1>1, <2>5, GivenNext
  <2> QED
    BY <1>0, <1>5, <2>1, <2>5, <2>6 DEF WriteInv
<1> QED
  BY <1>3, <1>4, <1>5 DEF PollFlush

\* A flush that fails is the last one.
LEMMA FlushFails == ASSUME WriteInv, PollFlushFails PROVE WriteInv'
<1>1. wpc = "flush" /\ wpc' = "failed" /\ UNCHANGED <<wire, written, incoming, produced>>
  BY DEF PollFlushFails, brokerVars
<1>2. CASE UNCHANGED sink
  <2>1. wire' \o sink' = Given /\ Ordered(Given)
    BY <1>1, <1>2 DEF Given, WriteInv
  <2> QED
    BY <1>1, <1>2, <2>1, GivenNext DEF WriteInv
<1>3. CASE ~sending /\ writeBuf # <<>> /\ sink' = Append(sink, Message("binary", writeBuf))
  <2>1. /\ sink' \in Seq(Frames)
        /\ Ordered(wire \o Append(sink, Message("binary", writeBuf)))
    BY <1>1, <1>3, BufferFrame
  <2>2. wire' \o sink' = wire \o Append(sink, Message("binary", writeBuf))
    BY <1>1, <1>3
  <2> QED
    BY <1>1, <2>1, <2>2, GivenNext DEF WriteInv
<1> QED
  BY <1>2, <1>3 DEF PollFlushFails

\* The index of the first message that poll_read does not skip.
LEMMA FirstMessage ==
  ASSUME incoming \in Seq(Frames)
  PROVE  /\ Next1 \in 0..Len(incoming)
         /\ Next1 > 0 => ~Skipped(incoming[Next1]) /\ \A i \in 1..(Next1 - 1) : Skipped(incoming[i])
         /\ Next1 = 0 => \A i \in 1..Len(incoming) : Skipped(incoming[i])
<1> DEFINE I == {i \in 1..Len(incoming) : ~Skipped(incoming[i])}
<1>0. Len(incoming) \in Nat
  OBVIOUS
<1>1. Next1 = IF I # {} THEN Min(I) ELSE 0
  BY DEF Next1, SelectInSeq
<1>2. CASE I = {}
  BY <1>0, <1>1, <1>2
<1>3. CASE I # {}
  <2>1. \E x \in I : \A y \in I : x <= y
    <3>1. I \subseteq Nat
      BY <1>0
    <3>2. IsWellFoundedOn(OpToRel(<, Nat), Nat)
      BY NatLessThanWellFounded
    <3>3. PICK x \in I : \A y \in I : ~(<<y, x>> \in OpToRel(<, Nat))
      BY <1>3, <3>1, <3>2, WFMin
    <3>4. \A y \in I : ~(y < x)
      BY <3>1, <3>3 DEF OpToRel
    <3>5. \A y \in I : x <= y
      BY <3>1, <3>4
    <3> QED
      BY <3>5
  <2>2. Min(I) \in I /\ \A y \in I : Min(I) <= y
    BY <2>1 DEF Min
  <2>3. Next1 \in I /\ \A y \in I : Next1 <= y
    BY <1>1, <1>3, <2>2
  <2>4. Next1 \in 1..Len(incoming) /\ ~Skipped(incoming[Next1])
    BY <2>3
  <2>5. \A i \in 1..(Next1 - 1) : i \in 1..Len(incoming) /\ ~(Next1 <= i)
    BY <1>0, <2>4
  <2> QED
    BY <1>0, <2>3, <2>4, <2>5
<1> QED
  BY <1>2, <1>3

\* Consecutive numbers.
LEMMA NumbersType ==
  ASSUME NEW m \in Nat, NEW n \in Nat
  PROVE  /\ Numbers(m + 1, m + n) \in Seq(Nat) /\ Len(Numbers(m + 1, m + n)) = n
         /\ \A i \in 1..n : Numbers(m + 1, m + n)[i] = m + i
<1>1. (m + n) - (m + 1) + 1 = n /\ \A i \in 1..n : (m + 1) + i - 1 = m + i
  OBVIOUS
<1>2. Numbers(m + 1, m + n) = [i \in 1..n |-> m + i]
  BY <1>1 DEF Numbers
<1> QED
  BY <1>2

\* What the broker may put in a frame.
LEMMA BrokerFrame ==
  ASSUME produced \in Nat, BrokerSends
  PROVE  \E n \in Nat : /\ produced' = produced + n
                        /\ incoming' = Append(incoming, Message("binary", Numbers(produced + 1, produced + n)))
                        /\ Message("binary", Numbers(produced + 1, produced + n)) \in Frames
<1> DEFINE a == Inbound * PacketLen - produced
<1>1. a \in Int /\ MaxFrame \in Int
  BY StreamAssumption
<1>2. PICK n \in 0..Min({MaxFrame, a}) :
         /\ produced' = produced + n
         /\ incoming' = Append(incoming, Message("binary", Numbers(produced + 1, produced + n)))
  BY DEF BrokerSends
<1>3. Min({MaxFrame, a}) \in {MaxFrame, a}
  BY <1>1, MinOfTwo
<1>4. n \in Nat
  BY <1>1, <1>2, <1>3
<1>5. Numbers(produced + 1, produced + n) \in Seq(Nat)
  BY <1>4, NumbersType
<1>6. Message("binary", Numbers(produced + 1, produced + n)) \in Frames
  BY <1>5 DEF Message, Frames
<1> QED
  BY <1>2, <1>4, <1>6

\* What poll_read leaves in the socket, and what the library answers, are frames.
LEMMA ReadLeaves ==
  ASSUME incoming \in Seq(Frames), NEW n \in 0..Len(incoming)
  PROVE  /\ SubSeq(incoming, n + 1, Len(incoming)) \in Seq(Frames)
         /\ Pongs(SubSeq(incoming, 1, n)) \in Seq(Frames)
         /\ \A i \in 1..Len(Pongs(SubSeq(incoming, 1, n))) : Pongs(SubSeq(incoming, 1, n))[i].kind # "binary"
<1>1. SubSeq(incoming, 1, n) \in Seq(Frames) /\ SubSeq(incoming, n + 1, Len(incoming)) \in Seq(Frames)
  OBVIOUS
<1>2. PICK m \in Seq(Frames) : m = SubSeq(incoming, 1, n)
  BY <1>1
<1>3. Pongs(m) \in Seq(Frames) /\ \A i \in 1..Len(Pongs(m)) : Pongs(m)[i].kind # "binary"
  BY PongsType
<1> QED
  BY <1>1, <1>2, <1>3

\* WsByteStream::new.
LEMMA WriteInit == Init => WriteInv
<1> SUFFICES ASSUME Init PROVE WriteInv
  OBVIOUS
<1>1. wire = <<>> /\ sink = <<>> /\ incoming = <<>> /\ written = 0 /\ produced = 0 /\ wpc = "idle" /\ writeBuf = <<>> /\ ~sending
  BY DEF Init
<1>2. Given = <<>> /\ Len(Given) = 0 /\ Len(wire) = 0
  BY <1>1 DEF Given
<1>3. Ordered(Given)
  BY <1>2 DEF Ordered
<1>4. \A s : {j \in 1..0 : s[j].kind = "binary"} = {}
  OBVIOUS
<1>5. Binaries(Given, Len(Given)) = 0 /\ Binaries(wire, Len(wire)) = 0
  BY <1>2, <1>4, FS_EmptySet DEF Binaries
<1> QED
  BY <1>1, <1>3, <1>5 DEF WriteInv

\* Every step of the writer, of the reader beside it, and of the broker.
LEMMA WriteNext == ASSUME WriteInv, [Next]_vars PROVE WriteInv'
<1>a. ASSUME UNCHANGED <<writeBuf, sending, sink, wire, wpc, written>>, produced' \in Nat, incoming' \in Seq(Frames)
      PROVE  WriteInv'
  <2>1. sink' = sink \o <<>> /\ <<>> \in Seq(Frames) /\ \A i \in 1..Len(<<>>) : FALSE
    BY <1>a DEF WriteInv
  <2> QED
    BY <1>a, <2>1, ReaderWrites
<1>b. incoming \in Seq(Frames) /\ produced \in Nat
  BY DEF WriteInv
<1>1. CASE \E cap \in 1..Wanted : PollRead(cap)
  <2>1. UNCHANGED <<writeBuf, sending, wire, wpc, written, produced>>
    BY <1>1 DEF PollRead, brokerVars
  <2>2. CASE UNCHANGED <<incoming, sink>>
    BY <1>a, <1>b, <2>1, <2>2
  <2>3. CASE /\ Next1 > 0 /\ incoming' = SubSeq(incoming, Next1 + 1, Len(incoming))
             /\ sink' = sink \o Pongs(SubSeq(incoming, 1, Next1))
    <3>1. PICK n \in 0..Len(incoming) : n = Next1
      BY <1>b, FirstMessage
    <3>2. PICK t \in Seq(Frames) : t = Pongs(SubSeq(incoming, 1, n)) /\ \A i \in 1..Len(t) : t[i].kind # "binary"
      BY <1>b, ReadLeaves
    <3>3. incoming' \in Seq(Frames)
      BY <1>b, <2>3, <3>1, ReadLeaves
    <3>4. sink' = sink \o t
      BY <2>3, <3>1, <3>2
    <3> QED
      BY <1>b, <2>1, <3>2, <3>3, <3>4, ReaderWrites
  <2> QED
    BY <1>1, <2>2, <2>3 DEF PollRead
<1>2. CASE PollReadPending \/ PollReadEnds
  <2>1. /\ UNCHANGED <<writeBuf, sending, wire, wpc, written, produced>>
        /\ incoming' = <<>> /\ sink' = sink \o Pongs(incoming)
    BY <1>2 DEF PollReadPending, PollReadEnds, brokerVars
  <2>2. incoming' \in Seq(Frames)
    BY <2>1
  <2> QED
    BY <1>b, <2>1, <2>2, PongsType, ReaderWrites
<1>3. CASE BenchWrites \/ Timeout
  BY <1>3, BufferKeeps DEF BenchWrites, Timeout, MayRead, brokerVars
<1>4. CASE PollFlush \/ PollFlushFails
  BY <1>4, FlushKeeps, FlushFails
<1>5. CASE Tick \/ UNCHANGED vars
  BY <1>a, <1>b, <1>5 DEF Tick, vars, writeVars, brokerVars
<1>6. CASE BrokerSends
  <2>1. UNCHANGED writeVars
    BY <1>6 DEF BrokerSends
  <2>2. produced' \in Nat /\ incoming' \in Seq(Frames)
    BY <1>b, <1>6, BrokerFrame
  <2> QED
    BY <1>a, <2>1, <2>2 DEF writeVars
<1>7. CASE BrokerPings \/ BrokerCloses
  <2>1. PICK kind \in {"ping", "close", "reset"} : incoming' = Append(incoming, Message(kind, <<>>))
    BY <1>7 DEF BrokerPings, BrokerCloses
  <2>2. Message(kind, <<>>) \in Frames
    BY DEF Message, Frames
  <2>3. incoming' \in Seq(Frames)
    BY <1>b, <2>1, <2>2
  <2> QED
    BY <1>a, <1>b, <1>7, <2>3 DEF BrokerPings, BrokerCloses, writeVars
<1> QED
  BY <1>1, <1>2, <1>3, <1>4, <1>5, <1>6, <1>7 DEF Next, Finished

\* poll_flush: every packet is on the wire whole, in a Binary frame of its own and in order,
\* before write_packet returns, whatever the other half does between two polls.
THEOREM OneFramePerPacket == Spec => []PacketPerFrame
<1>1. WriteInv /\ [Next]_vars => WriteInv'
  BY WriteNext
<1>2. ASSUME WriteInv PROVE PacketPerFrame
  <2>1. ASSUME NEW i \in 1..Len(wire), wire[i].kind = "binary"
        PROVE  wire[i].bytes = PacketBytes(Binaries(wire, i))
    <3>1. wire \in Seq(Frames) /\ sink \in Seq(Frames) /\ Ordered(wire \o sink)
      BY <1>2 DEF WriteInv, Given
    <3>2. i \in 0..Len(wire) /\ i \in 1..Len(wire \o sink) /\ (wire \o sink)[i] = wire[i]
      BY <3>1
    <3>3. Binaries(wire \o sink, i) = Binaries(wire, i)
      BY <3>1, <3>2, BinariesOf
    <3> QED
      BY <2>1, <3>1, <3>2, <3>3 DEF Ordered
  <2> QED
    BY <1>2, <2>1 DEF PacketPerFrame, WriteInv
<1> QED
  BY <1>1, <1>2, WriteInit, PTL DEF Spec

-----------------------------------------------------------------------------
(***************************************************************************)
(* Bytes in order: messages that follow each other.                        *)
(***************************************************************************)

\* Messages without bytes advance nothing.  (By the least index that would.)
LEMMA StartSame ==
  ASSUME NEW messages \in Seq(Frames), NEW b \in Nat,
         NEW start \in [1..(Len(messages) + 1) -> 0..b],
         \A i \in 1..Len(messages) : start[i + 1] = start[i] + Len(messages[i].bytes),
         NEW n \in 0..Len(messages), \A i \in 1..n : messages[i].bytes = <<>>
  PROVE  start[n + 1] = start[1]
<1> DEFINE T == {i \in 1..(n + 1) : start[i] # start[1]}
<1>0. Len(messages) \in Nat /\ n \in Nat /\ T \subseteq Nat
  OBVIOUS
<1>1. CASE T = {}
  <2>1. n + 1 \in 1..(n + 1)
    BY <1>0
  <2> QED
    BY <1>1, <2>1
<1>2. CASE T # {}
  <2>1. PICK x \in T : \A y \in T : ~(<<y, x>> \in OpToRel(<, Nat))
    BY <1>0, <1>2, NatLessThanWellFounded, WFMin
  <2>2. \A y \in T : ~(y < x)
    BY <1>0, <2>1 DEF OpToRel
  <2>3. x \in 1..(n + 1) /\ x # 1 /\ start[x] # start[1]
    OBVIOUS
  <2>4. x - 1 \in 1..n /\ x - 1 \in 1..Len(messages) /\ x - 1 \in 1..(n + 1) /\ x - 1 < x /\ (x - 1) + 1 = x
    BY <1>0, <2>3
  <2>5. start[x - 1] = start[1]
    BY <2>2, <2>4
  <2>6. messages[x - 1].bytes = <<>> /\ start[x] = start[x - 1] + Len(messages[x - 1].bytes)
    BY <2>4
  <2>7. start[x - 1] \in Nat
    <3>1. x - 1 \in 1..(Len(messages) + 1)
      BY <1>0, <2>4
    <3>2. start[x - 1] \in 0..b
      BY <3>1
    <3> QED
      BY <3>2
  <2>8. start[x] = start[x - 1]
    BY <2>6, <2>7
  <2> QED
    BY <2>3, <2>5, <2>8
<1> QED
  BY <1>1, <1>2

\* Nothing waits when there is nothing to follow.
LEMMA ConsecutiveEmpty == ASSUME NEW b \in Nat PROVE Consecutive(<<>>, b, b)
<1> DEFINE start == [i \in 1..1 |-> b]
<1>1. start \in [1..(Len(<<>>) + 1) -> 0..b] /\ start[1] = b /\ start[Len(<<>>) + 1] = b
  OBVIOUS
<1>2. \A i \in 1..Len(<<>>) : FALSE
  OBVIOUS
<1> HIDE DEF start
<1> QED
  BY <1>1, <1>2 DEF Consecutive

\* Messages that are all empty leave nothing to follow.
LEMMA ConsecutiveSkipped ==
  ASSUME NEW messages \in Seq(Frames), NEW a, NEW b \in Nat, Consecutive(messages, a, b),
         \A i \in 1..Len(messages) : messages[i].bytes = <<>>
  PROVE  a = b
<1>1. PICK start \in [1..(Len(messages) + 1) -> 0..b] :
         /\ start[1] = a /\ start[Len(messages) + 1] = b
         /\ \A i \in 1..Len(messages) : start[i + 1] = start[i] + Len(messages[i].bytes)
  BY DEF Consecutive
<1>2. Len(messages) \in 0..Len(messages)
  OBVIOUS
<1>3. start[Len(messages) + 1] = start[1]
  BY <1>1, <1>2, StartSame
<1> QED
  BY <1>1, <1>3

\* A number that precedes the messages is at most the last one.
LEMMA ConsecutiveBound ==
  ASSUME NEW messages \in Seq(Frames), NEW a, NEW b \in Nat, Consecutive(messages, a, b)
  PROVE  a \in 0..b
<1>1. PICK start \in [1..(Len(messages) + 1) -> 0..b] : start[1] = a
  BY DEF Consecutive
<1>2. 1 \in 1..(Len(messages) + 1)
  OBVIOUS
<1> QED
  BY <1>1, <1>2

\* The first message that has bytes has the next ones, and the others follow it.
LEMMA ConsecutiveRead ==
  ASSUME NEW messages \in Seq(Frames), NEW a, NEW b \in Nat, Consecutive(messages, a, b),
         NEW n \in 1..Len(messages), \A i \in 1..(n - 1) : messages[i].bytes = <<>>
  PROVE  /\ \A k \in 1..Len(messages[n].bytes) : messages[n].bytes[k] = a + k
         /\ Consecutive(SubSeq(messages, n + 1, Len(messages)), a + Len(messages[n].bytes), b)
<1>1. PICK start \in [1..(Len(messages) + 1) -> 0..b] :
         /\ start[1] = a /\ start[Len(messages) + 1] = b
         /\ \A i \in 1..Len(messages) :
              /\ start[i + 1] = start[i] + Len(messages[i].bytes)
              /\ \A k \in 1..Len(messages[i].bytes) : messages[i].bytes[k] = start[i] + k
  BY DEF Consecutive
<1>2. start[n] = a
  <2>1. n - 1 \in 0..Len(messages) /\ (n - 1) + 1 = n
    OBVIOUS
  <2>2. start[(n - 1) + 1] = start[1]
    BY <1>1, <2>1, StartSame
  <2> QED
    BY <1>1, <2>1, <2>2
<1>3. \A k \in 1..Len(messages[n].bytes) : messages[n].bytes[k] = a + k
  BY <1>1, <1>2
<1>4. PICK rest \in Seq(Frames) :
         /\ rest = SubSeq(messages, n + 1, Len(messages)) /\ Len(rest) = Len(messages) - n
         /\ \A i \in 1..Len(rest) : rest[i] = messages[n + i]
  <2>1. /\ SubSeq(messages, n + 1, Len(messages)) \in Seq(Frames)
        /\ Len(SubSeq(messages, n + 1, Len(messages))) = Len(messages) - n
    OBVIOUS
  <2>2. \A i \in 1..(Len(messages) - n) : SubSeq(messages, n + 1, Len(messages))[i] = messages[n + i]
    OBVIOUS
  <2> QED
    BY <2>1, <2>2, Zenon
<1> DEFINE L == Len(messages)
           later == [i \in 1..(Len(rest) + 1) |-> start[n + i]]
<1>5. L \in Nat /\ Len(rest) \in Nat /\ n \in Nat /\ n + (Len(rest) + 1) = L + 1
  BY <1>4
<1>6. \A i \in 1..(Len(rest) + 1) : n + i \in 1..(L + 1) /\ later[i] = start[n + i]
  BY <1>5
<1>7. later \in [1..(Len(rest) + 1) -> 0..b]
  BY <1>6
<1>8. later[1] = a + Len(messages[n].bytes) /\ later[Len(rest) + 1] = b
  <2>1. 1 \in 1..(Len(rest) + 1) /\ Len(rest) + 1 \in 1..(Len(rest) + 1)
    BY <1>5
  <2>2. later[1] = start[n + 1] /\ later[Len(rest) + 1] = start[L + 1]
    BY <1>5, <1>6, <2>1
  <2> QED
    BY <1>1, <1>2, <2>2
<1>9. ASSUME NEW i \in 1..Len(rest)
      PROVE  /\ later[i + 1] = later[i] + Len(rest[i].bytes)
             /\ \A k \in 1..Len(rest[i].bytes) : rest[i].bytes[k] = later[i] + k
  <2>1. /\ i \in 1..(Len(rest) + 1) /\ i + 1 \in 1..(Len(rest) + 1) /\ n + i \in 1..L
        /\ n + (i + 1) = (n + i) + 1
    BY <1>5
  <2>2. later[i] = start[n + i] /\ later[i + 1] = start[(n + i) + 1] /\ rest[i] = messages[n + i]
    BY <1>4, <1>6, <2>1
  <2> QED
    BY <1>1, <2>1, <2>2
<1> HIDE DEF later
<1>10. Consecutive(rest, a + Len(messages[n].bytes), b)
  BY <1>7, <1>8, <1>9 DEF Consecutive
<1> QED
  BY <1>3, <1>4, <1>10

\* The broker's next message follows the ones that wait.
LEMMA ConsecutiveAppend ==
  ASSUME NEW messages \in Seq(Frames), NEW a, NEW b \in Nat, Consecutive(messages, a, b),
         NEW m \in Frames, \A k \in 1..Len(m.bytes) : m.bytes[k] = b + k
  PROVE  Consecutive(Append(messages, m), a, b + Len(m.bytes))
<1>1. PICK start \in [1..(Len(messages) + 1) -> 0..b] :
         /\ start[1] = a /\ start[Len(messages) + 1] = b
         /\ \A i \in 1..Len(messages) :
              /\ start[i + 1] = start[i] + Len(messages[i].bytes)
              /\ \A k \in 1..Len(messages[i].bytes) : messages[i].bytes[k] = start[i] + k
  BY DEF Consecutive
<1>2. m.bytes \in Seq(Nat)
  BY DEF Frames
<1>3. PICK c \in Nat : c = b + Len(m.bytes) /\ c >= b
  BY <1>2
<1>4. PICK all \in Seq(Frames) :
         /\ all = Append(messages, m) /\ Len(all) = Len(messages) + 1 /\ all[Len(messages) + 1] = m
         /\ \A i \in 1..Len(messages) : all[i] = messages[i]
  <2>1. /\ Append(messages, m) \in Seq(Frames) /\ Len(Append(messages, m)) = Len(messages) + 1
        /\ Append(messages, m)[Len(messages) + 1] = m
        /\ \A i \in 1..Len(messages) : Append(messages, m)[i] = messages[i]
    OBVIOUS
  <2> QED
    BY <2>1, Zenon
<1> DEFINE L == Len(messages)
           s == [i \in 1..(Len(all) + 1) |-> IF i = L + 2 THEN c ELSE start[i]]
<1>5. L \in Nat /\ Len(all) = L + 1
  BY <1>4
<1>6. (\A i \in 1..(L + 1) : s[i] = start[i] /\ start[i] \in 0..c) /\ s[L + 2] = c
  BY <1>3, <1>5
<1>7. s \in [1..(Len(all) + 1) -> 0..c]
  BY <1>3, <1>5, <1>6
<1>8. s[1] = a /\ s[Len(all) + 1] = c
  BY <1>1, <1>5, <1>6
<1>9. ASSUME NEW i \in 1..Len(all)
      PROVE  /\ s[i + 1] = s[i] + Len(all[i].bytes)
             /\ \A k \in 1..Len(all[i].bytes) : all[i].bytes[k] = s[i] + k
  <2>1. CASE i \in 1..L
    <3>1. i \in 1..(L + 1) /\ i + 1 \in 1..(L + 1)
      BY <1>5, <2>1
    <3> QED
      BY <1>1, <1>4, <1>6, <2>1, <3>1
  <2>2. CASE i = L + 1
    <3>1. L + 1 \in 1..(L + 1) /\ (L + 1) + 1 = L + 2
      BY <1>5
    <3>2. s[i] = b /\ s[i + 1] = c /\ all[i] = m
      BY <1>1, <1>4, <1>6, <2>2, <3>1
    <3> HIDE DEF s
    <3>3. \A k \in 1..Len(m.bytes) : m.bytes[k] = b + k
      OBVIOUS
    <3> QED
      BY <1>3, <3>2, <3>3, Zenon
  <2>3. i \in 1..L \/ i = L + 1
    BY <1>5
  <2> QED
    BY <2>1, <2>2, <2>3, Zenon
<1> HIDE DEF s
<1>10. Consecutive(all, a, c)
  BY <1>7, <1>8, <1>9 DEF Consecutive
<1> QED
  BY <1>3, <1>4, <1>10

-----------------------------------------------------------------------------
(***************************************************************************)
(* Bytes in order: the steps.                                              *)
(***************************************************************************)

\* The first byte of a packet is recognised.
LEMMA PacketStart ==
  ASSUME NEW k \in Nat
  PROVE  (k * PacketLen + 1) % PacketLen = 1 % PacketLen
<1>1. PICK m \in Nat : m = PacketLen /\ m > 0
  BY StreamAssumption
<1>2. PICK q \in Int : q = (k * m + 1) \div m
  BY <1>1
<1>3. PICK r \in 0..(m - 1) : r = (k * m + 1) % m /\ k * m + 1 = m * q + r
  BY <1>1, <1>2
<1>4. CASE m = 1
  <2>1. r = 0 /\ 1 % m = 0
    BY <1>3, <1>4
  <2> QED
    BY <1>1, <1>3, <2>1
<1>5. CASE m > 1
  <2>1. m * (q - k) = 1 - r
    BY <1>1, <1>3
  <2>2. PICK d \in Int : d = q - k /\ m * d = 1 - r
    BY <1>2, <2>1
  <2>3. ~(d >= 1)
    <3>1. d >= 1 => m * d >= m
      BY <1>1, <2>2
    <3> QED
      BY <1>1, <1>3, <1>5, <2>2, <3>1
  <2>4. ~(d <= -1)
    <3>1. d <= -1 => m * d <= -m
      BY <1>1, <2>2
    <3> QED
      BY <1>1, <1>3, <1>5, <2>2, <3>1
  <2>5. d = 0
    BY <2>2, <2>3, <2>4
  <2>6. r = 1
    BY <1>1, <2>2, <2>5
  <2>7. 1 % m = 1
    BY <1>1, <1>5
  <2> QED
    BY <1>1, <1>3, <2>6, <2>7
<1> QED
  BY <1>1, <1>4, <1>5

\* The next bytes, after what read_packet has of the packet.
LEMMA ReadOn ==
  ASSUME ReadType, PacketsInOrder, ~torn, NEW bytes \in Seq(Nat),
         \A k \in 1..Len(bytes) : bytes[k] = Len(got) + k
  PROVE  \A i \in 1..Len(partial \o bytes) : (partial \o bytes)[i] = Len(packets) * PacketLen + i
<1>1. /\ partial \in Seq(Nat) /\ Len(partial) \in Nat /\ Len(bytes) \in Nat
      /\ Len(partial \o bytes) = Len(partial) + Len(bytes)
  BY DEF ReadType
<1>2. PICK c \in Nat : c = Len(packets) * PacketLen
  <2>1. Len(packets) \in Nat /\ PacketLen \in Nat
    BY StreamAssumption DEF ReadType
  <2> QED
    BY <2>1
<1>3. Len(got) = c + Len(partial) /\ \A i \in 1..Len(partial) : partial[i] = c + i
  BY <1>2 DEF PacketsInOrder
<1>4. ASSUME NEW i \in 1..Len(partial \o bytes) PROVE (partial \o bytes)[i] = c + i
  <2>1. CASE i <= Len(partial)
    <3>1. i \in 1..Len(partial) /\ (partial \o bytes)[i] = partial[i]
      BY <1>1, <2>1
    <3> QED
      BY <1>3, <3>1
  <2>2. CASE i > Len(partial)
    <3>1. i - Len(partial) \in 1..Len(bytes) /\ (partial \o bytes)[i] = bytes[i - Len(partial)]
      BY <1>1, <2>2
    <3>2. bytes[i - Len(partial)] = Len(got) + (i - Len(partial))
      BY <3>1
    <3>3. Len(got) + (i - Len(partial)) = c + i
      BY <1>1, <1>2, <1>3
    <3> QED
      BY <3>1, <3>2, <3>3
  <2> QED
    BY <1>1, <2>1, <2>2
<1> QED
  BY <1>2, <1>4

\* read_packet takes the next bytes: a packet that is complete is the broker's next one.
LEMMA TakeKeeps ==
  ASSUME ReadType, GotInOrder, PacketsInOrder, rpc = "recv", NEW bytes \in Seq(Nat),
         Len(bytes) <= Wanted, \A k \in 1..Len(bytes) : bytes[k] = Len(got) + k,
         Len(got) + Len(bytes) <= produced, TakeBytes(bytes), UNCHANGED <<torn, produced>>
  PROVE  /\ got' \in Seq(Nat) /\ Len(got') = Len(got) + Len(bytes) /\ GotInOrder'
         /\ partial' \in Seq(Nat) /\ Len(partial') < PacketLen /\ packets' \in Seq(Seq(Nat))
         /\ PacketsInOrder'
<1>0. /\ got \in Seq(Nat) /\ partial \in Seq(Nat) /\ Len(got) \in Nat /\ Len(partial) \in Nat /\ Len(bytes) \in Nat
      /\ packets \in Seq(Seq(Nat)) /\ Len(packets) \in Nat /\ PacketLen \in Nat /\ PacketLen > 0
      /\ got' = got \o bytes
  <2>1. got \in Seq(Nat) /\ partial \in Seq(Nat) /\ packets \in Seq(Seq(Nat))
    BY DEF ReadType
  <2>2. Len(got) \in Nat /\ Len(partial) \in Nat /\ Len(bytes) \in Nat /\ Len(packets) \in Nat
    BY <2>1
  <2>3. PacketLen \in Nat /\ PacketLen > 0
    BY StreamAssumption
  <2> QED
    BY <2>1, <2>2, <2>3 DEF TakeBytes
<1>1. got' \in Seq(Nat) /\ Len(got') = Len(got) + Len(bytes)
  BY <1>0
<1>2. GotInOrder'
  <2>1. ASSUME NEW i \in 1..Len(got') PROVE got'[i] = i
    <3>1. CASE i <= Len(got)
      <4>1. i \in 1..Len(got) /\ got'[i] = got[i]
        BY <1>0, <1>1, <3>1
      <4> QED
        BY <4>1 DEF GotInOrder
    <3>2. CASE i > Len(got)
      <4>1. i - Len(got) \in 1..Len(bytes) /\ got'[i] = bytes[i - Len(got)]
        BY <1>0, <1>1, <3>2
      <4>2. bytes[i - Len(got)] = Len(got) + (i - Len(got))
        BY <4>1
      <4> QED
        BY <1>0, <1>1, <4>1, <4>2
    <3> QED
      BY <1>0, <1>1, <3>1, <3>2
  <2> QED
    BY <1>1, <2>1 DEF GotInOrder
<1>3. PICK read \in Seq(Nat) : read = partial \o bytes /\ Len(read) = Len(partial) + Len(bytes)
  <2>1. partial \o bytes \in Seq(Nat) /\ Len(partial \o bytes) = Len(partial) + Len(bytes)
    BY <1>0
  <2> QED
    BY <2>1, Zenon
<1>4. Len(read) \in Nat /\ Len(read) <= PacketLen
  BY <1>0, <1>3 DEF Wanted
<1>5. PICK c \in Nat : c = Len(packets) * PacketLen
  BY <1>0
<1>6. ~torn => \A i \in 1..Len(read) : read[i] = c + i
  BY <1>3, <1>5, ReadOn
<1>7. ~torn => Len(got') = c + Len(read)
  <2>1. ~torn => Len(got) = c + Len(partial)
    BY <1>5 DEF PacketsInOrder
  <2>2. ASSUME NEW g \in Nat, NEW p \in Nat, NEW b \in Nat, g = c + p PROVE g + b = c + (p + b)
    BY <1>5, <2>2
  <2>3. ~torn => Len(got) + Len(bytes) = c + (Len(partial) + Len(bytes))
    <3>1. Len(got) \in Nat /\ Len(partial) \in Nat /\ Len(bytes) \in Nat
      BY <1>0
    <3> QED
      BY <2>1, <2>2, <3>1, Zenon
  <2> QED
    BY <1>1, <1>3, <2>3, Zenon
<1>8. CASE Len(read) < PacketLen
  <2>1. partial' = read /\ UNCHANGED <<packets, rpc>>
    BY <1>3, <1>8 DEF TakeBytes
  <2>2. PacketsInOrder'
    <3> SUFFICES ASSUME ~torn' PROVE PacketsInOrder'
      BY DEF PacketsInOrder
    <3>1. Len(got') = Len(packets') * PacketLen + Len(partial')
      BY <1>5, <1>7, <2>1
    <3>2. \A i \in 1..Len(partial') : partial'[i] = Len(packets') * PacketLen + i
      BY <1>5, <1>6, <2>1
    <3>3. \A p \in 1..Len(packets') : packets'[p] = PacketBytes(p)
      BY <2>1 DEF PacketsInOrder
    <3> QED
      BY <2>1, <3>1, <3>2, <3>3 DEF PacketsInOrder, PacketBytes, Numbers
  <2> QED
    BY <1>0, <1>1, <1>2, <1>8, <2>1, <2>2
<1>9. CASE Len(read) = PacketLen
  <2>0. /\ partial' = <<>>
        /\ \/ packets' = Append(packets, read) /\ UNCHANGED rpc
           \/ read[1] % PacketLen # 1 % PacketLen /\ rpc' = "malformed" /\ UNCHANGED packets
    <3>1. ~(Len(partial \o bytes) < PacketLen)
      BY <1>0, <1>3, <1>9
    <3>2. /\ partial' = <<>>
          /\ \/ packets' = Append(packets, partial \o bytes) /\ UNCHANGED rpc
             \/ (partial \o bytes)[1] % PacketLen # 1 % PacketLen /\ rpc' = "malformed" /\ UNCHANGED packets
      BY <3>1, Zenon DEF TakeBytes
    <3> QED
      BY <1>3, <3>2, Zenon
  <2>1. packets' \in Seq(Seq(Nat)) /\ partial' \in Seq(Nat) /\ Len(partial') = 0
    <3>1. packets' = packets \/ packets' = Append(packets, read)
      BY <2>0
    <3>2. Append(packets, read) \in Seq(Seq(Nat))
      BY <1>0, AppendProperties
    <3>3. packets' \in Seq(Seq(Nat))
      BY <1>0, <3>1, <3>2, Zenon
    <3>4. partial' \in Seq(Nat) /\ Len(partial') = 0
      BY <2>0
    <3> QED
      BY <3>3, <3>4
  <2>2. PacketsInOrder'
    <3> SUFFICES ASSUME ~torn' PROVE PacketsInOrder'
      BY DEF PacketsInOrder
    <3>1. ~torn
      OBVIOUS
    <3>2. packets' = Append(packets, read) /\ rpc' = "recv"
      <4>1. 1 \in 1..Len(read)
        BY <1>0, <1>9
      <4>2. read[1] = Len(packets) * PacketLen + 1
        BY <1>5, <1>6, <3>1, <4>1
      <4>3. read[1] % PacketLen = 1 % PacketLen
        BY <1>0, <4>2, PacketStart
      <4> QED
        BY <2>0, <4>3
    <3>3. Len(packets') = Len(packets) + 1
      BY <1>0, <3>2
    <3>4. (Len(packets) + 1) * PacketLen = c + PacketLen
      BY <1>0, <1>5
    <3>5. Len(got') = Len(packets') * PacketLen + Len(partial')
      BY <1>0, <1>5, <1>7, <1>9, <2>1, <3>1, <3>3, <3>4
    <3>6. read = PacketBytes(Len(packets) + 1)
      <4>1. PICK p \in Nat : p = Len(packets) + 1 /\ p > 0 /\ p - 1 = Len(packets)
        BY <1>0
      <4>2. /\ PacketBytes(p) \in Seq(Nat) /\ Len(PacketBytes(p)) = PacketLen
            /\ \A i \in 1..PacketLen : PacketBytes(p)[i] = (p - 1) * PacketLen + i
        BY <4>1, PacketBytesType
      <4>3. Len(PacketBytes(p)) = Len(read) /\ \A i \in 1..Len(read) : read[i] = PacketBytes(p)[i]
        BY <1>5, <1>6, <1>9, <3>1, <4>1, <4>2
      <4>4. read = PacketBytes(p)
        BY <4>2, <4>3, SeqEqual
      <4> QED
        BY <4>1, <4>4
    <3>7. ASSUME NEW p \in 1..Len(packets') PROVE packets'[p] = PacketBytes(p)
      <4>1. CASE p \in 1..Len(packets)
        BY <1>0, <3>1, <3>2, <4>1 DEF PacketsInOrder
      <4>2. CASE p = Len(packets) + 1
        BY <1>0, <3>2, <3>6, <4>2
      <4> QED
        BY <1>0, <3>3, <4>1, <4>2
    <3>8. \A i \in 1..Len(partial') : FALSE
      BY <2>1
    <3> QED
      BY <3>2, <3>5, <3>7, <3>8 DEF PacketsInOrder, PacketBytes, Numbers
  <2> QED
    BY <1>0, <1>1, <1>2, <2>1, <2>2
<1> QED
  BY <1>0, <1>4, <1>8, <1>9

\* The next n bytes of a buffer of which `from` bytes are gone, when the byte after them is
\* number g + 1.
Taken(B, from, g, cap, n) ==
    /\ n \in Nat /\ n <= cap /\ from + n \in 0..Len(B)
    /\ SubSeq(B, from + 1, from + n) \in Seq(Nat) /\ Len(SubSeq(B, from + 1, from + n)) = n
    /\ \A k \in 1..n : SubSeq(B, from + 1, from + n)[k] = g + k
    /\ (g + n) + (Len(B) - (from + n)) = g + (Len(B) - from) /\ g + n <= g + (Len(B) - from)
    /\ \A i \in 1..Len(B) : i > from + n => B[i] = (g + n) + i - (from + n)

\* What poll_read takes are the next bytes, and the next ones follow them.
LEMMA BufferTake ==
  ASSUME NEW B \in Seq(Nat), NEW from \in 0..Len(B), NEW g \in Nat, NEW cap \in Nat,
         \A i \in 1..Len(B) : i > from => B[i] = g + i - from,
         NEW n, n = Min({cap, Len(B) - from})
  PROVE  Taken(B, from, g, cap, n)
<1>0. Len(B) \in Nat /\ from \in Nat /\ Len(B) - from \in Nat
  OBVIOUS
<1>1. n \in Nat /\ n <= cap /\ n <= Len(B) - from
  <2>1. PICK r \in Nat : r = Len(B) - from
    BY <1>0, Zenon
  <2>2. n = Min({cap, r})
    BY <2>1, Zenon
  <2>3. Min({cap, r}) \in {cap, r} /\ Min({cap, r}) <= cap /\ Min({cap, r}) <= r
    <3>1. cap \in Int /\ r \in Int
      OBVIOUS
    <3> QED
      BY <3>1, MinOfTwo, Zenon
  <2>4. n \in Nat /\ n <= cap /\ n <= r
    BY <2>2, <2>3
  <2> QED
    BY <2>1, <2>4, Zenon
<1>2. from + n \in 0..Len(B)
  BY <1>0, <1>1
<1>3. SubSeq(B, from + 1, from + n) \in Seq(Nat) /\ Len(SubSeq(B, from + 1, from + n)) = n
  <2>1. PICK a \in Int : a = from + 1
    BY <1>0
  <2>2. PICK b \in Int : b = from + n /\ b <= Len(B)
    BY <1>0, <1>1, <1>2
  <2>a. ASSUME NEW i \in a..b PROVE B[i] \in Nat
    <3>1. i \in 1..Len(B)
      BY <1>0, <2>1, <2>2
    <3> QED
      BY <3>1
  <2>b. /\ SubSeq(B, a, b) \in Seq(Nat)
        /\ Len(SubSeq(B, a, b)) = IF a <= b THEN b - a + 1 ELSE 0
    BY <2>a, SubSeqProperties
  <2>3. (IF from + 1 <= from + n THEN (from + n) - (from + 1) + 1 ELSE 0) = n
    BY <1>0, <1>1
  <2> QED
    BY <2>1, <2>2, <2>b, <2>3, Zenon
<1>4. ASSUME NEW k \in 1..n PROVE SubSeq(B, from + 1, from + n)[k] = g + k
  <2>1. SubSeq(B, from + 1, from + n)[k] = B[from + k]
    BY <1>0, <1>1, <1>2
  <2>2. from + k \in 1..Len(B) /\ from + k > from
    BY <1>0, <1>1, <1>2
  <2>3. B[from + k] = g + (from + k) - from
    BY <2>2
  <2> QED
    BY <1>0, <1>1, <2>1, <2>3
<1>5. (g + n) + (Len(B) - (from + n)) = g + (Len(B) - from) /\ g + n <= g + (Len(B) - from)
  BY <1>0, <1>1
<1>6. ASSUME NEW i \in 1..Len(B), i > from + n PROVE B[i] = (g + n) + i - (from + n)
  <2>1. i > from
    BY <1>0, <1>1, <1>6
  <2>2. B[i] = g + i - from
    BY <2>1
  <2> QED
    BY <1>0, <1>1, <2>2
<1> QED
  BY <1>1, <1>2, <1>3, <1>4, <1>5, <1>6, Zenon DEF Taken

\* read_packet asks for no more than the packet still lacks.
LEMMA CapType ==
  ASSUME ReadType, NEW cap \in 1..Wanted PROVE cap \in Nat /\ cap <= Wanted /\ Wanted \in Nat
<1>1. PacketLen \in Nat /\ Len(partial) \in Nat /\ Len(partial) < PacketLen
  BY StreamAssumption DEF ReadType
<1>2. Wanted \in Nat
  BY <1>1 DEF Wanted
<1> QED
  BY <1>2

\* poll_read delivers the next n bytes of its buffer, of which `from` bytes are gone.
LEMMA BytesTaken ==
  ASSUME ReadInv, rpc = "recv", NEW B \in Seq(Nat), readBuf' = B, NEW from \in 0..Len(B),
         \A i \in 1..Len(B) : i > from => B[i] = Len(got) + i - from,
         incoming' \in Seq(Frames),
         \A i \in 1..Len(incoming') : incoming'[i].kind # "binary" => incoming'[i].bytes = <<>>,
         Consecutive(incoming', Len(got) + (Len(B) - from), produced),
         NEW cap \in 1..Wanted, NEW n, n = Min({cap, Len(B) - from}), readPos' = from + n,
         TakeBytes(SubSeq(B, from + 1, from + n)), UNCHANGED <<torn, produced>>
  PROVE  ReadInv' /\ Len(got) <= Len(got')
<1>1. PICK g \in Nat : g = Len(got)
  BY DEF ReadInv, ReadType
<1>2. cap \in Nat /\ cap <= Wanted /\ Wanted \in Nat /\ produced \in Nat /\ torn \in BOOLEAN
  BY CapType DEF ReadInv, ReadType
<1>3. \A i \in 1..Len(B) : i > from => B[i] = g + i - from
  BY <1>1
<1>4. /\ n \in Nat /\ n <= cap /\ from + n \in 0..Len(B)
      /\ SubSeq(B, from + 1, from + n) \in Seq(Nat) /\ Len(SubSeq(B, from + 1, from + n)) = n
      /\ \A k \in 1..n : SubSeq(B, from + 1, from + n)[k] = g + k
      /\ (g + n) + (Len(B) - (from + n)) = g + (Len(B) - from) /\ g + n <= g + (Len(B) - from)
      /\ \A i \in 1..Len(B) : i > from + n => B[i] = (g + n) + i - (from + n)
  <2>1. Taken(B, from, g, cap, n)
    BY <1>2, <1>3, BufferTake
  <2> QED
    BY <2>1, Zenon DEF Taken
<1>5. PICK bytes \in Seq(Nat) :
         /\ bytes = SubSeq(B, from + 1, from + n) /\ Len(bytes) = n
         /\ \A k \in 1..n : bytes[k] = g + k
  BY <1>4, Zenon
<1>6. Consecutive(incoming', g + (Len(B) - from), produced)
  BY <1>1
<1>7. g + (Len(B) - from) \in 0..produced
  BY <1>2, <1>6, ConsecutiveBound
<1>8. g + n <= produced /\ n <= Wanted
  <2>1. ASSUME NEW x \in Int, NEW y \in Int, NEW z \in Int, x <= y, y <= z PROVE x <= z
    BY <2>1
  <2>2. g + n \in Int /\ g + (Len(B) - from) \in Int /\ g + (Len(B) - from) <= produced /\ produced \in Int
    BY <1>2, <1>4, <1>7
  <2>3. g + n <= produced
    BY <1>4, <2>1, <2>2, Zenon
  <2>4. n \in Int /\ cap \in Int /\ Wanted \in Int
    BY <1>2, <1>4
  <2>5. n <= Wanted
    BY <1>2, <1>4, <2>1, <2>4, Zenon
  <2> QED
    BY <2>3, <2>5
<1>9. TakeBytes(bytes)
  BY <1>5, Zenon
<1>10. /\ got' \in Seq(Nat) /\ Len(got') = g + n /\ GotInOrder'
       /\ partial' \in Seq(Nat) /\ Len(partial') < PacketLen /\ packets' \in Seq(Seq(Nat))
       /\ PacketsInOrder'
  <2>1. /\ Len(bytes) <= Wanted /\ (\A k \in 1..Len(bytes) : bytes[k] = Len(got) + k)
        /\ Len(got) + Len(bytes) <= produced
    BY <1>1, <1>5, <1>8, Zenon
  <2> QED
    BY <1>1, <1>5, <1>9, <2>1, TakeKeeps DEF ReadInv
<1>11. ReadType'
  BY <1>2, <1>4, <1>10 DEF ReadType
<1>12. SocketInOrder'
  <2>1. \A i \in 1..Len(readBuf') : i > readPos' => readBuf'[i] = Len(got') + i - readPos'
    BY <1>4, <1>10, Zenon
  <2>2. Len(got') + (Len(readBuf') - readPos') = g + (Len(B) - from)
    BY <1>4, <1>10, Zenon
  <2>3. Consecutive(incoming', Len(got') + (Len(readBuf') - readPos'), produced')
    BY <1>6, <2>2, Zenon
  <2>4. Consecutive(incoming, Len(got) + (Len(readBuf) - readPos), produced)'
    BY <2>3 DEF Consecutive
  <2> QED
    BY <2>1, <2>4 DEF SocketInOrder
<1>13. Len(got) <= Len(got')
  <2>1. g <= g + n
    BY <1>4
  <2> QED
    BY <1>1, <1>10, <2>1, Zenon
<1> QED
  BY <1>10, <1>11, <1>12, <1>13 DEF ReadInv

\* What poll_read skips has no bytes.
LEMMA SkippedEmpty ==
  ASSUME ReadType, NEW i \in 1..Len(incoming), Skipped(incoming[i]) PROVE incoming[i].bytes = <<>>
BY DEF ReadType, Skipped

\* poll_read when it yields bytes.
LEMMA PollReadKeeps == ASSUME ReadInv, NEW cap \in 1..Wanted, PollRead(cap) PROVE ReadInv' /\ Len(got) <= Len(got')
<1>0. rpc = "recv" /\ UNCHANGED <<torn, produced>>
  BY DEF PollRead, MayRead, brokerVars
<1>1. /\ incoming \in Seq(Frames) /\ readBuf \in Seq(Nat) /\ Len(readBuf) \in Nat /\ Len(incoming) \in Nat
      /\ readPos \in 0..Len(readBuf) /\ got \in Seq(Nat) /\ Len(got) \in Nat /\ produced \in Nat
  BY DEF ReadInv, ReadType
<1>2. Consecutive(incoming, Len(got) + (Len(readBuf) - readPos), produced)
  BY <1>0 DEF ReadInv, SocketInOrder
<1>3. CASE ~Drained /\ UNCHANGED <<incoming, readBuf>>
  <2>1. PICK n : /\ n = Min({cap, Len(readBuf') - readPos}) /\ readPos' = readPos + n
                 /\ TakeBytes(SubSeq(readBuf', readPos + 1, readPos + n))
    BY <1>3 DEF PollRead
  <2>2. \A i \in 1..Len(readBuf') : i > readPos => readBuf'[i] = Len(got) + i - readPos
    BY <1>0, <1>3 DEF ReadInv, SocketInOrder
  <2>3. \A i \in 1..Len(incoming') : incoming'[i].kind # "binary" => incoming'[i].bytes = <<>>
    BY <1>3 DEF ReadInv, ReadType
  <2>4. Consecutive(incoming', Len(got) + (Len(readBuf') - readPos), produced)
    BY <1>2, <1>3
  <2>5. readBuf' \in Seq(Nat) /\ readPos \in 0..Len(readBuf') /\ incoming' \in Seq(Frames)
    BY <1>1, <1>3
  <2> QED
    BY <1>0, <2>1, <2>2, <2>3, <2>4, <2>5, BytesTaken
<1>4. CASE /\ Drained /\ Next1 > 0 /\ incoming[Next1].kind = "binary"
           /\ readBuf' = incoming[Next1].bytes
           /\ incoming' = SubSeq(incoming, Next1 + 1, Len(incoming))
  <2>1. PICK m \in 1..Len(incoming) : m = Next1
    BY <1>1, <1>4, FirstMessage
  <2>2. \A i \in 1..(m - 1) : incoming[i].bytes = <<>>
    <3>1. \A i \in 1..(m - 1) : i \in 1..Len(incoming) /\ Skipped(incoming[i])
      BY <1>1, <1>4, <2>1, FirstMessage
    <3> QED
      BY <3>1, SkippedEmpty DEF ReadInv
  <2>3. Len(got) + (Len(readBuf) - readPos) = Len(got)
    BY <1>1, <1>4 DEF Drained
  <2>4. /\ \A k \in 1..Len(incoming[m].bytes) : incoming[m].bytes[k] = Len(got) + k
        /\ Consecutive(SubSeq(incoming, m + 1, Len(incoming)), Len(got) + Len(incoming[m].bytes), produced)
    BY <1>1, <1>2, <2>2, <2>3, ConsecutiveRead
  <2>5. readBuf' = incoming[m].bytes /\ incoming' = SubSeq(incoming, m + 1, Len(incoming))
    BY <1>4, <2>1
  <2>6. readBuf' \in Seq(Nat) /\ Len(readBuf') \in Nat
    <3>1. incoming[m] \in Frames
      BY <1>1
    <3> QED
      BY <2>5, <3>1 DEF Frames
  <2>7. /\ incoming' \in Seq(Frames) /\ Len(incoming') = Len(incoming) - m
        /\ \A i \in 1..(Len(incoming) - m) : incoming'[i] = incoming[m + i]
    BY <1>1, <2>5
  <2>8. \A i \in 1..Len(incoming') : incoming'[i].kind # "binary" => incoming'[i].bytes = <<>>
    <3>1. \A i \in 1..Len(incoming') : m + i \in 1..Len(incoming) /\ incoming'[i] = incoming[m + i]
      BY <1>1, <2>7
    <3> QED
      BY <3>1 DEF ReadInv, ReadType
  <2>9. PICK n : /\ n = Min({cap, Len(readBuf') - 0}) /\ readPos' = 0 + n
                 /\ TakeBytes(SubSeq(readBuf', 0 + 1, 0 + n))
    BY <1>4 DEF PollRead
  <2>10. \A i \in 1..Len(readBuf') : i > 0 => readBuf'[i] = Len(got) + i - 0
    BY <1>1, <2>4, <2>5, <2>6
  <2>11. Len(got) + (Len(readBuf') - 0) = Len(got) + Len(incoming[m].bytes)
    BY <2>5, <2>6
  <2>12. Consecutive(incoming', Len(got) + (Len(readBuf') - 0), produced)
    BY <2>4, <2>5, <2>11
  <2>13. 0 \in 0..Len(readBuf')
    BY <2>6
  <2> QED
    BY <1>0, <2>6, <2>7, <2>8, <2>9, <2>10, <2>12, <2>13, BytesTaken
<1> QED
  BY <1>3, <1>4 DEF PollRead

\* The reader, and what it reads from, stay as they are.
LEMMA ReaderRests ==
  ASSUME ReadInv, UNCHANGED <<incoming, produced, readBuf, readPos, got, partial, packets, rpc, torn>>
  PROVE  ReadInv'
<1>1. ReadType'
  BY DEF ReadInv, ReadType
<1>2. SocketInOrder'
  BY DEF ReadInv, SocketInOrder
<1>3. GotInOrder'
  BY DEF ReadInv, GotInOrder
<1>4. PacketsInOrder'
  BY DEF ReadInv, PacketsInOrder, PacketBytes, Numbers
<1> QED
  BY <1>1, <1>2, <1>3, <1>4 DEF ReadInv

\* poll_read when everything that waits is skipped.
LEMMA PendingKeeps == ASSUME ReadInv, PollReadPending PROVE ReadInv'
<1>0. /\ rpc = "recv" /\ readPos = Len(readBuf) /\ Next1 = 0 /\ readBuf' = <<>> /\ readPos' = 0 /\ incoming' = <<>>
      /\ UNCHANGED <<produced, got, partial, packets, rpc, torn>>
  BY DEF PollReadPending, MayRead, NothingToRead, Drained, brokerVars
<1>1. /\ incoming \in Seq(Frames) /\ Len(readBuf) \in Nat /\ Len(got) \in Nat /\ produced \in Nat
  BY DEF ReadInv, ReadType
<1>2. \A i \in 1..Len(incoming) : incoming[i].bytes = <<>>
  BY <1>0, <1>1, FirstMessage, SkippedEmpty DEF ReadInv
<1>3. Len(got) + (Len(readBuf) - readPos) = produced
  BY <1>0, <1>1, <1>2, ConsecutiveSkipped DEF ReadInv, SocketInOrder
<1>4. Len(got) = produced
  BY <1>0, <1>1, <1>3
<1>5. ReadType'
  <2>1. readBuf' \in Seq(Nat) /\ incoming' \in Seq(Frames) /\ readPos' \in 0..Len(readBuf')
        /\ \A i \in 1..Len(incoming') : FALSE
    BY <1>0
  <2> QED
    BY <1>0, <2>1 DEF ReadInv, ReadType
<1>6. SocketInOrder'
  <2>1. Consecutive(<<>>, produced, produced)
    BY <1>1, ConsecutiveEmpty
  <2>2. Len(got') + (Len(readBuf') - readPos') = produced
    BY <1>0, <1>1, <1>4
  <2>3. Consecutive(incoming', Len(got') + (Len(readBuf') - readPos'), produced')
    BY <1>0, <2>1, <2>2
  <2>4. Consecutive(incoming, Len(got) + (Len(readBuf) - readPos), produced)'
    BY <2>3 DEF Consecutive
  <2>5. \A i \in 1..Len(readBuf') : FALSE
    BY <1>0
  <2> QED
    BY <2>4, <2>5 DEF SocketInOrder
<1>7. GotInOrder' /\ PacketsInOrder'
  BY <1>0 DEF ReadInv, GotInOrder, PacketsInOrder, PacketBytes, Numbers
<1> QED
  BY <1>5, <1>6, <1>7 DEF ReadInv

\* The end of the stream: nothing more is read.
LEMMA EndsKeeps == ASSUME ReadInv, PollReadEnds PROVE ReadInv'
<1>0. /\ rpc' \in {"eof", "lost"} /\ readBuf' = <<>> /\ readPos' = 0 /\ incoming' = <<>>
      /\ UNCHANGED <<produced, got, partial, packets, torn>>
  BY DEF PollReadEnds, brokerVars
<1>1. ReadType'
  <2>1. readBuf' \in Seq(Nat) /\ incoming' \in Seq(Frames) /\ readPos' \in 0..Len(readBuf')
        /\ \A i \in 1..Len(incoming') : FALSE
    BY <1>0
  <2> QED
    BY <1>0, <2>1 DEF ReadInv, ReadType
<1>2. SocketInOrder'
  BY <1>0 DEF SocketInOrder
<1>3. GotInOrder' /\ PacketsInOrder'
  BY <1>0 DEF ReadInv, GotInOrder, PacketsInOrder, PacketBytes, Numbers
<1> QED
  BY <1>1, <1>2, <1>3 DEF ReadInv

\* A timeout between two packets loses nothing; one within a packet tears it.
LEMMA TimeoutKeeps == ASSUME ReadInv, Timeout PROVE ReadInv'
<1>0. /\ partial' = <<>> /\ torn' = (torn \/ partial # <<>>)
      /\ UNCHANGED <<incoming, produced, readBuf, readPos, got, packets, rpc>>
  BY DEF Timeout, brokerVars
<1>1. ReadType'
  <2>1. partial' \in Seq(Nat) /\ Len(partial') < PacketLen /\ torn' \in BOOLEAN
    BY <1>0, StreamAssumption
  <2> QED
    BY <1>0, <2>1 DEF ReadInv, ReadType
<1>2. SocketInOrder' /\ GotInOrder'
  BY <1>0 DEF ReadInv, SocketInOrder, GotInOrder, Consecutive
<1>3. PacketsInOrder'
  <2>1. CASE torn'
    BY <2>1 DEF PacketsInOrder
  <2>2. CASE ~torn'
    <3>1. ~torn /\ partial' = partial
      BY <1>0, <2>2
    <3> QED
      BY <1>0, <3>1 DEF ReadInv, PacketsInOrder, PacketBytes, Numbers
  <2> QED
    BY <2>1, <2>2
<1> QED
  BY <1>1, <1>2, <1>3 DEF ReadInv

\* The broker sends a message with the next bytes, or with none.
LEMMA MessageArrives ==
  ASSUME ReadInv, NEW m \in Frames, NEW n \in Nat, Len(m.bytes) = n,
         \A k \in 1..n : m.bytes[k] = produced + k, m.kind # "binary" => m.bytes = <<>>,
         incoming' = Append(incoming, m), produced' = produced + n,
         UNCHANGED <<readBuf, readPos, got, partial, packets, rpc, torn>>
  PROVE  ReadInv'
<1>0. incoming \in Seq(Frames) /\ produced \in Nat /\ Len(got) \in Nat
  BY DEF ReadInv, ReadType
<1>1. /\ incoming' \in Seq(Frames) /\ Len(incoming') = Len(incoming) + 1 /\ incoming'[Len(incoming) + 1] = m
      /\ \A i \in 1..Len(incoming) : incoming'[i] = incoming[i]
  BY <1>0
<1>2. ReadType'
  <2>1. \A i \in 1..Len(incoming') : i \in 1..Len(incoming) \/ i = Len(incoming) + 1
    BY <1>0, <1>1
  <2>2. \A i \in 1..Len(incoming') : incoming'[i].kind # "binary" => incoming'[i].bytes = <<>>
    BY <1>1, <2>1 DEF ReadInv, ReadType
  <2>3. produced' \in Nat
    BY <1>0
  <2> QED
    BY <1>1, <2>2, <2>3 DEF ReadInv, ReadType
<1>3. SocketInOrder'
  <2> SUFFICES ASSUME rpc = "recv" PROVE SocketInOrder'
    BY DEF SocketInOrder
  <2>1. PICK a : a = Len(got) + (Len(readBuf) - readPos)
    OBVIOUS
  <2>2. Consecutive(incoming, a, produced)
    BY <2>1 DEF ReadInv, SocketInOrder
  <2>3. Consecutive(Append(incoming, m), a, produced + Len(m.bytes))
    BY <1>0, <2>2, ConsecutiveAppend
  <2>4. Consecutive(incoming', a, produced')
    BY <2>3
  <2>5. Consecutive(incoming, Len(got) + (Len(readBuf) - readPos), produced)'
    BY <2>1, <2>4 DEF Consecutive
  <2> QED
    BY <2>5 DEF ReadInv, SocketInOrder
<1>4. GotInOrder'
  <2>1. Len(got) <= produced /\ produced <= produced'
    BY <1>0 DEF ReadInv, GotInOrder
  <2>2. produced' \in Nat
    BY <1>0
  <2>3. Len(got) <= produced'
    BY <1>0, <2>1, <2>2
  <2> QED
    BY <2>3 DEF ReadInv, GotInOrder
<1>5. PacketsInOrder'
  BY DEF ReadInv, PacketsInOrder, PacketBytes, Numbers
<1> QED
  BY <1>2, <1>3, <1>4, <1>5 DEF ReadInv

\* WsByteStream::new.
LEMMA ReadInit == Init => ReadInv
<1> SUFFICES ASSUME Init PROVE ReadInv
  OBVIOUS
<1>0. /\ incoming = <<>> /\ readBuf = <<>> /\ got = <<>> /\ partial = <<>> /\ packets = <<>> /\ produced = 0
      /\ torn = FALSE /\ readPos = 0 /\ rpc = "recv"
  BY DEF Init
<1>1. ReadType
  <2>1. <<>> \in Seq(Frames) /\ <<>> \in Seq(Nat) /\ <<>> \in Seq(Seq(Nat)) /\ Len(<<>>) = 0 /\ 0 \in 0..0
    OBVIOUS
  <2>2. 0 < PacketLen
    BY StreamAssumption
  <2>3. \A i \in 1..0 : FALSE
    OBVIOUS
  <2> QED
    BY <1>0, <2>1, <2>2, <2>3 DEF ReadType
<1>2. SocketInOrder
  <2>1. Len(got) + (Len(readBuf) - readPos) = 0
    BY <1>0
  <2>2. Consecutive(<<>>, 0, 0)
    BY ConsecutiveEmpty
  <2>3. \A i \in 1..Len(readBuf) : FALSE
    BY <1>0
  <2> QED
    BY <1>0, <2>1, <2>2, <2>3 DEF SocketInOrder
<1>3. GotInOrder
  BY <1>0 DEF GotInOrder
<1>4. PacketsInOrder
  <2>1. 0 * PacketLen = 0
    BY StreamAssumption
  <2> QED
    BY <1>0, <2>1 DEF PacketsInOrder
<1> QED
  BY <1>1, <1>2, <1>3, <1>4 DEF ReadInv

\* Every step of the reader, of the writer beside it, and of the broker.
LEMMA ReadNext == ASSUME ReadInv, [Next]_vars PROVE ReadInv'
<1>1. CASE \E cap \in 1..Wanted : PollRead(cap)
  BY <1>1, PollReadKeeps
<1>2. CASE PollReadPending \/ PollReadEnds \/ Timeout
  BY <1>2, PendingKeeps, EndsKeeps, TimeoutKeeps
<1>3. CASE BenchWrites \/ PollFlush \/ PollFlushFails \/ Tick \/ UNCHANGED vars
  BY <1>3, ReaderRests DEF BenchWrites, PollFlush, PollFlushFails, Tick, vars, readVars, brokerVars
<1>4. CASE BrokerSends
  <2>1. produced \in Nat
    BY DEF ReadInv, ReadType
  <2>2. PICK n \in Nat : /\ produced' = produced + n
                         /\ incoming' = Append(incoming, Message("binary", Numbers(produced + 1, produced + n)))
                         /\ Message("binary", Numbers(produced + 1, produced + n)) \in Frames
    BY <1>4, <2>1, BrokerFrame
  <2>3. PICK m \in Frames : /\ m = Message("binary", Numbers(produced + 1, produced + n))
                            /\ incoming' = Append(incoming, m)
    BY <2>2
  <2>4. m.kind = "binary" /\ m.bytes = Numbers(produced + 1, produced + n)
    BY <2>3 DEF Message
  <2>5. Len(m.bytes) = n /\ \A k \in 1..n : m.bytes[k] = produced + k
    BY <2>1, <2>4, NumbersType
  <2>6. UNCHANGED <<readBuf, readPos, got, partial, packets, rpc, torn>>
    BY <1>4 DEF BrokerSends, readVars
  <2> QED
    BY <2>2, <2>3, <2>4, <2>5, <2>6, MessageArrives
<1>5. CASE BrokerPings \/ BrokerCloses
  <2>1. PICK kind \in {"ping", "close", "reset"} : incoming' = Append(incoming, Message(kind, <<>>))
    BY <1>5 DEF BrokerPings, BrokerCloses
  <2>2. PICK m \in Frames : incoming' = Append(incoming, m) /\ m.bytes = <<>>
    <3>1. Message(kind, <<>>) \in Frames /\ Message(kind, <<>>).bytes = <<>>
      BY DEF Message, Frames
    <3> QED
      BY <2>1, <3>1
  <2>3. Len(m.bytes) = 0 /\ \A k \in 1..0 : m.bytes[k] = produced + k
    BY <2>2
  <2>4. produced' = produced + 0 /\ UNCHANGED <<readBuf, readPos, got, partial, packets, rpc, torn>>
    BY <1>5 DEF BrokerPings, BrokerCloses, readVars, ReadInv, ReadType
  <2> QED
    BY <2>2, <2>3, <2>4, MessageArrives
<1> QED
  BY <1>1, <1>2, <1>3, <1>4, <1>5 DEF Next, Finished

\* recv over poll_read: the packets it returns are the broker's, whole and in order, until a
\* keep-alive timeout strikes within one.
THEOREM PacketsAreIntact == Spec => []IntactUnlessTorn
<1>1. ReadInv /\ [Next]_vars => ReadInv'
  BY ReadNext
<1>2. ASSUME ReadInv PROVE IntactUnlessTorn
  <2> SUFFICES ASSUME ~torn PROVE packets = [p \in DOMAIN packets |-> PacketBytes(p)] /\ rpc # "malformed"
    BY DEF IntactUnlessTorn
  <2>1. packets \in Seq(Seq(Nat)) /\ rpc # "malformed" /\ \A p \in 1..Len(packets) : packets[p] = PacketBytes(p)
    BY <1>2 DEF ReadInv, ReadType, PacketsInOrder
  <2>2. DOMAIN packets = 1..Len(packets) /\ packets = [p \in DOMAIN packets |-> packets[p]]
    BY <2>1
  <2> QED
    BY <2>1, <2>2, Zenon
<1> QED
  BY <1>1, <1>2, ReadInit, PTL DEF Spec

-----------------------------------------------------------------------------
(***************************************************************************)
(* The reader implements BytePipe.                                         *)
(***************************************************************************)

\* The bytes that went in, numbered from 1.
LEMMA InputType ==
  ASSUME NEW n \in Nat
  PROVE  Numbers(1, n) \in Seq(Nat) /\ Len(Numbers(1, n)) = n /\ \A i \in 1..n : Numbers(1, n)[i] = i
<1>1. Numbers(1, n) = [i \in 1..n |-> i]
  BY DEF Numbers
<1> QED
  BY <1>1

\* Sequences of consecutive numbers from 1 are prefixes of each other.
LEMMA PrefixOf ==
  ASSUME NEW s \in Seq(Nat), NEW t \in Seq(Nat), Len(s) <= Len(t),
         \A i \in 1..Len(s) : s[i] = i, \A i \in 1..Len(t) : t[i] = i
  PROVE  FromBroker!IsPrefix(s, t)
<1>0. Len(s) \in Nat /\ Len(t) \in Nat
  OBVIOUS
<1>1. /\ SubSeq(s, 1, Len(s)) \in Seq(Nat) /\ Len(SubSeq(s, 1, Len(s))) = Len(s)
      /\ \A i \in 1..Len(s) : SubSeq(s, 1, Len(s))[i] = s[i]
  BY <1>0
<1>2. /\ SubSeq(t, 1, Len(s)) \in Seq(Nat) /\ Len(SubSeq(t, 1, Len(s))) = Len(s)
      /\ \A i \in 1..Len(s) : SubSeq(t, 1, Len(s))[i] = t[i]
  BY <1>0
<1>3. \A i \in 1..Len(s) : i \in 1..Len(t)
  BY <1>0
<1>4. \A i \in 1..Len(SubSeq(s, 1, Len(s))) : SubSeq(s, 1, Len(s))[i] = SubSeq(t, 1, Len(s))[i]
  BY <1>1, <1>2, <1>3
<1>5. SubSeq(s, 1, Len(s)) = SubSeq(t, 1, Len(s))
  BY <1>1, <1>2, <1>4, SeqEqual
<1> QED
  BY <1>5 DEF FromBroker!IsPrefix

\* poll_read takes bytes out, in order; the broker puts bytes in; nothing else does either.
LEMMA ReadStep ==
  ASSUME ReadInv, ReadInv', [Next]_vars
  PROVE  [FromBroker!Put \/ FromBroker!Take]_<<Numbers(1, produced), got>>
<1>0. got \in Seq(Nat) /\ got' \in Seq(Nat) /\ produced \in Nat /\ produced' \in Nat
  BY DEF ReadInv, ReadType
<1>1. /\ Len(got) <= produced /\ (\A i \in 1..Len(got) : got[i] = i)
      /\ Len(got') <= produced' /\ (\A i \in 1..Len(got') : got'[i] = i)
  BY DEF ReadInv, GotInOrder
<1>2. /\ Numbers(1, produced) \in Seq(Nat) /\ Len(Numbers(1, produced)) = produced
      /\ \A i \in 1..produced : Numbers(1, produced)[i] = i
  BY <1>0, InputType
<1>3. /\ Numbers(1, produced') \in Seq(Nat) /\ Len(Numbers(1, produced')) = produced'
      /\ \A i \in 1..produced' : Numbers(1, produced')[i] = i
  BY <1>0, InputType
<1>4. Numbers(1, produced)' = Numbers(1, produced')
  BY DEF Numbers
<1>5. CASE \E cap \in 1..Wanted : PollRead(cap)
  <2>1. produced' = produced /\ Len(got) <= Len(got')
    BY <1>5, PollReadKeeps DEF PollRead, brokerVars
  <2>2. FromBroker!IsPrefix(got, got')
    BY <1>0, <1>1, <2>1, PrefixOf
  <2>3. FromBroker!IsPrefix(got', Numbers(1, produced))
    BY <1>0, <1>1, <1>2, <2>1, PrefixOf
  <2>4. FromBroker!Take
    BY <1>4, <2>1, <2>2, <2>3 DEF FromBroker!Take
  <2> QED
    BY <2>4
<1>6. CASE BrokerSends
  <2>1. produced <= produced' /\ got' = got
    <3>1. PICK n \in Nat : produced' = produced + n
      BY <1>0, <1>6, BrokerFrame
    <3> QED
      BY <1>0, <1>6, <3>1 DEF BrokerSends, readVars
  <2>2. FromBroker!IsPrefix(Numbers(1, produced), Numbers(1, produced'))
    BY <1>2, <1>3, <2>1, PrefixOf
  <2>3. FromBroker!Put
    BY <1>4, <2>1, <2>2 DEF FromBroker!Put
  <2> QED
    BY <2>3
<1>7. CASE UNCHANGED <<produced, got>>
  BY <1>4, <1>7
<1> QED
  BY <1>5, <1>6, <1>7
     DEF Next, vars, Finished, readVars, brokerVars, PollReadPending, PollReadEnds, BenchWrites, PollFlush,
         PollFlushFails, Timeout, Tick, BrokerPings, BrokerCloses

\* WsByteStream as the client reads it: what comes out is what the broker put in, in order,
\* nothing lost, invented or repeated, however frames cut the packets.
THEOREM ReadsImplementBytePipe == Spec => FromBroker!Spec
<1>1. Init => FromBroker!Init
  <2> SUFFICES ASSUME Init PROVE FromBroker!Init
    OBVIOUS
  <2>1. produced = 0 /\ got = <<>>
    BY DEF Init
  <2>2. Numbers(1, 0) = <<>>
    <3>1. Numbers(1, 0) \in Seq(Nat) /\ Len(Numbers(1, 0)) = 0
      BY InputType
    <3> QED
      BY <3>1
  <2> QED
    BY <2>1, <2>2 DEF FromBroker!Init
<1>2. ReadInv /\ [Next]_vars => ReadInv'
  BY ReadNext
<1>3. ReadInv /\ ReadInv' /\ [Next]_vars => [FromBroker!Put \/ FromBroker!Take]_<<Numbers(1, produced), got>>
  BY ReadStep
<1> QED
  BY <1>1, <1>2, <1>3, ReadInit, PTL DEF Spec, FromBroker!Spec

-----------------------------------------------------------------------------
(***************************************************************************)
(* The writer implements BytePipe.                                         *)
(***************************************************************************)

\* A run of l numbers after c.
Run(s, c, l) == s \in Seq(Nat) /\ Len(s) = l /\ \A i \in 1..l : s[i] = c + i

\* Two runs of numbers, the second going on where the first stops, are one run.
LEMMA RunsJoin ==
  ASSUME NEW a, NEW b, NEW c \in Nat, NEW l \in Nat, Run(a, 0, c), Run(b, c, l)
  PROVE  Run(a \o b, 0, c + l)
<1>0. /\ a \in Seq(Nat) /\ Len(a) = c /\ (\A i \in 1..c : a[i] = i)
      /\ b \in Seq(Nat) /\ Len(b) = l /\ (\A i \in 1..l : b[i] = c + i)
  BY DEF Run
<1>1. a \o b \in Seq(Nat) /\ Len(a \o b) = c + l
  BY <1>0, ConcatProperties
<1>2. ASSUME NEW i \in 1..(c + l) PROVE (a \o b)[i] = i
  <2>0. (a \o b)[i] = IF i <= c THEN a[i] ELSE b[i - c]
    BY <1>0, ConcatProperties
  <2>1. CASE i <= c
    <3>1. i \in 1..c
      BY <2>1
    <3>2. a[i] = i
      BY <1>0, <3>1
    <3> QED
      BY <2>0, <2>1, <3>2, Zenon
  <2>2. CASE ~(i <= c)
    <3>1. i - c \in 1..l /\ c + (i - c) = i
      BY <2>2
    <3>2. b[i - c] = c + (i - c)
      BY <1>0, <3>1, Zenon
    <3> QED
      BY <2>0, <2>2, <3>1, <3>2, Zenon
  <2> QED
    BY <2>1, <2>2, Zenon
<1>3. ASSUME NEW i \in 1..(c + l) PROVE (a \o b)[i] = 0 + i
  <2>1. 0 + i = i
    OBVIOUS
  <2> QED
    BY <1>2, <2>1, Zenon
<1> QED
  BY <1>1, <1>3, Zenon DEF Run

\* The bytes of one more packet.
LEMMA NextPacketBytes ==
  ASSUME NEW k \in Nat
  PROVE  Numbers(1, k * PacketLen) \o PacketBytes(k + 1) = Numbers(1, (k + 1) * PacketLen)
<1>0. PacketLen \in Nat
  BY StreamAssumption
<1>1. PICK c \in Nat : c = k * PacketLen
  BY <1>0
<1>2. (k + 1) * PacketLen = c + PacketLen /\ k + 1 \in Nat /\ k + 1 > 0 /\ (k + 1) - 1 = k
  BY <1>0, <1>1
<1>3. Run(Numbers(1, c), 0, c)
  BY InputType DEF Run
<1>4. Run(PacketBytes(k + 1), c, PacketLen)
  <2>1. /\ PacketBytes(k + 1) \in Seq(Nat) /\ Len(PacketBytes(k + 1)) = PacketLen
        /\ \A i \in 1..PacketLen : PacketBytes(k + 1)[i] = c + i
    BY <1>1, <1>2, PacketBytesType
  <2> QED
    BY <2>1, Zenon DEF Run
<1>5. Run(Numbers(1, c) \o PacketBytes(k + 1), 0, c + PacketLen)
  BY <1>0, <1>3, <1>4, RunsJoin, Zenon
<1>6. Run(Numbers(1, c + PacketLen), 0, c + PacketLen)
  <2>1. PICK d \in Nat : d = c + PacketLen
    BY <1>0
  <2>2. Run(Numbers(1, d), 0, d)
    BY InputType DEF Run
  <2> QED
    BY <2>1, <2>2, Zenon
<1>7. ASSUME NEW s, NEW t, NEW d, Run(s, 0, d), Run(t, 0, d) PROVE s = t
  BY <1>7, SeqEqual DEF Run
<1> QED
  BY <1>1, <1>2, <1>5, <1>6, <1>7, Zenon

\* A frame counts when it is Binary.
LEMMA BinariesUpTo ==
  ASSUME NEW frames \in Seq(Frames), NEW n \in 1..Len(frames)
  PROVE  /\ Binaries(frames, n - 1) \in Nat /\ Binaries(frames, 0) = 0
         /\ Binaries(frames, n) = Binaries(frames, n - 1) + (IF frames[n].kind = "binary" THEN 1 ELSE 0)
<1> DEFINE A == {j \in 1..(n - 1) : frames[j].kind = "binary"}
<1>0. Len(frames) \in Nat /\ n \in Nat /\ n - 1 \in 0..Len(frames)
  OBVIOUS
<1>1. IsFiniteSet(1..(n - 1))
  BY <1>0, FS_Interval
<1>2. IsFiniteSet(A)
  BY <1>1, FS_Subset
<1>3. Binaries(frames, n - 1) \in Nat /\ Binaries(frames, n - 1) = Cardinality(A)
  BY <1>2, FS_CardinalityType DEF Binaries
<1>4. Binaries(frames, 0) = 0
  <2>1. {j \in 1..0 : frames[j].kind = "binary"} = {}
    OBVIOUS
  <2> QED
    BY <2>1, FS_EmptySet DEF Binaries
<1>5. \A j : j \in 1..n <=> j \in 1..(n - 1) \/ j = n
  BY <1>0
<1>6. CASE frames[n].kind = "binary"
  <2>1. {j \in 1..n : frames[j].kind = "binary"} = A \cup {n}
    BY <1>5, <1>6
  <2>2. n \notin A
    BY <1>0
  <2>3. Cardinality(A \cup {n}) = Cardinality(A) + 1
    BY <1>2, <2>2, FS_AddElement
  <2>4. Binaries(frames, n) = Cardinality(A) + 1
    BY <2>1, <2>3, Zenon DEF Binaries
  <2>5. (IF frames[n].kind = "binary" THEN 1 ELSE 0) = 1
    BY <1>6, Zenon
  <2> HIDE DEF A
  <2>6. Binaries(frames, n) = Binaries(frames, n - 1) + (IF frames[n].kind = "binary" THEN 1 ELSE 0)
    BY <1>3, <2>4, <2>5, Zenon
  <2> QED
    BY <1>3, <1>4, <2>6, Zenon
<1>7. CASE frames[n].kind # "binary"
  <2>1. {j \in 1..n : frames[j].kind = "binary"} = A
    BY <1>5, <1>7
  <2>2. Binaries(frames, n) = Cardinality(A)
    BY <2>1, Zenon DEF Binaries
  <2>3. (IF frames[n].kind = "binary" THEN 1 ELSE 0) = 0
    BY <1>7, Zenon
  <2> HIDE DEF A
  <2>4. Binaries(frames, n - 1) + 0 = Cardinality(A)
    BY <1>3
  <2>5. Binaries(frames, n) = Binaries(frames, n - 1) + (IF frames[n].kind = "binary" THEN 1 ELSE 0)
    BY <2>2, <2>3, <2>4, Zenon
  <2> QED
    BY <1>3, <1>4, <2>5, Zenon
<1> QED
  BY <1>6, <1>7

\* Frames that hold the packets in order hold their bytes in order.  (The recursive function
\* of BytesOf has one value: the closed form satisfies its equation, and by the least index at
\* which another one would differ, nothing else does.)
LEMMA BytesInOrder ==
  ASSUME NEW frames \in Seq(Frames), Ordered(frames)
  PROVE  BytesOf(frames) = Numbers(1, Binaries(frames, Len(frames)) * PacketLen)
<1> DEFINE L == Len(frames)
           Eqn(g, n) == IF n = 0 THEN <<>>
                        ELSE IF frames[n].kind = "binary" THEN g[n - 1] \o frames[n].bytes ELSE g[n - 1]
           direct == [n \in 0..L |-> Numbers(1, Binaries(frames, n) * PacketLen)]
           upTo == CHOOSE g : g = [n \in 0..L |-> Eqn(g, n)]
<1>0. L \in Nat /\ PacketLen \in Nat
  BY StreamAssumption
<1>1. ASSUME NEW n \in 0..L PROVE direct[n] = Eqn(direct, n)
  <2>1. CASE n = 0
    <3>1. Binaries(frames, 0) = 0
      <4>1. {j \in 1..0 : frames[j].kind = "binary"} = {}
        OBVIOUS
      <4> QED
        BY <4>1, FS_EmptySet DEF Binaries
    <3>2. Numbers(1, 0) = <<>>
      <4>1. Numbers(1, 0) \in Seq(Nat) /\ Len(Numbers(1, 0)) = 0
        BY InputType
      <4> QED
        BY <4>1
    <3>3. Binaries(frames, 0) * PacketLen = 0
      BY <1>0, <3>1
    <3>4. direct[n] = Numbers(1, Binaries(frames, 0) * PacketLen)
      BY <2>1
    <3> QED
      BY <2>1, <3>2, <3>3, <3>4
  <2>2. CASE n # 0
    <3>0. n \in 1..L /\ n - 1 \in 0..L
      BY <1>0, <2>2
    <3>1. PICK k \in Nat : k = Binaries(frames, n - 1)
      BY <3>0, BinariesUpTo
    <3>2. Binaries(frames, n) = k + (IF frames[n].kind = "binary" THEN 1 ELSE 0)
      BY <3>0, <3>1, BinariesUpTo
    <3>3. direct[n - 1] = Numbers(1, k * PacketLen)
      BY <3>0, <3>1
    <3>4. direct[n] = Numbers(1, Binaries(frames, n) * PacketLen)
      OBVIOUS
    <3>5. CASE frames[n].kind = "binary"
      <4>1. Binaries(frames, n) = k + 1
        BY <3>2, <3>5
      <4>2. frames[n].bytes = PacketBytes(k + 1)
        BY <3>0, <3>5, <4>1 DEF Ordered
      <4>3. Numbers(1, k * PacketLen) \o PacketBytes(k + 1) = Numbers(1, (k + 1) * PacketLen)
        BY NextPacketBytes
      <4> HIDE DEF direct
      <4> QED
        BY <2>2, <3>3, <3>4, <3>5, <4>1, <4>2, <4>3
    <3>6. CASE frames[n].kind # "binary"
      <4>1. Binaries(frames, n) = k
        BY <3>2, <3>6
      <4> HIDE DEF direct
      <4> QED
        BY <2>2, <3>3, <3>4, <3>6, <4>1
    <3> QED
      BY <3>5, <3>6
  <2> QED
    BY <2>1, <2>2
<1>2. direct = [n \in 0..L |-> Eqn(direct, n)]
  <2>1. direct = [n \in 0..L |-> direct[n]]
    OBVIOUS
  <2> HIDE DEF direct, Eqn
  <2> QED
    BY <1>1, <2>1
<1>3. upTo = [n \in 0..L |-> Eqn(upTo, n)]
  <2> HIDE DEF direct, Eqn
  <2>1. \E g : g = [n \in 0..L |-> Eqn(g, n)]
    BY <1>2
  <2> QED
    BY <2>1, Zenon
<1>4. BytesOf(frames) = upTo[L]
  BY DEF BytesOf
<1> HIDE DEF upTo, direct
<1>5. upTo[L] = direct[L]
  <2> DEFINE T == {n \in 0..L : upTo[n] # direct[n]}
  <2>0. T \subseteq Nat
    BY <1>0
  <2>1. CASE T = {}
    <3>1. L \in 0..L
      BY <1>0
    <3> QED
      BY <2>1, <3>1
  <2>2. CASE T # {}
    <3>1. PICK x \in T : \A y \in T : ~(<<y, x>> \in OpToRel(<, Nat))
      BY <2>0, <2>2, NatLessThanWellFounded, WFMin
    <3>2. \A y \in T : ~(y < x)
      BY <2>0, <3>1 DEF OpToRel
    <3>3. x \in 0..L /\ upTo[x] # direct[x]
      OBVIOUS
    <3>4. upTo[x] = Eqn(upTo, x) /\ direct[x] = Eqn(direct, x)
      <4> HIDE DEF Eqn
      <4> QED
        BY <1>2, <1>3, <3>3
    <3>5. CASE x = 0
      BY <3>3, <3>4, <3>5
    <3>6. CASE x # 0
      <4>1. x - 1 \in 0..L /\ x - 1 < x
        BY <1>0, <3>3, <3>6
      <4>2. upTo[x - 1] = direct[x - 1]
        BY <3>2, <4>1
      <4> QED
        BY <3>3, <3>4, <3>6, <4>2
    <3> QED
      BY <3>5, <3>6
  <2> QED
    BY <2>1, <2>2
<1>6. direct[L] = Numbers(1, Binaries(frames, L) * PacketLen)
  BY <1>0 DEF direct
<1> QED
  BY <1>4, <1>5, <1>6

\* More frames hold no fewer Binary ones.
LEMMA BinariesGrow ==
  ASSUME NEW s \in Seq(Frames), NEW x \in Seq(Frames)
  PROVE  /\ Binaries(s, Len(s)) \in Nat /\ Binaries(s \o x, Len(s \o x)) \in Nat
         /\ Binaries(s, Len(s)) <= Binaries(s \o x, Len(s \o x))
<1> DEFINE A == {j \in 1..Len(s) : (s \o x)[j].kind = "binary"}
           B == {j \in 1..Len(s \o x) : (s \o x)[j].kind = "binary"}
<1>0. /\ Len(s) \in Nat /\ Len(x) \in Nat /\ Len(s) \in 0..Len(s) /\ s \o x \in Seq(Frames)
      /\ Len(s \o x) \in Nat /\ Len(s) <= Len(s \o x) /\ Len(s \o x) \in 0..Len(s \o x)
  OBVIOUS
<1>1. Binaries(s \o x, Len(s)) = Binaries(s, Len(s))
  BY <1>0, BinariesOf
<1>2. Binaries(s, Len(s)) \in Nat /\ Binaries(s \o x, Len(s \o x)) \in Nat
  BY <1>0, BinariesOf
<1>3. \A j \in 1..Len(s) : j \in 1..Len(s \o x)
  BY <1>0
<1>4. A \subseteq B
  BY <1>3
<1>5. IsFiniteSet(1..Len(s \o x))
  BY <1>0, FS_Interval
<1>6. IsFiniteSet(B)
  BY <1>5, FS_Subset
<1>7. Cardinality(A) <= Cardinality(B)
  BY <1>4, <1>6, FS_Subset, Zenon
<1>8. Binaries(s \o x, Len(s)) = Cardinality(A) /\ Binaries(s \o x, Len(s \o x)) = Cardinality(B)
  BY Zenon DEF Binaries
<1>9. Binaries(s, Len(s)) <= Binaries(s \o x, Len(s \o x))
  BY <1>1, <1>7, <1>8, Zenon
<1> QED
  BY <1>2, <1>9, Zenon

\* The first frames of a sequence in order are in order.
LEMMA OrderedFirst ==
  ASSUME NEW w \in Seq(Frames), NEW s \in Seq(Frames), Ordered(w \o s)
  PROVE  Ordered(w)
<1>1. ASSUME NEW i \in 1..Len(w), w[i].kind = "binary"
      PROVE  w[i].bytes = PacketBytes(Binaries(w, i))
  <2>1. i \in 0..Len(w) /\ i \in 1..Len(w \o s) /\ (w \o s)[i] = w[i]
    OBVIOUS
  <2>2. Binaries(w \o s, i) = Binaries(w, i)
    BY <2>1, BinariesOf
  <2> QED
    BY <1>1, <2>1, <2>2 DEF Ordered
<1> QED
  BY <1>1 DEF Ordered

\* poll_flush puts frames behind the ones on the wire, no more than there are packets.
LEMMA FlushSends ==
  ASSUME WriteInv, WriteInv', PollFlush
  PROVE  /\ Binaries(wire, Len(wire)) <= Binaries(wire', Len(wire'))
         /\ Binaries(wire', Len(wire')) <= written
<1> DEFINE starts == ~sending /\ writeBuf # <<>>
           frames == IF starts THEN Append(sink, Message("binary", writeBuf)) ELSE sink
<1>0. wpc = "flush" /\ written' = written /\ wpc' \in {"idle", "flush"}
  BY DEF PollFlush
<1>1. /\ wire \in Seq(Frames) /\ sink \in Seq(Frames)
      /\ wire' \in Seq(Frames) /\ sink' \in Seq(Frames) /\ written \in Nat
  BY DEF WriteInv
<1>2. frames \in Seq(Frames)
  <2>1. CASE starts
    BY <1>0, <2>1, BufferFrame
  <2>2. CASE ~starts
    BY <1>1, <2>2
  <2> QED
    BY <2>1, <2>2
<1>3. PICK x \in Seq(Frames) : wire' = wire \o x
  <2>1. CASE UNCHANGED wire
    <3>1. <<>> \in Seq(Frames) /\ wire' = wire \o <<>>
      BY <1>1, <2>1
    <3> QED
      BY <3>1
  <2> HIDE DEF frames
  <2>2. CASE wire' = wire \o frames
    BY <1>2, <2>2
  <2>3. CASE \E k \in 0..(Len(frames) - 1) : wire' = wire \o SubSeq(frames, 1, k)
    <3>1. PICK k \in 0..(Len(frames) - 1) : wire' = wire \o SubSeq(frames, 1, k)
      BY <2>3
    <3>2. SubSeq(frames, 1, k) \in Seq(Frames)
      BY <1>2
    <3> QED
      BY <3>1, <3>2
  <2> QED
    BY <2>1, <2>2, <2>3 DEF PollFlush, frames
<1>4. Binaries(wire, Len(wire)) <= Binaries(wire', Len(wire'))
  BY <1>1, <1>3, BinariesGrow
<1>5. Binaries(wire', Len(wire')) <= Binaries(wire' \o sink', Len(wire' \o sink'))
  BY <1>1, BinariesGrow
<1>6. Binaries(wire' \o sink', Len(wire' \o sink')) = Binaries(Given, Len(Given))'
  BY DEF Binaries, Given
<1>7. PICK m \in Nat : m = Binaries(wire', Len(wire'))
  BY <1>1, BinariesGrow
<1>8. PICK n \in Nat : n = Binaries(wire' \o sink', Len(wire' \o sink'))
  BY <1>1, BinariesGrow
<1>9. n = written \/ n = written - 1
  BY <1>0, <1>6, <1>8 DEF WriteInv
<1>10. m <= n
  BY <1>5, <1>7, <1>8
<1>11. m <= written
  BY <1>1, <1>9, <1>10
<1> QED
  BY <1>4, <1>7, <1>11

\* The wire carries no more packets than were written.
WireInv == WriteInv /\ Binaries(wire, Len(wire)) <= written

\* write_packet and poll_flush alone move the writer.
LEMMA WireMoves ==
  ASSUME [Next]_vars
  PROVE  \/ PollFlush
         \/ wire' = wire /\ written' = written + 1
         \/ wire' = wire /\ written' = written
  BY DEF Next, vars, Finished, PollRead, PollReadPending, PollReadEnds, BenchWrites, Timeout, WritePacket,
         PollFlushFails, Tick, BrokerSends, BrokerPings, BrokerCloses, writeVars

\* Every step keeps the wire within what was written.
LEMMA WireNext == ASSUME WireInv, [Next]_vars PROVE WireInv'
<1>1. WriteInv /\ WriteInv'
  BY WriteNext DEF WireInv
<1>2. wire \in Seq(Frames) /\ written \in Nat /\ written' \in Nat
  BY <1>1 DEF WriteInv
<1>3. Binaries(wire, Len(wire))' = Binaries(wire', Len(wire'))
  BY DEF Binaries
<1>4. Binaries(wire', Len(wire')) <= written'
  <2>1. CASE PollFlush
    BY <1>1, <2>1, FlushSends DEF PollFlush
  <2>2. CASE wire' = wire /\ (written' = written + 1 \/ written' = written)
    <3>1. PICK m \in Nat : m = Binaries(wire, Len(wire))
      <4>1. Len(wire) \in 0..Len(wire)
        BY <1>2
      <4> QED
        BY <1>2, <4>1, BinariesOf
    <3>2. m <= written
      BY <3>1 DEF WireInv
    <3>3. m <= written'
      BY <1>2, <2>2, <3>2
    <3> QED
      BY <2>2, <3>1, <3>3
  <2> QED
    BY <2>1, <2>2, WireMoves
<1> QED
  BY <1>1, <1>3, <1>4 DEF WireInv

\* Fewer numbers are a prefix of more.
LEMMA NumbersPrefix ==
  ASSUME NEW m \in Nat, NEW n \in Nat, m <= n
  PROVE  ToBroker!IsPrefix(Numbers(1, m), Numbers(1, n))
<1>1. PICK s \in Seq(Nat) : s = Numbers(1, m) /\ Len(s) = m /\ \A i \in 1..m : s[i] = i
  BY InputType
<1>2. PICK t \in Seq(Nat) : t = Numbers(1, n) /\ Len(t) = n /\ \A i \in 1..n : t[i] = i
  BY InputType
<1>3. FromBroker!IsPrefix(s, t)
  BY <1>1, <1>2, PrefixOf
<1> QED
  BY <1>1, <1>2, <1>3 DEF FromBroker!IsPrefix, ToBroker!IsPrefix

\* What is on the wire, as bytes.
LEMMA WireBytes ==
  ASSUME NEW w \in Seq(Frames), NEW s \in Seq(Frames), Ordered(w \o s)
  PROVE  /\ Binaries(w, Len(w)) \in Nat
         /\ BytesOf(w) = Numbers(1, Binaries(w, Len(w)) * PacketLen)
<1>1. Ordered(w)
  BY OrderedFirst
<1>2. Len(w) \in 0..Len(w)
  OBVIOUS
<1> QED
  BY <1>1, <1>2, BinariesOf, BytesInOrder

\* Multiplying by the length of a packet keeps the order.
LEMMA InPackets ==
  ASSUME NEW m \in Nat, NEW n \in Nat, m <= n
  PROVE  m * PacketLen \in Nat /\ n * PacketLen \in Nat /\ m * PacketLen <= n * PacketLen
<1>1. PacketLen \in Nat
  BY StreamAssumption
<1>2. PICK k \in Nat : n = m + k
  <2>1. n - m \in Nat /\ n = m + (n - m)
    OBVIOUS
  <2> QED
    BY <2>1
<1>3. n * PacketLen = m * PacketLen + k * PacketLen
  BY <1>1, <1>2
<1>4. m * PacketLen \in Nat /\ n * PacketLen \in Nat /\ k * PacketLen \in Nat
  BY <1>1
<1> QED
  BY <1>3, <1>4

\* write_packet puts a packet in; poll_flush takes out what it puts on the wire.
LEMMA WriteStep ==
  ASSUME WireInv, WireInv', [Next]_vars
  PROVE  [ToBroker!Put \/ ToBroker!Take]_<<Numbers(1, written * PacketLen), BytesOf(wire)>>
<1>0. /\ wire \in Seq(Frames) /\ wire' \in Seq(Frames) /\ sink \in Seq(Frames) /\ sink' \in Seq(Frames)
      /\ written \in Nat /\ written' \in Nat /\ Ordered(wire \o sink)
  BY DEF WireInv, WriteInv, Given
<1>1. Ordered(wire' \o sink')
  <2>1. Ordered(Given)' /\ (Ordered(Given)' <=> Ordered(wire' \o sink'))
    BY DEF WireInv, WriteInv, Given, Ordered, Binaries, PacketBytes, Numbers
  <2> QED
    BY <2>1
<1>2. PICK m \in Nat : m = Binaries(wire, Len(wire)) /\ BytesOf(wire) = Numbers(1, m * PacketLen)
  BY <1>0, WireBytes
<1>3. PICK n \in Nat : n = Binaries(wire', Len(wire')) /\ BytesOf(wire') = Numbers(1, n * PacketLen)
  BY <1>0, <1>1, WireBytes
<1>4. BytesOf(wire)' = BytesOf(wire') /\ Numbers(1, written * PacketLen)' = Numbers(1, written' * PacketLen)
  BY DEF BytesOf, Numbers
<1>5. CASE PollFlush
  <2>1. m <= n /\ n <= written /\ written' = written
    BY <1>2, <1>3, <1>5, FlushSends DEF WireInv, PollFlush
  <2>2. ToBroker!IsPrefix(Numbers(1, m * PacketLen), Numbers(1, n * PacketLen))
    BY <2>1, InPackets, NumbersPrefix
  <2>3. ToBroker!IsPrefix(Numbers(1, n * PacketLen), Numbers(1, written * PacketLen))
    BY <1>0, <2>1, InPackets, NumbersPrefix
  <2>4. ToBroker!Take
    BY <1>2, <1>3, <1>4, <2>1, <2>2, <2>3, Zenon DEF ToBroker!Take
  <2> QED
    BY <2>4
<1>6. CASE wire' = wire /\ written' = written + 1
  <2>1. written <= written'
    BY <1>0, <1>6
  <2>2. ToBroker!IsPrefix(Numbers(1, written * PacketLen), Numbers(1, written' * PacketLen))
    BY <1>0, <2>1, InPackets, NumbersPrefix
  <2>3. ToBroker!Put
    BY <1>4, <1>6, <2>2, Zenon DEF ToBroker!Put
  <2> QED
    BY <2>3
<1>7. CASE wire' = wire /\ written' = written
  BY <1>4, <1>7, Zenon
<1> QED
  BY <1>5, <1>6, <1>7, WireMoves

\* WsByteStream is a byte stream both ways: what the client reads is what the broker put in,
\* and what the broker can read is what the client wrote, in order, nothing lost, invented or
\* repeated, however frames cut the packets and polls of the two halves interleave.
THEOREM StreamImplementsBytePipe == Spec => ImplementsBytePipe
<1>1. Init => ToBroker!Init /\ WireInv
  <2> SUFFICES ASSUME Init PROVE ToBroker!Init /\ WireInv
    OBVIOUS
  <2>1. WriteInv /\ wire = <<>> /\ sink = <<>> /\ written = 0 /\ wpc = "idle"
    BY WriteInit DEF Init
  <2>2. PacketLen \in Nat /\ written * PacketLen = 0 /\ Binaries(wire, Len(wire)) = 0
    BY <2>1, StreamAssumption DEF WriteInv
  <2>3. Numbers(1, 0) = <<>>
    <3>1. Numbers(1, 0) \in Seq(Nat) /\ Len(Numbers(1, 0)) = 0
      BY InputType
    <3> QED
      BY <3>1
  <2>4. BytesOf(wire) = Numbers(1, 0)
    <3>1. BytesOf(wire) = Numbers(1, Binaries(wire, Len(wire)) * PacketLen)
      BY <2>1, WireBytes DEF WriteInv, Given
    <3>2. Binaries(wire, Len(wire)) * PacketLen = 0
      BY <2>2
    <3> QED
      BY <3>1, <3>2
  <2>5. Binaries(wire, Len(wire)) <= written
    BY <2>1, <2>2
  <2> QED
    BY <2>1, <2>2, <2>3, <2>4, <2>5 DEF ToBroker!Init, WireInv
<1>2. WireInv /\ [Next]_vars => WireInv'
  BY WireNext
<1>3. WireInv /\ WireInv' /\ [Next]_vars
        => [ToBroker!Put \/ ToBroker!Take]_<<Numbers(1, written * PacketLen), BytesOf(wire)>>
  BY WriteStep
<1>4. Spec => ToBroker!Spec
  BY <1>1, <1>2, <1>3, PTL DEF Spec, ToBroker!Spec
<1> QED
  BY <1>4, ReadsImplementBytePipe DEF ImplementsBytePipe
==============================================================================
