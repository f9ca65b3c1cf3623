# A TLA+ verification of wispmq-cli

wispmq-cli is an MQTT command line client: `pub` publishes a message or the lines of
stdin, `sub` prints what it receives, `request` publishes and waits for replies, and
`bench` loads a broker with concurrent publishers and subscribers and reports rates and
latencies. This directory holds TLA+ models of its protocol logic, the TLC runs that
check them on small instances, and TLAPS proofs of what holds for every instance.
Paths below are relative to the repository; line numbers are those of the commit modelled.

## 1. Inventory

| Component | Source | State it keeps | Operations | Hard behaviour |
|---|---|---|---|---|
| bench publisher | `src/bench/publisher.rs` | semaphore, `in_flight`, `next_packet_id`, PUBREL channel, `window_closed`, shared counters | the writer loop, the ack task, `complete_ack`, `drain_pubrels`, the drain and join of the tail | two tasks over one connection, a window, identifiers that wrap, QoS 2 split over both tasks, limits, a stop at any point |
| bench run | `src/bench/mod.rs` | the stop channel, task handles, counters | settle, spawn, deadline task, joins, drain, report, exit status | every task may fail or be stopped in any order, and the report must still be right |
| bench subscriber | `src/bench/subscriber.rs` | samples, counters | SUBACK wait, the PUBLISH, PUBREL, DISCONNECT, Eof and error arms, the stop signal | stop against read, foreign payloads, early deliveries |
| statistics | `src/bench/stats.rs` | samples, counters, report | record, merge, percentiles, success, rendering | shared atomics read after the joins |
| schedule, payload | `src/bench/schedule.rs`, `payload.rs` | none | deadlines, header encoding | numeric edges |
| client connection | `src/client.rs` | stream, `next_packet_id`, keep-alive | handshake, connect, send, recv, recv_keepalive, disconnect | a timeout that cancels a read; identifiers that restart with each process |
| pub | `src/publish.rs` | none of its own | run, publish_one, expect_ack, check | several handshakes one after the other, killed or refused at any point, persistent sessions |
| sub | `src/subscribe.rs` | `seen` | run, subscribe, acknowledge, print_message | acknowledging before printing, messages before the SUBACK, resumed sessions |
| request | `src/request.rs` | `seen` | run | two exchanges at once on one connection |
| transport | `src/transport.rs`, `transport/tls.rs`, `transport/ws.rs` | `read_buf`, `read_pos`, `write_buf`, `sending` | connect, tls::wrap, ws::wrap, into_split, poll_read, poll_write, poll_flush | layers that compose, frames that do not match packets, a flush over several polls, two halves of one stream |
| command line | `src/cli.rs` | two warn-once flags | requirements and conflicts of options, the accessors of `ConnectionArgs`, `effective_limit` | options read afresh at several moments, a password file that changes in between |
| errors, entry | `src/error.rs`, `main.rs` | none | exit status | - |

How they interact. `bench::run` spawns subscribers, then publishers, and a deadline task;
all of them share a watch channel (stop) and a set of atomic counters, and come back
through their join handles. A publisher splits its connection between its writer and its
ack task, which share the semaphore and `in_flight`, and the channel of PUBRECs. `pub`,
`sub` and `request` are sequential over one `Client`. Every connection is opened by
`transport::connect` and `handshake` from one `ConnectionArgs`, by `Client::connect` for
the three commands and directly by the bench tasks. Everything meets the broker, which
is not part of the repository and is modelled from how the code uses it, as MQTT has it.

What makes each part correct is stated with its module below. `PROJECT.json` lists every
hazard, at its line, with the property that would catch it.

## 2. Modules

| Module | Models | Notes |
|---|---|---|
| `BenchPublisher` | `publisher::run`, its ack task, `complete_ack`, `drain_pubrels`, `effective_inflight` | one action per step between two awaits; broker external |
| `AckWindow` | nothing in the code: the abstract window | refined by `BenchPublisher` (`Abstract`, at its end, is the mapping) |
| `BenchRun` | `bench::run`, `quota_for`, `Report::success`, with publishers and subscribers as their caller sees them | composes the two by shared stop signal, counters and joins |
| `BenchStats` | `payload.rs`, the samples, summary and latency lines of `stats.rs` | pure operators, used by `BenchSubscriber` |
| `BenchSubscriber` | `subscriber::run`, and the end-to-end part of the report | |
| `PubCommand` | `publish::run` over `Client`, started several times with one identifier | kills and restarts, the broker's session |
| `SubCommand` | `subscribe::run` and `request::run` over `Client`, started several times with one identifier | kills and restarts, the broker's session, a responder |
| `ConnectionSetup` | `cli.rs`, the refusals of the four commands, `Client::connect`, `transport::connect`, `tls::wrap`, `ws::wrap`, `handshake` | from the command line to the CONNACK, one connection or several |
| `ClientStream` | `WsByteStream`, `into_split`, `recv`, `recv_keepalive` | polls, frames and ticks |
| `BytePipe` | nothing in the code: a byte stream in one direction | refined by `ClientStream`, once each way |
| `*MC` | values for TLC | option and set values a cfg cannot write |
| `*_proofs` | - | the theorems about the module of that name, section 4; `BenchPublisherOrder_proofs` extends `BenchPublisher_proofs` |

Operators whose comment begins with "Mutant:" are deliberate faults. Nothing uses them;
each takes the place of the operator that follows it when one asks whether a property
would notice such a fault.

### BenchPublisher

`wpc` is where the writer is. The loop of lines 216-319 is `top` (drain the channel, the
quota, the stop), `pace`, `acquire` (the select), `insert` (identifier and `in_flight`),
`write`, `count`; its tail is `drain`, `disconnect`, `join`, `returned`. The ack task is
`read`, `ended` or `aborted`. `permits` counts the semaphore's free permits, so a permit
held by the writer is neither free nor in flight while `wpc = "insert"`. A message is its
number; it stands for the `Instant` in the map, and makes it visible when an
acknowledgement is matched with another message's entry. Two steps are coarser than the
code, soundly: `complete_ack` is one step (between its lock and its `add_permits` nothing
the writer reads differs), and the last drain of the channel goes with the DISCONNECT (an
identifier handed over between them behaves as one handed over after it). A write on a
lost connection may succeed, and is then lost, or fail. `Timeouts` lets the five second
limits expire at any time. An open connection holds `SocketRoom` packets the broker has not
read; with that many, every write waits (`SocketReady`), as `write_packet(..).await` does,
until the broker reads or the connection breaks.

Properties: `WindowBounded` (the window is never exceeded, whatever the broker sends),
`WindowConserved` (no permit is lost with a broker that answers each message once),
`NoIdCollision`, `ReceiveMaximumRespected`, `AckMeansAccepted`, `Accounting`,
`PubrelAnswersPubrec`, `PublishedCoversAccepted`, and the liveness properties
`StopEndsPublisher`, `LossEndsPublisher`, `CountRunCompletes`. `StopEndsPublisher` has an
exception, `WriteBlocked`: the writer is in a write that the broker never lets finish, the
one wait of `publisher::run` with neither the stop signal nor a limit beside it.
`ImplementsAckWindow` is the refinement of `AckWindow`: messages go out in order, at most
`Window` wait for an answer, each is answered at most once.

### BenchRun

`main` is where `bench::run` is: `settle`, `publishing`, `drain`, `joining`, `reported`.
Publishers and subscribers keep only what the run sees: whether they connect, send, wait,
or have ended and how. The messages in flight of a publisher are counted by where they are:
`unread` by the broker (perhaps for ever), or answered by an `acks` or `nacks` its ack task
has not read. They hold the permits of its `Window`, and `PubAcquire` is the select for one.
The broker hands a message to the subscribers when it accepts it, not when it is written;
one it refuses, or never reads, reaches nobody. `reader` is the stream of the ack task, which
may end at any time and closes the window. `detached` marks a publisher that returned
without joining its ack task. `timely` is a history variable: it is true as long as the settle time and the drain
window were long enough for what was under way. A run with `--duration` only is one whose
`Count` is not reached when the deadline fires.

Properties: `NeverOverCount`; `EveryDeliveryCounted` (in a timely run nobody interrupted,
whose subscribers stayed connected, every message reported as acknowledged was received by
every subscriber, and nothing else was once every message is answered); `SuccessIsHonest`;
`ReportIsFinal` (after the report only a detached ack task still counts, and only answers to
messages of its own); `RunEnds` (the report is printed, unless a publisher is `Starved`: it
waits on a full window that nobody acknowledges, in a run nobody stops).

### BenchSubscriber and BenchStats

`spc` is `suback`, `loop`, `closed` (the stream has ended, the stop is awaited) or
`returned`. A payload is its length and the time where the header would be, `Huge` for a
value `checked_add` refuses. The publishers' payloads have the length `payload::build`
gives them. A sample is kept with its message; the report is made of the latencies, merged
with those of the other subscribers. `LoopTop` is the look at the stop signal before each
read. A payload of another run, or of nobody's, is one of `Foreign`; if its stamp is plausible
it is timed, as the code has it. `Sorted` says where `sort_unstable` puts each value;
TLC's own `SortSeq` has no definition that a proof could use. Properties: `CompletedIsCounted`,
`SamplesAreMeasured`, `SummaryIsExact` (the percentiles, as the comment of `percentile`
defines them, over the samples of the tasks that did not fail), `StopEndsSubscriber`,
`DeliveriesComplete`.

### PubCommand and SubCommand

A process is `off` between runs, and its exit status stays. The broker keeps or forgets
the session; `persistent` says which, and both are explored. In `PubCommand` a message is
numbered over all runs, so that a message taken for the duplicate of an earlier one is
visible as confirmed and not accepted. `ConfirmedIsAccepted` bounds such messages by the
number of `broken` runs when the session persists, and by none when it is clean; the
bound of none does not hold for persistent sessions, because every process starts its
identifiers at 1. `HandshakeFinishes` and `RunEnds` are the other two.

In `SubCommand` the command is `sub` or `request`, the same for all runs, with its `-n`
and `--max-messages`. The two share everything but the request itself (`SendRequest`,
`ReadOwnAck`) and the limit. The answer to the request of run `r` has a number of its own.
`print_message` ignores every error of stdout: a message it was called with is `printed` or
`swallowed`, and counted in either case; `Handled` is both. `kills` counts the runs killed,
which is how many acknowledged messages may not have been handled. Properties, all in terms
of calls of `print_message`: `CompletedIsPrinted` (an exchange the limit leaves open at its
PUBREL counts as complete: the message will not be sent again), `LimitIsExact`,
`DeliveredIsPrinted`, `ReplyIsPrinted`. Reads simply wait; the keep-alive is in
`ClientStream`.

### ConnectionSetup

A command line is the set of options given and the values that matter; `Parse` is clap,
`CheckCommand` what a command refuses before connecting, and then each connection goes
through `validate` (not in `bench`), `dial`, `tls`, `ws`, `handshake`, `connack`. The
accessors (`Password`, `Port`, `Will`, ...) are evaluated where the code calls them, and
the password file may change between two calls. What the disk, the peer's certificate and
the broker answer is chosen where it is asked for; whether `--broker` is a server name and
makes a URI is part of the command line. `layer` keeps, per connection, the layers in the
order they were put on, the roots and whether this connection printed the `--insecure`
warning. Properties: `ConnectIsSound`,
`PeerIsVerified`, `PlaintextIsWarned`, `NoDoomedDial`.

### ClientStream

Bytes are numbers, so that a lost, repeated or reordered one shows. An action is one poll
(`PollRead` with any capacity the framing may ask for, `PollFlush` with the library ready
or not and any number of frames gone), a tick, or the broker. `split` is a bench
connection; the other kind reads and writes in one task and has the keep-alive. `torn`
records that a timeout has dropped a half-read packet: `timeout(every, self.recv())` cancels
a read that keeps its bytes in its own future. Properties: `ImplementsBytePipe`, the
refinement of `BytePipe` in both directions, `PacketPerFrame`, `IntactUnlessTorn`,
`IdleIsPinged`.

## 3. Runs

| Run | Instance | Shows |
|---|---|---|
| `publisher_qos2` | QoS 2, 6 messages, window 2 (asked 3, Receive Maximum 2), 4 identifiers, refusals, both kinds of loss, timeouts, room for 4 packets; 224k states | the safety properties and the refinement |
| `publisher_qos1` | QoS 1, paced, 3 messages, window 2, 2 identifiers, one stray acknowledgement, loss, timeouts, room for 2 packets; 245k states | `WindowBounded` and the liveness properties |
| `publisher_pubrel` | QoS 2, window 1, a healthy broker | violated: see below |
| `run_whole` | 2 publishers with a window of 1, 1 subscriber, 3 messages, faults, refusals, interrupts; 1,091k states | the properties of a run |
| `run_deadline` | 1 publisher, 1 subscriber | violated: see below |
| `subscriber` | 2 deliveries of QoS 0 to 2, payloads of this run, foreign ones with a plausible stamp, of the future, out of range and too short, 18 samples of other subscribers, clock up to 2, warm-up 1, faults; 176k states | the properties of a subscriber and of the summary |
| `report_small` | 1 delivery, payload size 8 | violated: see below |
| `pub_sessions` | QoS 2, 3 lines, 3 runs, 2 identifiers, clean and persistent sessions, a queued message, kills, refusals, drops, unreadable lines; 89k states | the properties of `pub` |
| `sub_sessions` | `sub` and `request`, QoS 2, `-n` absent, 0 or 1, `--max-messages` 0 or 2, 2 messages, 2 runs, persistent session, a retained message, kills, refusals, drops, a failing stdout; 364k states | the properties of `sub` and `request` |
| `setup` | 3,079 command lines, the environment variable set or not, 2 bench connections, one rewrite of the password file and its removal; 303k states | the properties of the set-up |
| `stream` | 2 packets of 2 bytes each way, frames of up to 3 bytes, 2 control messages, keep-alive 4, 7 ticks, both kinds of client, Close and reset; 396k states | the properties of the stream |
| `stream_keepalive` | a `sub` client that receives a packet every tick | violated: see below |

Bounds. Six messages over four identifiers wrap the identifier while older messages are
in flight, and a window of two is the smallest where messages overtake each other. The
instance has `2 * Window = MaxId`, the tightest relation of any window up to 32767; at
QoS 2 a refused message frees its permit before an older one completes its exchange, so
nothing is claimed for wider windows. Room for two packets fills within a run of three messages, so writes do wait; room for
four is enough for the window of two with its PUBRELs. Three messages over two publishers
leave a remainder for `quota_for`, and a window of one is full after the first message of
either. Two
runs of a command are the smallest number that shares a session, and three let `pub` meet
the remains of two broken ones; three lines over two identifiers wrap the identifier
within a run. One stray acknowledgement is enough to free a permit twice if the code did.
With 18 other samples and up to two of its own, the subscriber's report has 18, 19 or 20,
where the rank of the 95th percentile moves from the last sample to the one before it.
The command lines of `setup` are every combination of options within each of three groups
(credentials and identity, TLS and WebSocket, publishing and the Will), since no line of
the code looks at options of two groups at once except the password and `--tls`, which are
in a group together. A frame of three bytes over packets of two holds the end of one
and the start of the next; seven ticks are more than one and a half keep-alive intervals.

Fairness. Weak fairness of a task is the promise of the tokio executor to poll a task
that is ready, and of timers to fire (`FairClient`, `ClientSpec`). It says nothing about
the broker. `LossEndsPublisher` holds with a silent one, and so does `StopEndsPublisher`,
except that a broker which stops reading may keep the writer in a write for ever
(`<>[]WriteBlocked`). `CountRunCompletes` assumes in addition that the broker keeps reading.
`RunEnds` of `BenchRun` assumes that the broker answers CONNECT and SUBSCRIBE (the code has
no limit on those waits and does not look at the stop signal there) and reads its sockets,
so that writes end, but not that it acknowledges anything: a publisher may then wait on a
full window for ever, unless a deadline or Ctrl-C ends the run, and that is the exception the
property names. The deadlock of `publisher_pubrel` is such a wait. The liveness
of `PubCommand`, `SubCommand` and `BenchSubscriber` assumes that the broker reads what it is
sent. `ReplyIsPrinted` assumes a responder that answers, and `FairSpec` of `SubCommand` a user
who starts the command again. Kills, faults, refusals and stop signals are never fair: they
may happen and need not.

### What the violated runs show

* `publisher_pubrel`. At QoS 2 the writer drains the channel of PUBRECs only at the top of
  its loop. If it reaches the select for a permit before the PUBREC was handed over and
  the window is full, nobody writes the PUBREL, no PUBCOMP comes, and no permit returns.
  With `--inflight 1` this is the normal course. A stop signal ends it.
* `run_deadline`. `--duration` and Ctrl-C stop the subscribers together with the
  publishers, so the drain window has nobody to wait for.
* `report_small`. With `--payload-size` below 16 the publishers send a header all the
  same, and the report prints the latency measured from it; in JSON it stands next to
  `end_to_end_disabled: true`.
* `stream_keepalive`. The timeout starts afresh with every packet read. A client that
  is sent QoS 0 messages more often than every half interval writes nothing, and is silent
  for longer than the one and a half intervals after which a broker may close it.

More observations, visible in the models and not runs of their own.

* The run waits 200 ms for its subscribers and not for their SUBACKs, so a publisher may
  publish while a subscriber still connects, although the repository's README (line 104) says
  that subscribers subscribe before any publisher starts; `EveryDeliveryCounted` is stated
  for runs where the sleep was long enough (`timely`).
* `expect_ack` fails on a PUBLISH that comes before the acknowledgement, where its comment
  speaks of ignoring it (`ExpectAckFails`).
* A foreign payload of 16 bytes or more whose stamp lies between the warm-up and now is
  timed, although the comments at `subscriber.rs:105-107` and `payload.rs:33-34` say that
  only messages of this run carry a header.
* A write of `publisher::run` has no stop arm (`publisher.rs:75`, `296` and `339`): a broker
  that stops reading holds the run past its deadline and past Ctrl-C.
* `print_message` drops every error of stdout: with a closed pipe or a full disk messages
  are acknowledged, counted towards `-n` and lost, and the run exits 0.
* A `--broker` that is no TLS server name or makes no URI is refused only after the dial
  (`tls.rs:26-31`, `ws.rs:41-43`), where the comment of `Client::connect` speaks of
  validating before it.
* A `request` whose own PUBLISH is refused goes on waiting for its reply
  (`request.rs:64-69`), where README lines 52-55 promise exit status 1 and the reason code
  when a publish is refused.

## 4. Proofs

Every safety property of the passing runs is also a theorem, for every value of the constants
that satisfies the `ASSUME` of the module: any number of messages, publishers, subscribers,
connections, runs, samples, bytes and ticks. So are both refinements and the action property
`ReportIsFinal`. Each theorem rests on an inductive invariant; apart from the type
invariants the properties are not inductive by themselves, because each speaks of the end of something that earlier steps
prepared.

**`BenchPublisher_proofs`**, any broker, strays included, and every QoS.

* `TypeCorrect`. `TypeOK` is inductive: its clause that a QoS > 0 publisher about to write
  has an identifier in `1..MaxId` is what makes the PUBLISH it builds, and the removal of
  its entry when the write fails, well typed.
* `WindowSafe`: `WindowBounded`. Each action moves a unit between the free permits, the
  permit being spent and the messages in flight (`InsertCount`, `RemoveCount`), and
  `complete_ack` frees a permit only for an entry it removed.
* `PublishedCovers`: `PublishedCoversAccepted`. `PublishedInv`: what is on its way to the
  broker or accepted was written, and at most one written message is not yet counted.

**`BenchPublisherOrder_proofs`**: `IdentifiersNeverCollide`, `AcknowledgedAreAccepted`,
`BooksBalance`, `PubrelsAreDue`, `PermitsAreConserved`, `BrokerIsNeverOverrun`, and
`PublisherImplementsWindow`, the refinement of `AckWindow`. All have the hypothesis
`AnswersOnce`: QoS 1 or 2, no stray acknowledgements, and at QoS 2 a window of at most half
the identifiers. None of it holds with strays: an acknowledgement nobody asked for frees an
entry whose message is still with the broker. The restriction at QoS 2 is needed too: a refused
message frees its permit before an older one has finished its exchange, so with
`MaxId < 2 * Window` an identifier can come round while it is in use (TLC finds it with
`Window = 2` and `MaxId` 2 or 3, and nothing with 4). In the code it concerns windows above
32767 (`effective_inflight` caps at 65535). QoS 1 needs no such restriction, and
`publisher_qos2` is an instance of the hypothesis. At QoS 0 nothing is acknowledged and they are not claimed.

`OrderInv`, which TLC checked on small instances before it was proved, has five parts. `FlightBound` is the window. `Slots`: identifiers are given
out in turn, so the message under one is determined by how long ago it was. `Order`: the
packets between the client and the broker, read as one line of messages, are in the order
of the messages, up to the slack of one window that QoS 2 allows, and each message in
flight is in that line or in the channel of PUBRECs exactly once. `Packets`: what each packet says agrees
with `in_flight` and with the broker. `Books`: the counters. An overwritten entry would be
`MaxId` messages old by `Slots`; `Order` says that nothing so old is still in flight. The
lemmas about the line (`PipeAnswered`, `PipePublished`, ...) know nothing of MQTT; the
rest of the module shows that each action is one of them. The refinement needs also
`WithinQuota`: between the top of the loop and the write, the quota is not used up.

**`BenchRun_proofs`**: `RunTypeCorrect`, `CountIsNeverExceeded`, `DeliveriesAreCounted`,
`SuccessHonest`, `ReportFinal`. `RunInv` says where tasks may be for each place of the run
(`Tasks`) and turns the two sums the properties are about into cardinalities: the messages
published are a set of numbers below `Count` (`Quotas`: message `k` of publisher `p` is number
`k * NumPublishers + p`, so different publishers never share one), the deliveries counted
a set of pairs of subscriber and message: `Deliveries` accounts for the messages the broker
accepted, each received or on its way at every subscriber of a timely run, and `Answers` for
the messages written, each unread, answered or counted, so that what was accepted is what was
acknowledged and what is still in `acks`. `Reported` says that the report is
a snapshot of counters that no longer move.

**`BenchSubscriber_proofs`**: `CompletedAreCounted`, `SamplesMeasured` from `SubscriberInv` (a
message is on its way once and not any more when it is counted; a PUBREL is of a counted
message), and `SummaryExact`. The last needs that the positions `Sorted` gives are a
permutation (`PlacesTaken`), that the value at place `k` is the least at or below which
there are `k` (`SortedValue`), that the rank `percentile` computes is the least number of
samples that make up the share (`RankIsShare`), and that the sum is a number (`SumType`);
`ReportInv` says that the report is of samples that no longer change.

**`PubCommand_proofs`**: `PubTypeCorrect`, `ConfirmedMessagesAreAccepted`, `HandshakesFinish`, over
any number of runs, kills, refusals and drops. `PubInv` says where the one packet of the
handshake is (`HandshakeStands`), and bounds, at each place, confirmed duplicates and open
exchanges together by what broken runs left behind.

**`SubCommand_proofs`**: `AcknowledgedArePrinted` from `AcknowledgedInv` (what was acknowledged,
not handed to `print_message` and is not about to be numbers at most the kills, where
acknowledged includes packets the broker has not read) and `LimitExact` from `LimitInv`.

**`ConnectionSetup_proofs`**: `EveryConnectIsSound`, `EveryPeerIsVerified`,
`EveryPlaintextIsWarned`, `NothingDoomedIsDialled`, for every command line, not only those
of `setup`, and any number of bench connections. `SetupInv` records what is known at each
place of the set-up: what was validated, which layers are on and in which order, which warnings are out. `Complete` says that behind
the last layer the stack is the one the options ask for (`AskedLayers`) and that the URI was
sound; `TlsSettled`, that the TLS layer has a sound server name, and the roots, the client
certificate and the warning that go with it.

**`ClientStream_proofs`**: `IdleClientPings` (`ClockInv`), `OneFramePerPacket` (`WriteInv`),
`PacketsAreIntact` (`ReadInv`) and `StreamImplementsBytePipe`, the refinement in both
directions. `ReadInv` places every byte between the last one read and the last one the
broker produced: in `readBuf` after `readPos`, then message by message. `WriteInv` says that
the frames the library holds and those on the wire are together one frame per packet.

How the proofs deal with data. The library's induction theorems cannot be used here, since
they take an operator. Where a recursive function or a fold has to be understood
(`BytesOf`, `FoldSeq`, the least index of `SelectInSeq`), the proof takes the least number for
which the claim fails, with `WFMin`. Sums over tasks are avoided by counting sets.

Only model-checked: all liveness (`StopEndsPublisher`, `LossEndsPublisher`,
`CountRunCompletes`, `RunEnds`, `StopEndsSubscriber`, `DeliveriesComplete`,
`DeliveredIsPrinted`, `ReplyIsPrinted`), which is out of the prover's reach, and the
properties that the runs of section 3 show to be violated.

## 5. Not modelled

* The floating-point arithmetic of `Schedule`: the pacing sleep may end at any time.
* `poll_shutdown`, which nothing in the program awaits, and the methods of `Stream` that
  only delegate. A TLS or TCP stream is taken to be the byte pipe that `ClientStream` shows
  `WsByteStream` to be.
* The layout of the report, its rates and byte counts; the bytes `sub` prints, with their
  properties and escaping; the wording of errors and of help; the redacting `Debug` output.
* `tungstenite`, `rustls`, `clap` and `wispmq_protocol` themselves: external, modelled from
  how the code uses them.

TLC's runs cover QoS 1 and QoS 2 of the publisher; QoS 0, which has no window, is covered
by the proofs. Data is abstracted throughout: topics and the content of payloads do not
occur.

## 6. Plan

The state changes of the program are modelled, and the safety properties are proved. What
is left is wider or deeper, not missing:

1. What holds at QoS 2 of windows between half the identifiers and all of them, when the
   broker refuses nothing.
2. What a stray acknowledgement costs at most: `WindowConserved` and `Accounting` up to the
   number of strays.
3. That `BenchRun`'s view of a publisher and of a subscriber is implemented by
   `BenchPublisher` and `BenchSubscriber`.
