------------------------------ MODULE BenchRun ------------------------------
(***************************************************************************)
(* One run of `wispmq-cli bench` (src/src/bench/mod.rs): the subscribers   *)
(* are spawned, settle, the publishers are spawned and joined, deliveries  *)
(* get the drain window, the subscribers are stopped and joined, and the   *)
(* report is a snapshot of the counters.  Publishers, subscribers and the  *)
(* deadline task share one stop signal and one set of counters.            *)
(*                                                                         *)
(* A publisher is publisher::run at QoS 1 or 2 as its caller sees it:      *)
(* BenchPublisher has its identifiers and the packets of an                *)
(* acknowledgement.  A subscriber is subscriber::run (BenchSubscriber).    *)
(* The broker is external: it answers handshakes and subscriptions, reads  *)
(* and answers messages when it likes or not at all, and hands every       *)
(* message it accepts to the subscriptions it knows.                       *)
(***************************************************************************)
EXTENDS Integers, FiniteSets

CONSTANTS
    NumPublishers,   \* config.publishers
    NumSubscribers,  \* config.subscribers
    Count,           \* the messages of the run: Stop::Count and CountWithin
    Window,          \* effective_inflight: the permits of a publisher
    Interrupts,      \* whether the deadline or Ctrl-C may end the run early
    Faults,          \* whether connections may fail
    Refusals         \* whether the broker may refuse messages

ASSUME RunAssumption ==
    /\ NumPublishers \in Nat \ {0}     \* from_args refuses 0 publishers
    /\ NumSubscribers \in Nat /\ Count \in Nat
    /\ Window \in Nat \ {0}            \* effective_inflight is at least 1
    /\ {Interrupts, Faults, Refusals} \subseteq BOOLEAN

Publishers == 0..(NumPublishers - 1)
Subscribers == 0..(NumSubscribers - 1)

\* Mutant: every share is rounded up.
QuotaForRoundsUp(p) == (Count + NumPublishers - 1) \div NumPublishers

\* Config::quota_for: an even share, the remainder to the first publishers.
QuotaFor(p) == (Count \div NumPublishers) + (IF p < Count % NumPublishers THEN 1 ELSE 0)

VARIABLES
    main,         \* where bench::run is
    timely,       \* history: SUBSCRIBER_SETTLE and --drain have been long enough
    timer,        \* the deadline_stop task
    stop,         \* the watch channel
    pub,          \* each publisher task
    sent,         \* the messages each publisher sent
    unread,       \* of these, the ones the broker has not read, or never will
    acks, nacks,  \* the broker's answers no ack task has read
    reader,       \* the stream each ack task reads: open or ended
    detached,     \* whether a publisher left its ack task behind
    sub,          \* each subscriber task
    subscribed,   \* broker: the subscriptions it knows
    accepted,     \* history, broker: the messages it has handed on
    inbox,        \* deliveries on their way to each subscriber
    published, acknowledged, received, pubErrors, refused,   \* Counters
    report        \* the printed report, once there is one

counters == <<published, acknowledged, received, pubErrors, refused>>
mainVars == <<main, timely, timer, report>>
flightVars == <<unread, acks, nacks>>
pubVars == <<pub, sent, flightVars, reader, detached>>
subVars == <<sub, inbox>>
vars == <<mainVars, stop, pubVars, subVars, subscribed, accepted, counters>>

\* The in_flight map of a publisher: each entry has a permit of the window.
InFlight(p) == unread[p] + acks[p] + nacks[p]

NoReport == [printed |-> FALSE]
Ended == {"ok", "lost", "err"}   \* "lost": Ok(()), after the broker had closed

Init ==
    /\ main = "settle" /\ timely = TRUE /\ timer = "unset" /\ stop = FALSE /\ report = NoReport
    /\ pub = [p \in Publishers |-> "unspawned"]
    /\ sent = [p \in Publishers |-> 0]
    /\ unread = [p \in Publishers |-> 0]
    /\ acks = [p \in Publishers |-> 0]
    /\ nacks = [p \in Publishers |-> 0]
    /\ reader = [p \in Publishers |-> "open"]
    /\ detached = [p \in Publishers |-> FALSE]
    /\ sub = [s \in Subscribers |-> "connecting"]
    /\ subscribed = {} /\ accepted = 0
    /\ inbox = [s \in Subscribers |-> 0]
    /\ published = 0 /\ acknowledged = 0 /\ received = 0 /\ pubErrors = 0 /\ refused = 0

-----------------------------------------------------------------------------
(***************************************************************************)
(* bench::run and its deadline task.                                       *)
(***************************************************************************)

\* SUBSCRIBER_SETTLE has passed, whatever the subscribers did meanwhile.
SpawnPublishers ==
    /\ main = "settle"
    /\ timely' = \A s \in Subscribers : sub[s] \notin {"connecting", "subscribing"}
    /\ main' = "publishing"
    /\ timer' = "armed"
    /\ pub' = [p \in Publishers |-> "connecting"]
    /\ UNCHANGED <<report, stop, sent, flightVars, reader, detached, subVars, subscribed, accepted, counters>>

\* The deadline passes or Ctrl-C is pressed.
DeadlineStop ==
    /\ timer = "armed" /\ Interrupts
    /\ timer' = "fired"
    /\ stop' = TRUE
    /\ UNCHANGED <<main, timely, report, pubVars, subVars, subscribed, accepted, counters>>

\* Mutant: the subscribers are stopped before the drain window.
JoinPublishersStops ==
    /\ main = "publishing"
    /\ \A p \in Publishers : pub[p] \in Ended
    /\ main' = "drain"
    /\ stop' = TRUE
    /\ UNCHANGED <<timely, timer, report, pubVars, subVars, subscribed, accepted, counters>>

\* join_tasks on the publishers.
JoinPublishers ==
    /\ main = "publishing"
    /\ \A p \in Publishers : pub[p] \in Ended
    /\ main' = "drain"
    /\ UNCHANGED <<timely, timer, report, stop, pubVars, subVars, subscribed, accepted, counters>>

\* The drain sleep is over: stop the subscribers, drop the deadline task.
DrainElapsed ==
    /\ main = "drain"
    /\ timely' = (timely /\ \A s \in Subscribers : sub[s] = "reading" => inbox[s] = 0)
    /\ stop' = TRUE
    /\ timer' = IF timer = "armed" THEN "aborted" ELSE timer
    /\ main' = "joining"
    /\ UNCHANGED <<report, pubVars, subVars, subscribed, accepted, counters>>

\* Mutant: only the counters decide.
SuccessByCounters == refused = 0 /\ pubErrors = 0

\* Report::success over collect_failures and the snapshot of the counters.
Success ==
    /\ \A p \in Publishers : pub[p] # "err"
    /\ \A s \in Subscribers : sub[s] # "err"
    /\ refused = 0 /\ pubErrors = 0

\* Mutant: the subscribers are not joined before the report.
PrintReportUnjoined ==
    /\ main = "joining"
    /\ main' = "reported"
    /\ report' = [printed |-> TRUE, published |-> published, acknowledged |-> acknowledged,
                  received |-> received, refused |-> refused, success |-> Success]
    /\ UNCHANGED <<timely, timer, stop, pubVars, subVars, subscribed, accepted, counters>>

\* join_tasks on the subscribers, then the report.
PrintReport ==
    /\ main = "joining"
    /\ \A s \in Subscribers : sub[s] \in Ended
    /\ main' = "reported"
    /\ report' = [printed |-> TRUE, published |-> published, acknowledged |-> acknowledged,
                  received |-> received, refused |-> refused, success |-> Success]
    /\ UNCHANGED <<timely, timer, stop, pubVars, subVars, subscribed, accepted, counters>>

-----------------------------------------------------------------------------
(***************************************************************************)
(* The subscribers.                                                        *)
(***************************************************************************)
SetSub(s, state) == sub' = [sub EXCEPT ![s] = state]

\* Handshake answered, SUBSCRIBE written.
SubConnect(s) ==
    /\ sub[s] = "connecting"
    /\ SetSub(s, "subscribing")
    /\ UNCHANGED <<mainVars, stop, pubVars, inbox, subscribed, accepted, counters>>

\* The broker records the subscription, and may deliver from now on.
BrokerSubscribes(s) ==
    /\ sub[s] = "subscribing" /\ s \notin subscribed
    /\ subscribed' = subscribed \cup {s}
    /\ UNCHANGED <<mainVars, stop, pubVars, subVars, accepted, counters>>

\* The SUBACK is read; a delivery read before it is thrown away.
SubAck(s) ==
    /\ sub[s] = "subscribing" /\ s \in subscribed
    /\ \/ SetSub(s, "reading") /\ UNCHANGED inbox
       \/ /\ inbox[s] > 0
          /\ inbox' = [inbox EXCEPT ![s] = @ - 1]
          /\ UNCHANGED sub
    /\ UNCHANGED <<mainVars, stop, pubVars, subscribed, accepted, counters>>

\* Mutant: a packet that is no PUBLISH counts as a delivery.
SubReceiveAnything(s) ==
    /\ sub[s] = "reading"
    /\ inbox' = [inbox EXCEPT ![s] = @ - 1]
    /\ received' = received + 1
    /\ UNCHANGED <<mainVars, stop, pubVars, sub, subscribed, accepted,
                   published, acknowledged, pubErrors, refused>>

\* One PUBLISH read, counted and acknowledged; the stop signal was not seen yet.
SubReceive(s) ==
    /\ sub[s] = "reading" /\ inbox[s] > 0
    /\ inbox' = [inbox EXCEPT ![s] = @ - 1]
    /\ received' = received + 1
    /\ UNCHANGED <<mainVars, stop, pubVars, sub, subscribed, accepted,
                   published, acknowledged, pubErrors, refused>>

\* Mutant: nobody listens to the stop signal after the end of the stream.
SubStopReading(s) ==
    /\ sub[s] = "reading" /\ stop
    /\ SetSub(s, "ok")
    /\ subscribed' = subscribed \ {s}
    /\ UNCHANGED <<mainVars, stop, pubVars, inbox, accepted, counters>>

\* The stop signal, while reading or after the end of the stream.
SubStop(s) ==
    /\ sub[s] \in {"reading", "closed"} /\ stop
    /\ SetSub(s, IF sub[s] = "closed" THEN "lost" ELSE "ok")
    /\ subscribed' = subscribed \ {s}
    /\ UNCHANGED <<mainVars, stop, pubVars, inbox, accepted, counters>>

\* The broker closes (the task then waits for the stop signal), or the
\* connection, the handshake or the subscription fails.
SubLost(s) ==
    /\ Faults
    /\ \/ sub[s] = "reading" /\ SetSub(s, "closed")
       \/ sub[s] \in {"connecting", "subscribing", "reading"} /\ SetSub(s, "err")
    /\ subscribed' = subscribed \ {s}
    /\ UNCHANGED <<mainVars, stop, pubVars, inbox, accepted, counters>>

-----------------------------------------------------------------------------
(***************************************************************************)
(* The publishers, and the broker at the other end of their connections.   *)
(***************************************************************************)
SetPub(p, state) == pub' = [pub EXCEPT ![p] = state]

PubConnect(p) ==
    /\ pub[p] = "connecting"
    /\ SetPub(p, "sending")
    /\ UNCHANGED <<mainVars, stop, sent, flightVars, reader, detached, subVars, subscribed,
                   accepted, counters>>

\* The top of the writer's loop: the quota, then the stop signal.
PubLoop(p) ==
    /\ pub[p] = "sending"
    /\ SetPub(p, IF sent[p] >= QuotaFor(p) \/ stop THEN "settling" ELSE "acquiring")
    /\ UNCHANGED <<mainVars, stop, sent, flightVars, reader, detached, subVars, subscribed,
                   accepted, counters>>

\* The select for a permit: one is free, the stop signal comes, or the ack task has
\* ended and closed the window, which is what run then returns.
PubAcquire(p) ==
    /\ pub[p] = "acquiring"
    /\ \/ reader[p] = "open" /\ InFlight(p) < Window /\ SetPub(p, "writing")
       \/ stop /\ SetPub(p, "settling")
       \/ reader[p] # "open" /\ SetPub(p, "err")
    /\ UNCHANGED <<mainVars, stop, sent, flightVars, reader, detached, subVars, subscribed,
                   accepted, counters>>

\* The PUBLISH is written, whether or not the broker ever reads it.
PubWrite(p) ==
    /\ pub[p] = "writing"
    /\ SetPub(p, "sending")
    /\ sent' = [sent EXCEPT ![p] = @ + 1]
    /\ unread' = [unread EXCEPT ![p] = @ + 1]
    /\ published' = published + 1
    /\ UNCHANGED <<mainVars, stop, acks, nacks, reader, detached, subVars, subscribed, accepted,
                   acknowledged, received, pubErrors, refused>>

\* The write fails: run returns at once and its ack task stays behind.
PubWriteFails(p) ==
    /\ pub[p] = "writing" /\ Faults
    /\ SetPub(p, "err")
    /\ pubErrors' = pubErrors + 1
    /\ detached' = [detached EXCEPT ![p] = TRUE]
    /\ UNCHANGED <<mainVars, stop, sent, flightVars, reader, subVars, subscribed, accepted,
                   published, acknowledged, received, refused>>

\* The broker reads a message, hands it to the subscriptions it knows and confirms it.
BrokerAccepts(p) ==
    /\ unread[p] > 0
    /\ unread' = [unread EXCEPT ![p] = @ - 1]
    /\ acks' = [acks EXCEPT ![p] = @ + 1]
    /\ accepted' = accepted + 1
    /\ inbox' = [s \in Subscribers |-> IF s \in subscribed THEN inbox[s] + 1 ELSE inbox[s]]
    /\ timely' = (timely /\ main \in {"publishing", "drain"})
    /\ UNCHANGED <<main, timer, report, stop, pub, sent, nacks, reader, detached, sub, subscribed,
                   counters>>

\* The broker reads a message, refuses it and hands it to nobody.
BrokerRefuses(p) ==
    /\ Refusals /\ unread[p] > 0
    /\ unread' = [unread EXCEPT ![p] = @ - 1]
    /\ nacks' = [nacks EXCEPT ![p] = @ + 1]
    /\ UNCHANGED <<mainVars, stop, pub, sent, acks, reader, detached, subVars, subscribed,
                   accepted, counters>>

\* Whether the ack task of a publisher still reads, joined or not.
AckTaskReads(p) ==
    /\ reader[p] = "open"
    /\ pub[p] \in {"sending", "acquiring", "writing", "settling"} \/ detached[p]

\* complete_ack in the ack task.
AckTaskCounts(p) ==
    /\ AckTaskReads(p)
    /\ \/ /\ acks[p] > 0
          /\ acks' = [acks EXCEPT ![p] = @ - 1] /\ UNCHANGED nacks
          /\ acknowledged' = acknowledged + 1 /\ UNCHANGED refused
       \/ /\ nacks[p] > 0
          /\ nacks' = [nacks EXCEPT ![p] = @ - 1] /\ UNCHANGED acks
          /\ refused' = refused + 1 /\ UNCHANGED acknowledged
    /\ UNCHANGED <<mainVars, stop, pub, sent, unread, reader, detached, subVars, subscribed,
                   accepted, published, received, pubErrors>>

\* The reply stream ends, by Eof or by an error: the ack task closes the window.
AckTaskEnds(p) ==
    /\ Faults /\ AckTaskReads(p)
    /\ reader' = [reader EXCEPT ![p] = "ended"]
    /\ UNCHANGED <<mainVars, stop, pub, sent, flightVars, detached, subVars, subscribed,
                   accepted, counters>>

\* DISCONNECT, then the join of the ack task: its stream ended by Eof, earlier or now, or
\* by an error, or the broker does not close it in time.
PubLeaves(p) ==
    /\ SetPub(p, "ok") \/ SetPub(p, "err")
    /\ UNCHANGED <<mainVars, stop, sent, flightVars, reader, detached, subVars, subscribed,
                   accepted, counters>>

\* Every answer is in.
PubReturns(p) == pub[p] = "settling" /\ InFlight(p) = 0 /\ PubLeaves(p)

\* The five seconds for outstanding answers are over.
PubGivesUp(p) == pub[p] = "settling" /\ InFlight(p) > 0 /\ PubLeaves(p)

\* The handshake fails, or a PUBREL cannot be written, which leaves the ack task behind.
PubLost(p) ==
    /\ Faults /\ pub[p] \in {"connecting", "sending"}
    /\ SetPub(p, "err")
    /\ detached' = [detached EXCEPT ![p] = pub[p] = "sending"]
    /\ UNCHANGED <<mainVars, stop, sent, flightVars, reader, subVars, subscribed, accepted,
                   counters>>

-----------------------------------------------------------------------------
Main == SpawnPublishers \/ JoinPublishers \/ DrainElapsed \/ PrintReport
Subscriber(s) == SubReceive(s) \/ SubStop(s)
Publisher(p) == PubLoop(p) \/ PubAcquire(p)
PublisherWrites(p) == PubWrite(p) \/ PubWriteFails(p) \/ PubReturns(p) \/ PubGivesUp(p)
AckTask(p) == AckTaskCounts(p) \/ AckTaskEnds(p)
BrokerAnswersSub(s) == SubConnect(s) \/ BrokerSubscribes(s) \/ SubAck(s)
BrokerAnswersPub(p) == BrokerAccepts(p) \/ BrokerRefuses(p)

Finished == main = "reported" /\ UNCHANGED vars

Next ==
    \/ Main \/ DeadlineStop \/ Finished
    \/ \E s \in Subscribers : Subscriber(s) \/ BrokerAnswersSub(s) \/ SubLost(s)
    \/ \E p \in Publishers : Publisher(p) \/ PublisherWrites(p) \/ AckTask(p) \/ PubConnect(p)
                             \/ BrokerAnswersPub(p) \/ PubLost(p)

Spec == Init /\ [][Next]_vars

\* The executor runs every task that is ready, and timers fire.
ClientSpec ==
    /\ Spec /\ WF_vars(Main)
    /\ \A s \in Subscribers : WF_vars(Subscriber(s))
    /\ \A p \in Publishers : WF_vars(Publisher(p))

\* The broker besides answers every CONNECT and every SUBSCRIBE, and reads its sockets, so
\* that every write ends; nothing says that it acknowledges a message.
FairSpec ==
    /\ ClientSpec
    /\ \A s \in Subscribers : WF_vars(BrokerAnswersSub(s))
    /\ \A p \in Publishers : WF_vars(PubConnect(p)) /\ WF_vars(PublisherWrites(p))

-----------------------------------------------------------------------------
(***************************************************************************)
(* Properties.                                                             *)
(***************************************************************************)

\* Type correctness of the run, its tasks and its counters.
TypeOK ==
    /\ main \in {"settle", "publishing", "drain", "joining", "reported"}
    /\ timer \in {"unset", "armed", "fired", "aborted"} /\ timely \in BOOLEAN
    /\ stop \in BOOLEAN
    /\ pub \in [Publishers -> {"unspawned", "connecting", "sending", "acquiring", "writing",
                               "settling"} \cup Ended]
    /\ sent \in [Publishers -> Nat] /\ unread \in [Publishers -> Nat]
    /\ acks \in [Publishers -> Nat] /\ nacks \in [Publishers -> Nat]
    /\ reader \in [Publishers -> {"open", "ended"}]
    /\ detached \in [Publishers -> BOOLEAN]
    /\ sub \in [Subscribers -> {"connecting", "subscribing", "reading", "closed"} \cup Ended]
    /\ subscribed \subseteq Subscribers /\ accepted \in Nat
    /\ inbox \in [Subscribers -> Nat]
    /\ {published, acknowledged, received, pubErrors, refused} \subseteq Nat
    /\ report.printed \in BOOLEAN

\* Every message published was sent by one publisher within its share of --count, so
\* the run never publishes more than it was asked for (quota_for).
NeverOverCount == published <= Count

\* A run that ends by itself, with subscribers ready in time, kept by the broker, and a
\* drain longer than the deliveries: every message whose acknowledgement it reports was
\* received, and counted, by every subscriber, and when every message was answered nothing
\* else was; the drain window precedes the stop of the subscribers, so what is late is counted.
EveryDeliveryCounted ==
    report.printed /\ timely /\ timer = "aborted" /\ (\A s \in Subscribers : sub[s] = "ok") =>
      /\ report.received >= report.acknowledged * NumSubscribers
      /\ report.acknowledged + report.refused = report.published =>
           report.received = report.acknowledged * NumSubscribers

\* A run that exits 0 had no failed task, no refused message and no write error, and
\* unless it was interrupted every publisher sent its whole share of --count.
SuccessIsHonest ==
    report.printed /\ report.success =>
      /\ refused = 0 /\ pubErrors = 0
      /\ \A p \in Publishers : pub[p] = "ok"
      /\ \A s \in Subscribers : sub[s] # "err"
      /\ \A p \in Publishers : sent[p] = QuotaFor(p) \/ timer = "fired"

\* What may still be counted once every task has joined: an answer to a message in flight, by
\* the ack task that a failing publisher left behind.
OnlyLateAnswers ==
    /\ UNCHANGED <<published, received, pubErrors>>
    /\ \/ UNCHANGED <<acknowledged, refused>>
       \/ \E p \in Publishers : detached[p] /\ InFlight(p)' < InFlight(p)

\* stats.rs reads the counters once every task has joined: when the report has printed,
\* published, received and publish_errors stay as they are, and an acknowledgement or a refusal
\* is counted only by the ack task that a failing publisher left behind, for a message of its own.
ReportIsFinal == [][report.printed => OnlyLateAnswers]_vars

\* The one wait of a publisher that neither the executor nor the broker's reading ends: the
\* window is full, no acknowledgement comes, the stream stays open and nobody stops the run.
Starved(p) ==
    pub[p] = "acquiring" /\ reader[p] = "open" /\ InFlight(p) >= Window /\ ~stop

\* Whatever fails, a run whose broker answers CONNECT and SUBSCRIBE and reads its sockets
\* prints its report, unless a publisher waits for ever on a full window of messages that are
\* never acknowledged, with no deadline or Ctrl-C to end it: join_tasks waits for nothing else.
RunEnds == <>report.printed \/ <>[](\E p \in Publishers : Starved(p))

\* bench::run: deliveries still in flight arrive before the subscribers are told to
\* stop, so none returns on the stop signal, a delivery on its way, before the drain.
DrainBeforeStop ==
    \A s \in Subscribers : sub[s] = "ok" /\ inbox[s] > 0 => main \in {"joining", "reported"}
=============================================================================
