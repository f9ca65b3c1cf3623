----------------------------- MODULE SubCommand -----------------------------
(***************************************************************************)
(* `wispmq-cli sub` (src/src/subscribe.rs) and `wispmq-cli request`        *)
(* (src/src/request.rs) over src/src/client.rs, run several times with one *)
(* client identifier: connect, SUBSCRIBE, wait for the SUBACK, publish the *)
(* request if there is one, then acknowledge and print messages until the  *)
(* limit.                                                                  *)
(*                                                                         *)
(* The broker is external.  It keeps the session of a disconnected client  *)
(* when --persistent-session clears Clean Start and the protocol is v3.x;  *)
(* under v5 a session lives on only for a Session Expiry Interval, which   *)
(* this client's CONNECT never carries.  When a session resumes, what the  *)
(* client still owes an answer for is sent again after the CONNACK.  A     *)
(* message is its number in the order of publishing, and also its packet   *)
(* identifier; the answer to the request of run r is Messages + r.         *)
(***************************************************************************)
EXTENDS Integers, FiniteSets, Sequences, SequencesExt

CONSTANTS
    QoS,          \* args.qos, the QoS of subscription and deliveries
    Counts,       \* what -n may say: numbers, or Absent for a `sub` without it
    Ceilings,     \* what --max-messages may say
    Absent,
    Messages,     \* bound: messages published to the topic
    MaxRuns,      \* bound: runs of the command
    Persistent,   \* --persistent-session
    V5,           \* --protocol 5, the default
    Retained,     \* whether a retained message may precede the SUBACK
    Refusals,     \* whether the broker may refuse the connection or the filter
    Faults,       \* whether the broker may drop the connection
    StdoutFaults, \* whether a write to stdout may fail: a closed pipe, a full disk
    Crashes       \* whether a run may be killed

ASSUME SubAssumption ==
    /\ QoS \in 0..2 /\ Counts \subseteq Nat \cup {Absent} /\ Ceilings \subseteq Nat /\ Absent \notin Nat
    /\ Messages \in Nat /\ MaxRuns \in Nat
    /\ {Persistent, V5, Retained, Refusals, Faults, StdoutFaults, Crashes} \subseteq BOOLEAN

Msgs == 1..(Messages + MaxRuns)
KeepsSession == Persistent /\ ~V5

VARIABLES
    command,    \* "sub" or "request", of every run
    count, ceiling,   \* args.count and args.max_messages
    cpc,        \* where the process is: "off" when none runs
    exit,       \* exit status of the last run
    runs,       \* runs started
    kills,      \* runs killed between two steps
    seen,       \* messages counted by this run
    current,    \* the message acknowledged and about to be printed
    printed,    \* messages printed, over all runs
    swallowed,  \* messages whose write to stdout failed, over all runs
    conn,       \* "down", "open" or "eof"
    toSub, toBroker,
    made,       \* messages published to the topic so far
    subscribed, \* broker: the session has the subscription
    owed,       \* broker: messages sent or queued that wait for PUBACK or PUBREC
    unreleased, \* broker: messages that wait for PUBCOMP
    completed,  \* broker: messages acknowledged to the end by the client
    held,       \* broker: the run whose QoS 2 request waits for its PUBREL, or 0
    asked       \* responder: runs whose request it has and has not answered

config == <<command, count, ceiling>>
vars == <<config, cpc, exit, runs, kills, seen, current, printed, swallowed, conn, toSub,
          toBroker, made, subscribed, owed, unreleased, completed,
          held, asked>>
clientVars == <<config, cpc, exit, runs, kills, seen, current, printed, swallowed>>
requestVars == <<held, asked>>
brokerVars == <<made, subscribed, owed, unreleased, completed, requestVars>>

Packet(type, m) == [type |-> type, msg |-> m]

\* Mutant: --max-messages 0 is a ceiling of 0.
EffectiveLimitZero ==
    IF count = Absent \/ ceiling < count THEN ceiling ELSE count

\* SubArgs::effective_limit: the smaller one of --count and --max-messages; 0 removes
\* the ceiling.
EffectiveLimit ==
    CASE ceiling = 0 -> count
      [] ceiling > 0 -> IF count = Absent \/ ceiling < count THEN ceiling ELSE count

\* The break of `sub` at its limit, the loop condition of `request`.
AtLimit ==
    LET limit == IF command = "sub" THEN EffectiveLimit ELSE count
    IN  limit # Absent /\ seen >= limit

Init ==
    /\ command \in {"sub", "request"} /\ count \in Counts /\ ceiling \in Ceilings
    /\ command = "request" => count # Absent /\ ceiling = 0    \* it has no --max-messages
    /\ cpc = "off" /\ exit = "none" /\ runs = 0 /\ kills = 0 /\ seen = 0 /\ current = 0
    /\ printed = {} /\ swallowed = {}
    /\ conn = "down" /\ toSub = <<>> /\ toBroker = <<>>
    /\ made = 0 /\ subscribed = FALSE /\ owed = {} /\ unreleased = {} /\ completed = {}
    /\ held = 0 /\ asked = {}

-----------------------------------------------------------------------------
Send(p) == toBroker' = IF conn = "open" THEN Append(toBroker, p) ELSE toBroker
SendMayFail == conn # "open"
Exit(status) == cpc' = "off" /\ exit' = status
Reads(type) == toSub # <<>> /\ Head(toSub).type = type

\* Client::disconnect.
Leave == \/ Send(Packet("DISCONNECT", 0)) /\ Exit("ok")
         \/ SendMayFail /\ Exit("err") /\ UNCHANGED toBroker

Start ==
    /\ cpc = "off" /\ conn = "down" /\ runs < MaxRuns
    /\ runs' = runs + 1
    /\ cpc' = "connect" /\ exit' = "none" /\ seen' = 0 /\ current' = 0
    /\ conn' = "open"
    /\ toBroker' = <<Packet("CONNECT", 0)>> /\ toSub' = <<>>
    /\ UNCHANGED <<config, kills, printed, swallowed, brokerVars>>

\* handshake, then the SUBSCRIBE of subscribe.
Connected ==
    /\ cpc = "connect" /\ toSub # <<>>
    /\ toSub' = Tail(toSub)
    /\ IF Head(toSub).type = "CONNACK"
       THEN \/ Send(Packet("SUBSCRIBE", 0)) /\ cpc' = "suback" /\ UNCHANGED exit
            \/ SendMayFail /\ Exit("err") /\ UNCHANGED toBroker
       ELSE Exit("err") /\ UNCHANGED toBroker
    /\ UNCHANGED <<config, runs, kills, seen, current, printed, swallowed, conn, brokerVars>>

\* Mutant: a message skipped by the wait is acknowledged.
WaitSubackAcknowledges ==
    /\ cpc = "suback" /\ toSub # <<>>
    /\ toSub' = Tail(toSub)
    /\ \/ Reads("SUBACK") /\ cpc' = "loop" /\ UNCHANGED <<exit, toBroker>>
       \/ Reads("PUBREL") /\ UNCHANGED <<cpc, exit, toBroker>>
       \/ /\ Reads("PUBLISH")
          /\ Send(Packet(IF QoS = 1 THEN "PUBACK" ELSE "PUBREC", Head(toSub).msg))
          /\ UNCHANGED <<cpc, exit>>
    /\ UNCHANGED <<config, runs, kills, seen, current, printed, swallowed, conn, brokerVars>>

\* The wait for the SUBACK: a refused filter or a DISCONNECT ends the run, and
\* any other packet is skipped.
WaitSuback ==
    /\ cpc = "suback" /\ toSub # <<>>
    /\ toSub' = Tail(toSub)
    /\ \/ Reads("SUBACK") /\ command = "request" /\ cpc' = "request" /\ UNCHANGED <<exit, toBroker>>
       \/ Reads("SUBACK") /\ command = "sub" /\ cpc' = "loop" /\ UNCHANGED <<exit, toBroker>>
       \/ /\ Reads("REFUSED") \/ Reads("DISCONNECT")
          /\ Exit("err") /\ UNCHANGED toBroker
       \/ /\ Reads("PUBLISH") \/ Reads("PUBREL")
          /\ UNCHANGED <<cpc, exit, toBroker>>
    /\ UNCHANGED <<config, runs, kills, seen, current, printed, swallowed, conn, brokerVars>>

\* request::run publishes once it is subscribed.
SendRequest ==
    /\ cpc = "request"
    /\ \/ Send(Packet("REQUEST", runs)) /\ cpc' = "loop" /\ UNCHANGED exit
       \/ SendMayFail /\ Exit("err") /\ UNCHANGED toBroker
    /\ UNCHANGED <<config, runs, kills, seen, current, printed, swallowed, conn, toSub, brokerVars>>

\* Mutant: a PUBREC is ignored like the other acknowledgements.
ReadOwnAckSilent ==
    /\ cpc = "loop" /\ ~AtLimit /\ (Reads("PUBACK") \/ Reads("PUBREC") \/ Reads("PUBCOMP"))
    /\ toSub' = Tail(toSub)
    /\ UNCHANGED <<clientVars, conn, toBroker, brokerVars>>

\* The acknowledgements of the request: whatever they say, a PUBREC is answered by a
\* PUBREL and the others are ignored.
ReadOwnAck ==
    /\ cpc = "loop" /\ ~AtLimit /\ toSub # <<>>
    /\ toSub' = Tail(toSub)
    /\ \/ (Reads("PUBACK") \/ Reads("PUBCOMP")) /\ UNCHANGED <<cpc, exit, toBroker>>
       \/ /\ Reads("PUBREC")
          /\ \/ Send(Packet("PUBREL", 0)) /\ UNCHANGED <<cpc, exit>>
             \/ SendMayFail /\ Exit("err") /\ UNCHANGED toBroker
    /\ UNCHANGED <<config, runs, kills, seen, current, printed, swallowed, conn, brokerVars>>

\* Mutant: a QoS 2 message waits for a PUBREL that does not print it.
AcknowledgeOnly ==
    /\ cpc = "loop" /\ ~AtLimit /\ Reads("PUBLISH")
    /\ toSub' = Tail(toSub)
    /\ current' = Head(toSub).msg
    /\ Send(Packet(IF QoS = 1 THEN "PUBACK" ELSE "PUBREC", current'))
    /\ cpc' = IF QoS = 2 THEN "loop" ELSE "print"
    /\ UNCHANGED <<config, exit, runs, kills, seen, printed, swallowed, conn, brokerVars>>

\* A PUBLISH is acknowledged first ...
Acknowledge ==
    /\ cpc = "loop" /\ ~AtLimit /\ Reads("PUBLISH")
    /\ toSub' = Tail(toSub)
    /\ current' = Head(toSub).msg
    /\ \/ /\ cpc' = "print" /\ UNCHANGED exit
          /\ IF QoS = 0 THEN UNCHANGED toBroker
             ELSE Send(Packet(IF QoS = 1 THEN "PUBACK" ELSE "PUBREC", current'))
       \/ QoS > 0 /\ SendMayFail /\ Exit("err") /\ UNCHANGED toBroker
    /\ UNCHANGED <<config, runs, kills, seen, printed, swallowed, conn, brokerVars>>

\* ... then printed and counted: print_message discards the errors of its writes and of
\* the flush, so a message that stdout did not take counts like the others.
PrintMessage ==
    /\ cpc = "print"
    /\ \/ printed' = printed \cup {current} /\ UNCHANGED swallowed
       \/ StdoutFaults /\ swallowed' = swallowed \cup {current} /\ UNCHANGED printed
    /\ seen' = seen + 1
    /\ cpc' = "loop"
    /\ UNCHANGED <<config, exit, runs, kills, current, conn, toSub, toBroker, brokerVars>>

\* At the limit, one of 0 included, the client disconnects without another read.
LimitReached ==
    /\ cpc = "loop" /\ AtLimit
    /\ Leave
    /\ UNCHANGED <<config, runs, kills, seen, current, printed, swallowed, conn, toSub, brokerVars>>

\* A PUBREL is answered by a PUBCOMP.
ReleaseMessage ==
    /\ cpc = "loop" /\ ~AtLimit /\ Reads("PUBREL")
    /\ toSub' = Tail(toSub)
    /\ \/ Send(Packet("PUBCOMP", Head(toSub).msg)) /\ UNCHANGED <<cpc, exit>>
       \/ SendMayFail /\ Exit("err") /\ UNCHANGED toBroker
    /\ UNCHANGED <<config, runs, kills, seen, current, printed, swallowed, conn, brokerVars>>

\* A DISCONNECT of the broker, or the end of the stream, is an error.
LoopFails ==
    /\ ~(cpc = "loop" /\ AtLimit)
    /\ \/ cpc = "loop" /\ Reads("DISCONNECT")
       \/ cpc \in {"connect", "suback", "loop"} /\ toSub = <<>> /\ conn = "eof"
    /\ Exit("err")
    /\ UNCHANGED <<config, runs, kills, seen, current, printed, swallowed, conn, toSub, toBroker, brokerVars>>

Kill ==
    /\ Crashes /\ cpc # "off"
    /\ Exit("killed")
    /\ kills' = kills + 1
    /\ UNCHANGED <<config, runs, seen, current, printed, swallowed, conn, toSub, toBroker, brokerVars>>

Command == Connected \/ WaitSuback \/ SendRequest \/ ReadOwnAck \/ Acknowledge \/ PrintMessage
           \/ LimitReached \/ ReleaseMessage \/ LoopFails

-----------------------------------------------------------------------------
(***************************************************************************)
(* The broker (external).                                                  *)
(***************************************************************************)
Deliver(packets) == toSub' = toSub \o packets

\* What a resumed session sends again.
Resend == SetToSeq({Packet("PUBREL", m) : m \in unreleased})
          \o SetToSeq({Packet("PUBLISH", m) : m \in owed})

BrokerConnect ==
    \/ Deliver(<<Packet("CONNACK", 0)>> \o Resend)
    \/ Refusals /\ Deliver(<<Packet("REFUSED", 0)>>)

\* The SUBACK; a retained message may reach the client before it or after it.
BrokerSubscribe ==
    \/ /\ subscribed' = TRUE
       /\ Deliver(<<Packet("SUBACK", 0)>>)
       /\ UNCHANGED <<made, owed>>
    \/ /\ Retained /\ made < Messages
       /\ subscribed' = TRUE
       /\ made' = made + 1
       /\ owed' = IF QoS > 0 THEN owed \cup {made'} ELSE owed
       /\ Deliver(<<Packet("PUBLISH", made'), Packet("SUBACK", 0)>>)
    \/ /\ Refusals
       /\ Deliver(<<Packet("REFUSED", 0)>>)
       /\ UNCHANGED <<made, subscribed, owed>>

\* The session a connection leaves behind; what was under way is lost.
EndSession ==
    /\ conn' = "down" /\ toSub' = <<>> /\ toBroker' = <<>>
    /\ IF KeepsSession THEN UNCHANGED <<subscribed, owed, unreleased, held>>
       ELSE subscribed' = FALSE /\ owed' = {} /\ unreleased' = {} /\ held' = 0

\* The request: refused, or passed on to the responder; a QoS 2 one once it is released.
\* One whose identifier waits for a PUBREL is a duplicate.
BrokerRequest(r) ==
    /\ Deliver(IF QoS = 0 THEN <<>>
               ELSE <<Packet(IF QoS = 1 THEN "PUBACK" ELSE "PUBREC", 0)>>)
    /\ \/ /\ QoS < 2 /\ asked' = asked \cup {r} /\ UNCHANGED held
       \/ /\ QoS = 2 /\ held' = IF held = 0 THEN r ELSE held
          /\ UNCHANGED asked
       \/ Refusals /\ UNCHANGED requestVars

BrokerRelease ==
    /\ asked' = asked \cup ({held} \ {0}) /\ held' = 0
    /\ Deliver(<<Packet("PUBCOMP", 0)>>)

BrokerRead ==
    /\ conn = "open" /\ toBroker # <<>>
    /\ toBroker' = Tail(toBroker)
    /\ LET p == Head(toBroker) IN
         \/ /\ p.type = "CONNECT" /\ BrokerConnect
            /\ UNCHANGED <<conn, brokerVars>>
         \/ /\ p.type = "SUBSCRIBE" /\ BrokerSubscribe
            /\ UNCHANGED <<conn, unreleased, completed, requestVars>>
         \/ /\ p.type = "PUBACK"
            /\ owed' = owed \ {p.msg} /\ completed' = completed \cup {p.msg}
            /\ UNCHANGED <<conn, toSub, made, subscribed, unreleased, requestVars>>
         \/ /\ p.type = "PUBREC"
            /\ owed' = owed \ {p.msg} /\ unreleased' = unreleased \cup {p.msg}
            /\ Deliver(<<Packet("PUBREL", p.msg)>>)
            /\ UNCHANGED <<conn, made, subscribed, completed, requestVars>>
         \/ /\ p.type = "PUBCOMP"
            /\ unreleased' = unreleased \ {p.msg} /\ completed' = completed \cup {p.msg}
            /\ UNCHANGED <<conn, toSub, made, subscribed, owed, requestVars>>
         \/ /\ p.type = "DISCONNECT" /\ EndSession
            /\ UNCHANGED <<made, completed, asked>>
         \/ /\ p.type = "REQUEST" /\ BrokerRequest(p.msg)
            /\ UNCHANGED <<conn, made, subscribed, owed, unreleased, completed>>
         \/ /\ p.type = "PUBREL" /\ BrokerRelease
            /\ UNCHANGED <<conn, made, subscribed, owed, unreleased, completed>>
    /\ UNCHANGED clientVars

\* Somebody publishes to the topic: delivered, or queued for the session.
BrokerPublish ==
    /\ subscribed /\ made < Messages
    /\ made' = made + 1
    /\ owed' = IF QoS > 0 THEN owed \cup {made'} ELSE owed
    /\ IF conn = "open" THEN Deliver(<<Packet("PUBLISH", made')>>) ELSE UNCHANGED toSub
    /\ UNCHANGED <<clientVars, conn, toBroker, subscribed, unreleased, completed, requestVars>>

\* The responder (external) publishes its answer; without the subscription it is lost.
Respond ==
    /\ \E r \in asked :
         /\ asked' = asked \ {r}
         /\ owed' = IF subscribed /\ QoS > 0 THEN owed \cup {Messages + r} ELSE owed
         /\ IF subscribed /\ conn = "open" THEN Deliver(<<Packet("PUBLISH", Messages + r)>>)
            ELSE UNCHANGED toSub
    /\ UNCHANGED <<clientVars, conn, toBroker, made, subscribed, unreleased, completed, held>>

BrokerDrops ==
    /\ conn = "open" /\ cpc # "off" /\ Faults
    /\ conn' = "eof"
    /\ toSub' \in {toSub, Append(toSub, Packet("DISCONNECT", 0))}
    /\ UNCHANGED <<clientVars, toBroker, brokerVars>>

ConnectionEnds ==
    /\ cpc = "off" /\ conn # "down"
    /\ EndSession
    /\ UNCHANGED <<clientVars, made, completed, asked>>

Finished == cpc = "off" /\ conn = "down" /\ runs = MaxRuns /\ UNCHANGED vars

Next == Start \/ Command \/ Kill \/ BrokerRead \/ BrokerPublish \/ Respond \/ BrokerDrops
        \/ ConnectionEnds \/ Finished

Spec == Init /\ [][Next]_vars

\* The command runs when it can; the broker reads, the responder answers, and the user
\* starts the command again once it has ended.
FairSpec == Spec /\ WF_vars(Command) /\ WF_vars(BrokerRead) /\ WF_vars(Start)
            /\ WF_vars(ConnectionEnds) /\ WF_vars(Respond)

-----------------------------------------------------------------------------
\* What print_message was called with.
Handled == printed \cup swallowed

\* A message the broker no longer sends, because the client acknowledged it to the end or
\* up to a PUBREL that the limit, a lost connection or a kill keeps it from reading, was
\* handed to print_message, or is about to be, or was lost by a kill between acknowledgement
\* and printing.  The wait for the SUBACK skips without acknowledging, and each kill loses
\* one message at most; besides, a message is lost only when stdout itself does not take it.
CompletedIsPrinted ==
    Cardinality((completed \cup unreleased) \ Handled)
      <= kills + (IF cpc = "print" THEN 1 ELSE 0)

\* A run that succeeds has called print_message as often as -n or --max-messages says,
\* whichever is less, and one without either never ends well; no run takes a message more.  (The
\* calls count, not what stdout took.)
LimitIsExact ==
    LET given == ({count} \ {Absent}) \cup (IF command = "sub" THEN {ceiling} \ {0} ELSE {})
    IN  /\ \A n \in given : seen + (IF cpc = "print" THEN 1 ELSE 0) <= n
        /\ exit = "ok" => seen \in given

\* The comment of request.rs: the subscription precedes the request, so no responder is too
\* fast.  Once the broker has taken a request, at any QoS, its answer is handed to
\* print_message unless the run ends first.  (A refused request waits for ever: its
\* acknowledgement is ignored.)
ReplyIsPrinted ==
    \A r \in 1..MaxRuns :
      (cpc = "loop" /\ (held = r \/ r \in asked)) ~> (Messages + r \in Handled \/ cpc = "off")

\* A message that reaches the loop is handed to print_message unless the run ends first.
\* (One that overtakes the SUBACK, the backlog of a resumed session included, is not.)
DeliveredIsPrinted ==
    \A m \in Msgs :
      (/\ cpc = "loop"
       /\ \E i \in DOMAIN toSub : toSub[i].type = "PUBLISH" /\ toSub[i].msg = m)
        ~> (m \in Handled \/ cpc = "off")
=============================================================================
