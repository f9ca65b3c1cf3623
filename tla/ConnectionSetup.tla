-------------------------- MODULE ConnectionSetup --------------------------
(***************************************************************************)
(* From the command line to an open MQTT session, in the build with the    *)
(* features `tls` and `websocket`: clap's checks and the option accessors  *)
(* (src/src/cli.rs), the refusals of each subcommand, Client::connect and  *)
(* handshake (src/src/client.rs), transport::connect with its TLS and      *)
(* WebSocket layers.  `pub`, `sub` and `request` open one connection over  *)
(* Client::connect; `bench` opens several at once, straight over           *)
(* transport::connect and handshake.                                       *)
(*                                                                         *)
(* A command line is the set of options given, with the values that change *)
(* what the code does.  The password file may be rewritten or removed by   *)
(* somebody else at any time.  What the disk and the broker answer is      *)
(* chosen where it is asked for.                                           *)
(***************************************************************************)
EXTENDS Integers, FiniteSets, Sequences

CONSTANTS
    CommandLines,   \* the command lines tried
    BenchTasks,     \* the connections `bench` opens
    MaxEdits        \* bound: changes of the password file while the process runs

\* The options of ConnectionArgs that change what is done, and those of each subcommand.
\* "v5_property" stands for the four options that set a property of the PUBLISH.
ConnectionArgs ==
    {"port", "client_id", "persistent_session", "password", "password_file",
     "tls", "cafile", "cert", "key", "insecure", "websocket",
     "will_topic", "will_payload", "will_qos", "will_retain"}
PubArgs == {"topic", "message", "file", "stdin_lines", "v5_property"}
SubArgs == {"topic"}
RequestArgs == {"topic", "reply_topic", "message"}
Options == ConnectionArgs \cup PubArgs \cup RequestArgs

Rates == {"none", "sound", "out of range", "period too long"}

\* cli.rs: Command, Protocol and the values of --client-id and --max-packet-size.
CommandLine ==
    [command : {"pub", "sub", "request", "bench"}, options : SUBSET Options,
     protocol : {"V5", "V311", "V31"}, emptyId : BOOLEAN, maxPacketSize : Nat,
     malformed : BOOLEAN,    \* a value its parser refuses: QoS 3, a property without =
     serverName : BOOLEAN,   \* whether --broker is a TLS server name
     uri : BOOLEAN,          \* whether ws://, --broker and --port make a URI: an IPv6 address does not
     publishers : Nat,
     rate : Rates]           \* --rate, and whether a publisher's share has a period that fits

ASSUME SetupAssumption ==
    /\ CommandLines \subseteq CommandLine
    /\ BenchTasks # {} /\ IsFiniteSet(BenchTasks)
    /\ MaxEdits \in Nat

PROTOCOL_MAX_PACKET_SIZE == 268435455

VARIABLES
    cl,          \* the command line
    env,         \* whether WISPMQ_PASSWORD is set
    passwordFile,\* what --password-file names: a version of its content, or NoFile
    main,        \* the process: "parse", "check", "running" or "over"
    exit,        \* its exit status: "none", "clap", "err", or "ok" as far as set-up goes
    pc,          \* where each connection is
    dialled,     \* the port each connection dialled, 0 before
    layer,       \* what was wrapped around each socket, innermost first, and how
    sent,        \* the CONNECT of each connection
    warnings     \* warnings printed at most once per process, so far

vars == <<cl, env, passwordFile, main, exit, pc, dialled, layer, sent, warnings>>
taskVars == <<pc, dialled, layer, sent, warnings>>

NoFile == -1
NoConnect == [password |-> <<"nothing sent">>]
Bare == [stack |-> <<>>, warned |-> FALSE, anchors |-> {}, clientAuth |-> FALSE]

Given(option) == option \in cl.options
Tasks == IF cl.command = "bench" THEN BenchTasks ELSE {CHOOSE t \in BenchTasks : TRUE}

Init ==
    /\ cl \in CommandLines /\ env \in BOOLEAN /\ passwordFile \in {NoFile, 0}
    /\ main = "parse" /\ exit = "none"
    /\ pc = [t \in BenchTasks |-> "idle"]
    /\ dialled = [t \in BenchTasks |-> 0]
    /\ layer = [t \in BenchTasks |-> Bare]
    /\ sent = [t \in BenchTasks |-> NoConnect]
    /\ warnings = [readable |-> 0, plaintext |-> 0]

-----------------------------------------------------------------------------
(***************************************************************************)
(* What the options say.                                                   *)
(***************************************************************************)

\* The `requires` attributes of ConnectionArgs.
Requires(option) ==
    CASE option = "persistent_session"   -> {"client_id"}
      [] option \in {"cafile", "insecure"} -> {"tls"}
      [] option = "cert"                 -> {"tls", "key"}
      [] option = "key"                  -> {"tls", "cert"}
      [] option \in {"will_payload", "will_qos", "will_retain"} -> {"will_topic"}
      [] OTHER                           -> {}

\* What a subcommand takes, and what it cannot do without.
Known == ConnectionArgs \cup
    (CASE cl.command = "pub"     -> PubArgs
       [] cl.command = "sub"     -> SubArgs
       [] cl.command = "request" -> RequestArgs
       [] cl.command = "bench"   -> {})
Mandatory ==
    CASE cl.command = "pub"     -> {"topic"}
      [] cl.command = "request" -> {"topic", "reply_topic"}
      [] OTHER                  -> {}

\* The `conflicts_with` attributes.
Conflicts == {{"password", "password_file"}, {"message", "file"},
              {"message", "stdin_lines"}, {"file", "stdin_lines"}}

ClapAccepts ==
    /\ ~cl.malformed
    /\ Mandatory \subseteq cl.options /\ cl.options \subseteq Known
    /\ \A option \in cl.options : Requires(option) \subseteq cl.options
    /\ \A pair \in Conflicts : ~(pair \subseteq cl.options)

HasProperties == cl.protocol = "V5"

\* request::run refuses v3.1, which cannot correlate a reply.
RequestRefuses == cl.command = "request" /\ cl.protocol = "V31"

\* sub::run needs a filter; pub::run refuses v5 options on v3.x; Config::from_args needs
\* a publisher and a rate that is positive, at most MAX_RATE and not too slow to schedule.
SubRefuses == cl.command = "sub" /\ ~Given("topic")
PropertiesRefused == cl.command = "pub" /\ Given("v5_property") /\ ~HasProperties
BenchRefuses == cl.command = "bench" /\
    (cl.publishers = 0 \/ cl.rate \in {"out of range", "period too long"})

CleanStart == ~Given("persistent_session")
Port == IF Given("port") THEN 1884 ELSE IF Given("tls") THEN 8883 ELSE 1883
MaxPacketSizeOk == cl.maxPacketSize \in 1..PROTOCOL_MAX_PACKET_SIZE

\* ConnectionArgs::password: explicit beats ambient.
Password ==
    IF Given("password_file") THEN <<"file", passwordFile>>
    ELSE IF Given("password") THEN <<"typed">>
    ELSE IF env THEN <<"environment">> ELSE <<"none">>
PasswordReadable == Password # <<"file", NoFile>>

\* Mutant: the environment is forgotten.
HasPasswordSourceTyped == Given("password_file") \/ Given("password")

\* ConnectionArgs::has_password_source, which reads nothing.
HasPasswordSource == Given("password_file") \/ Given("password") \/ env

\* ConnectionArgs::will.
Will == Given("will_topic")

\* The client identifier: as given, derived from it per bench task, or generated.
ClientId == IF ~Given("client_id") THEN "generated"
            ELSE IF cl.emptyId /\ cl.command # "bench" THEN "empty" ELSE "chosen"

-----------------------------------------------------------------------------
Warn(kinds) == warnings' = [k \in DOMAIN warnings |->
                              IF k \in kinds THEN warnings[k] + 1 ELSE warnings[k]]
Unwarned(kind) == IF warnings[kind] = 0 THEN {kind} ELSE {}

\* warn_if_readable_by_others, once per process, when the file has loose permission bits.
MayWarnReadable ==
    \/ UNCHANGED warnings
    \/ /\ Given("password_file") /\ passwordFile # NoFile
       /\ Warn(Unwarned("readable"))

Goto(t, place) == pc' = [pc EXCEPT ![t] = place]
Fail(t) == Goto(t, "failed")

\* Cli::parse.
Parse ==
    /\ main = "parse"
    /\ IF ClapAccepts THEN main' = "check" /\ UNCHANGED exit ELSE main' = "over" /\ exit' = "clap"
    /\ UNCHANGED <<cl, env, passwordFile, taskVars>>

\* What a subcommand refuses before it connects; the file of `pub --file` is read here.
CheckCommand ==
    /\ main = "check"
    /\ \/ /\ ~(RequestRefuses \/ SubRefuses \/ PropertiesRefused \/ BenchRefuses)
          /\ main' = "running" /\ UNCHANGED exit
          /\ pc' = [t \in BenchTasks |-> IF t \notin Tasks THEN "idle"
                                         ELSE IF cl.command = "bench" THEN "dial" ELSE "validate"]
       \/ /\ RequestRefuses \/ SubRefuses \/ PropertiesRefused \/ BenchRefuses \/ Given("file")
          /\ main' = "over" /\ exit' = "err" /\ UNCHANGED pc
    /\ UNCHANGED <<cl, env, passwordFile, dialled, layer, sent, warnings>>

\* Mutant: the arguments are left to the handshake.
ValidateNothing(t) ==
    /\ pc[t] = "validate"
    /\ Goto(t, "dial")
    /\ UNCHANGED <<cl, env, passwordFile, main, exit, dialled, layer, sent, warnings>>

\* Client::connect up to the dialling: the identifier, the packet size and a first read
\* of the password.
Validate(t) ==
    /\ pc[t] = "validate"
    /\ LET ok == (CleanStart \/ ClientId # "empty") /\ MaxPacketSizeOk
       IN  /\ Goto(t, IF ok /\ PasswordReadable THEN "dial" ELSE "failed")
           /\ IF ok THEN MayWarnReadable ELSE UNCHANGED warnings
    /\ UNCHANGED <<cl, env, passwordFile, main, exit, dialled, layer, sent>>

\* transport::connect: the warning, then TCP.
Dial(t) ==
    /\ pc[t] = "dial"
    /\ Warn(IF HasPasswordSource /\ ~Given("tls") THEN Unwarned("plaintext") ELSE {})
    /\ dialled' = [dialled EXCEPT ![t] = Port]
    /\ \/ Goto(t, IF Given("tls") THEN "tls" ELSE IF Given("websocket") THEN "ws" ELSE "handshake")
       \/ Fail(t)
    /\ UNCHANGED <<cl, env, passwordFile, main, exit, layer, sent>>

\* Mutant: --cafile adds to the trust store of the system.
RootStoreAdds == {"os"} \cup (IF Given("cafile") THEN {"cafile"} ELSE {})

\* load_root_store: --cafile, or the trust store of the system, never both.
RootStore == IF Given("cafile") THEN {"cafile"} ELSE {"os"}

\* rustls verifies the broker's certificate against the root store; NoServerVerification
\* takes any.
Verified(anchors) == Given("insecure") \/ RootStore \cap anchors # {}

\* build_config: with --cert and --key, the client authenticates (or the run fails).
ClientAuth == Given("cert") /\ Given("key")

\* tls::wrap: the warning of --insecure is printed, for this connection, and the files are
\* read; then --broker must be a server name; any of them or the TLS handshake may fail.
TlsWrap(t) ==
    /\ pc[t] = "tls"
    /\ LET warned == [layer[t] EXCEPT !.warned = Given("insecure")]
       IN  \/ \E anchors \in SUBSET {"cafile", "os"} :
                /\ cl.serverName /\ Verified(anchors)
                /\ layer' = [layer EXCEPT ![t] = [warned EXCEPT !.stack = Append(@, "tls"),
                                                                !.anchors = anchors,
                                                                !.clientAuth = ClientAuth]]
                /\ Goto(t, IF Given("websocket") THEN "ws" ELSE "handshake")
           \/ Fail(t) /\ layer' = [layer EXCEPT ![t] = warned]
    /\ UNCHANGED <<cl, env, passwordFile, main, exit, dialled, sent, warnings>>

\* ws::wrap: --broker must make a URI, then the Upgrade over whatever is connected by now.
WsWrap(t) ==
    /\ pc[t] = "ws"
    /\ \/ /\ cl.uri
          /\ layer' = [layer EXCEPT ![t].stack = Append(@, "ws")]
          /\ Goto(t, "handshake")
       \/ Fail(t) /\ UNCHANGED layer
    /\ UNCHANGED <<cl, env, passwordFile, main, exit, dialled, sent, warnings>>

\* Mutant: a password that cannot be read is no password.
HandshakeUnauthenticated(t) ==
    /\ pc[t] = "handshake" /\ MaxPacketSizeOk
    /\ sent' = [sent EXCEPT ![t] =
                  [password |-> IF PasswordReadable THEN Password ELSE <<"none">>,
                   clientId |-> ClientId, cleanStart |-> CleanStart, will |-> Will,
                   maximumPacketSize |-> cl.maxPacketSize]]
    /\ Goto(t, "connack")
    /\ UNCHANGED <<cl, env, passwordFile, main, exit, dialled, layer, warnings>>

\* handshake: packet size and password once more (the file is read again), the CONNECT,
\* which a broken connection may swallow.
Handshake(t) ==
    /\ pc[t] = "handshake"
    /\ IF MaxPacketSizeOk THEN MayWarnReadable ELSE UNCHANGED warnings
    /\ \/ /\ MaxPacketSizeOk /\ PasswordReadable
          /\ sent' = [sent EXCEPT ![t] =
                        [password |-> Password, clientId |-> ClientId,
                         cleanStart |-> CleanStart, will |-> Will,
                         maximumPacketSize |-> cl.maxPacketSize]]
          /\ Goto(t, "connack")
       \/ Fail(t) /\ UNCHANGED sent
    /\ UNCHANGED <<cl, env, passwordFile, main, exit, dialled, layer>>

\* The CONNACK; a refusal, another packet or the end of the stream fails the connection.
Connack(t) ==
    /\ pc[t] = "connack"
    /\ Goto(t, "ready") \/ Fail(t)
    /\ UNCHANGED <<cl, env, passwordFile, main, exit, dialled, layer, sent, warnings>>

\* main: a failed set-up is a failed command; `bench` first joins every task.
SetupOver ==
    /\ main = "running"
    /\ \A t \in Tasks : pc[t] \in {"ready", "failed"}
    /\ main' = "over"
    /\ exit' = IF \E t \in Tasks : pc[t] = "failed" THEN "err" ELSE "ok"
    /\ UNCHANGED <<cl, env, passwordFile, taskVars>>

\* Somebody rewrites the password file, or removes it (external).
EditPasswordFile ==
    /\ main = "running" /\ Given("password_file")
    /\ passwordFile' \in {passwordFile + 1, NoFile} \ {passwordFile}
    /\ passwordFile' <= MaxEdits
    /\ UNCHANGED <<cl, env, main, exit, taskVars>>

Finished == main = "over" /\ UNCHANGED vars

Task(t) == Validate(t) \/ Dial(t) \/ TlsWrap(t) \/ WsWrap(t) \/ Handshake(t) \/ Connack(t)
Next ==
    \/ Parse \/ CheckCommand \/ SetupOver \/ EditPasswordFile \/ Finished
    \/ \E t \in BenchTasks : Task(t)

Spec == Init /\ [][Next]_vars

-----------------------------------------------------------------------------
(***************************************************************************)
(* Properties.                                                             *)
(***************************************************************************)
SentConnect(t) == sent[t] # NoConnect

\* A CONNECT never carries what the options do not say, though every accessor is called
\* afresh: a legal Maximum Packet Size, a resumable identifier with --persistent-session,
\* a Will when any --will option was given, and a password of the strongest source.  A
\* password file that is gone by the second read never turns into a session without one.
ConnectIsSound ==
    \A t \in BenchTasks : SentConnect(t) =>
      /\ sent[t].maximumPacketSize \in 1..PROTOCOL_MAX_PACKET_SIZE
      /\ ~sent[t].cleanStart => sent[t].clientId = "chosen"
      /\ cl.options \cap {"will_payload", "will_qos", "will_retain"} # {} => sent[t].will
      /\ sent[t].password[1] = "file" <=> Given("password_file")
      /\ sent[t].password # <<"file", NoFile>>
      /\ sent[t].password = <<"typed">> <=> Given("password")
      /\ sent[t].password = <<"none">> => ~env

\* The layers the options ask for, the innermost first.
Asked == IF Given("tls") THEN (IF Given("websocket") THEN <<"tls", "ws">> ELSE <<"tls">>)
         ELSE IF Given("websocket") THEN <<"ws">> ELSE <<>>

\* transport::connect: with --tls no CONNECT leaves outside TLS, and a WebSocket is opened
\* inside the TLS stream, never around it.  The broker the CONNECT goes to was verified
\* against the roots the user chose (the file of --cafile alone when there is one), or this
\* very connection printed the warning of --insecure; --cert is really presented.
PeerIsVerified ==
    \A t \in BenchTasks : SentConnect(t) =>
      /\ layer[t].stack = Asked
      /\ cl.options \cap {"cert", "key"} # {} => layer[t].clientAuth
      /\ Given("tls") =>
           \/ Given("insecure") /\ layer[t].warned
           \/ (IF Given("cafile") THEN "cafile" ELSE "os") \in layer[t].anchors

\* A password crosses the network in the clear only after the warning that says so, by
\* whichever of several connections reaches that point first, and it is said once.
PlaintextIsWarned ==
    /\ \A t \in BenchTasks :
         SentConnect(t) /\ sent[t].password # <<"none">> /\ layer[t].stack \in {<<>>, <<"ws">>}
           => warnings.plaintext = 1
    /\ warnings.plaintext <= 1 /\ warnings.readable <= 1

\* The comments of Client::connect and resolve_properties ("validate", "fail before
\* dialling"): what clap, the subcommand or Client::connect refuses by the options alone never
\* gets as far as a socket: a command line clap does not take, `sub` without a topic, v5
\* options or `request` on a protocol without them, a packet size out of range, an identifier
\* that cannot be resumed, and the publishers and the rate of `bench` (which leaves packet
\* size and password to the handshake).
\* What tls::wrap and ws::wrap refuse by the options alone is dialled first: a --broker
\* that is no server name or makes no URI.  It never gets as far as a CONNECT.
NoDoomedDial ==
    \A t \in BenchTasks :
      /\ dialled[t] # 0 =>
           /\ ClapAccepts
           /\ IF cl.command = "bench" THEN cl.publishers > 0 /\ cl.rate \in {"none", "sound"}
              ELSE /\ MaxPacketSizeOk
                   /\ CleanStart \/ ClientId = "chosen"
                   /\ Given("topic")
                   /\ cl.command = "pub" /\ Given("v5_property") => HasProperties
                   /\ cl.command = "request" => Given("reply_topic") /\ cl.protocol # "V31"
      /\ SentConnect(t) =>
           (Given("tls") => cl.serverName) /\ (Given("websocket") => cl.uri)
=============================================================================
