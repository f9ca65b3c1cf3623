-------------------------- MODULE ConnectionSetupMC --------------------------
(***************************************************************************)
(* Model checking of ConnectionSetup.  Trying every combination of every   *)
(* option is out of reach and unnecessary: options meet in the code in     *)
(* three groups, credentials and identity, TLS and WebSocket, and those of *)
(* publishing and of the Will.  Every combination within a group is tried. *)
(***************************************************************************)
EXTENDS ConnectionSetup

Line(command, options) ==
    [command |-> command, protocol |-> "V5", emptyId |-> FALSE, maxPacketSize |-> 1048576,
     malformed |-> FALSE, serverName |-> TRUE, uri |-> TRUE, publishers |-> 1, rate |-> "none",
     options |-> options \cup (CASE command = "request" -> {"topic", "reply_topic"}
                                 [] command = "bench"   -> {}
                                 [] OTHER               -> {"topic"})]

Credentials ==
    {[Line(c, o) EXCEPT !.emptyId = e, !.maxPacketSize = m] :
       c \in {"pub", "bench"},
       o \in SUBSET {"password", "password_file", "tls", "client_id", "persistent_session"},
       e \in BOOLEAN,
       m \in {0, 1, PROTOCOL_MAX_PACKET_SIZE, PROTOCOL_MAX_PACKET_SIZE + 1}}

Transports ==
    {[Line(c, o) EXCEPT !.serverName = n, !.uri = u] : c \in {"sub", "bench"},
       n \in BOOLEAN, u \in BOOLEAN, o \in SUBSET {"tls", "cafile", "cert", "key", "insecure", "websocket", "password"}}

Publishing ==
    {[Line(c, o) EXCEPT !.protocol = p] :
       c \in {"pub", "request"}, p \in {"V5", "V311", "V31"},
       o \in SUBSET {"message", "file", "stdin_lines", "v5_property", "will_topic",
                     "will_payload", "will_qos", "will_retain"}}

Refused ==
    {[Line("sub", {}) EXCEPT !.malformed = TRUE], [Line("sub", {}) EXCEPT !.options = {}],
     [Line("request", {"port"}) EXCEPT !.options = @ \ {"reply_topic"}],
     [Line("bench", {}) EXCEPT !.publishers = 0],
     [Line("bench", {}) EXCEPT !.rate = "sound"],
     [Line("bench", {}) EXCEPT !.rate = "period too long"], Line("sub", {"port"})}

Tried == Credentials \cup Transports \cup Publishing \cup Refused
=============================================================================
