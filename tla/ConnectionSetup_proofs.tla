----------------------- MODULE ConnectionSetup_proofs -----------------------
(***************************************************************************)
(* Machine-checked proofs about ConnectionSetup: what every CONNECT that   *)
(* leaves the process carries and over which layers it leaves, for every   *)
(* command line and any number of connections that `bench` opens at once.  *)
(***************************************************************************)
EXTENDS ConnectionSetup, TLAPS

-----------------------------------------------------------------------------
(***************************************************************************)
(* The inductive invariant.  None of the four properties is inductive by   *)
(* itself: they speak of a CONNECT that was sent, and what makes it sound  *)
(* was decided by earlier steps, so the invariant records what is known at *)
(* each place of the set-up.                                               *)
(***************************************************************************)
Places == {"idle", "validate", "dial", "tls", "ws", "handshake", "connack", "ready", "failed"}
BeforeTls == {"idle", "validate", "dial", "tls"}
BeforeConnect == BeforeTls \cup {"ws", "handshake"}
Dialled == {"tls", "ws", "handshake", "connack", "ready"}
Wrapped == {"handshake", "connack", "ready"}
Stacks == {<<>>, <<"tls">>, <<"ws">>, <<"tls", "ws">>}
Layers == [stack : Stacks, warned : BOOLEAN, anchors : SUBSET {"cafile", "os"},
           clientAuth : BOOLEAN]
WarningKinds == {"readable", "plaintext"}

CommandRefuses == RequestRefuses \/ SubRefuses \/ PropertiesRefused \/ BenchRefuses
Validated == (CleanStart \/ ClientId # "empty") /\ MaxPacketSizeOk

\* The shape of the state the steps rely on.
SetupType ==
    /\ cl \in CommandLine /\ env \in BOOLEAN /\ passwordFile \in Int
    /\ pc \in [BenchTasks -> Places]
    /\ dialled \in [BenchTasks -> Nat]
    /\ layer \in [BenchTasks -> Layers]
    /\ DOMAIN sent = BenchTasks
    /\ warnings \in [WarningKinds -> Nat]

\* No connection starts before clap and the subcommand accepted the options.
Admitted ==
    /\ main \in {"parse", "check"} => \A t \in BenchTasks : pc[t] = "idle"
    /\ main = "check" => ClapAccepts
    /\ \A t \in BenchTasks :
         /\ pc[t] # "idle" \/ dialled[t] # 0 => ClapAccepts /\ ~CommandRefuses
         /\ pc[t] = "idle" => dialled[t] = 0

\* Client::connect dials only what it validated.
ValidatedFirst ==
    \A t \in BenchTasks :
      cl.command # "bench" /\ (pc[t] \in {"dial"} \cup Dialled \/ dialled[t] # 0) => Validated

\* What surrounds the socket once transport::connect is through with TLS.
TlsSettled(t) ==
    /\ cl.options \cap {"cert", "key"} # {} => layer[t].clientAuth
    /\ Given("tls") =>
         /\ cl.serverName
         /\ \/ Given("insecure") /\ layer[t].warned
            \/ (IF Given("cafile") THEN "cafile" ELSE "os") \in layer[t].anchors
TlsStack == IF Given("tls") THEN <<"tls">> ELSE <<>>

\* Nothing is missing for the CONNECT.
Complete(t) == TlsSettled(t) /\ layer[t].stack = Asked /\ (Given("websocket") => cl.uri)

\* The layers go on one at a time, TLS first, and are complete before the CONNECT.
LayersOf(t) ==
    /\ pc[t] \in BeforeTls => layer[t] = Bare
    /\ pc[t] = "tls" => Given("tls")
    /\ pc[t] = "ws" => TlsSettled(t) /\ Given("websocket") /\ layer[t].stack = TlsStack
    /\ pc[t] \in BeforeConnect => sent[t] = NoConnect
    /\ pc[t] \in Wrapped \/ SentConnect(t) => Complete(t)
LayersInOrder == \A t \in BenchTasks : LayersOf(t)

\* Whoever is past the dialling knows that the warning is out.
WarnedByDial ==
    /\ \A t \in BenchTasks :
         /\ (pc[t] \in Dialled \/ SentConnect(t)) /\ HasPasswordSource /\ ~Given("tls")
              => warnings["plaintext"] = 1
         /\ SentConnect(t) /\ sent[t].password # <<"none">> => HasPasswordSource
    /\ warnings["plaintext"] <= 1 /\ warnings["readable"] <= 1

SetupInv ==
    /\ SetupType /\ Admitted /\ ValidatedFirst /\ LayersInOrder
    /\ WarnedByDial /\ ConnectIsSound

-----------------------------------------------------------------------------
(***************************************************************************)
(* What the options say, for the proofs.                                   *)
(***************************************************************************)

\* The options never change, so what is decided from them stays decided.
LEMMA OptionsStay ==
  ASSUME cl' = cl, env' = env
  PROVE  /\ \A o : Given(o)' <=> Given(o)
         /\ ClapAccepts' <=> ClapAccepts
         /\ CommandRefuses' <=> CommandRefuses
         /\ Validated' <=> Validated
         /\ HasPasswordSource' <=> HasPasswordSource
         /\ TlsStack' = TlsStack /\ Asked' = Asked
<1>1. \A o : Given(o)' <=> Given(o)
  BY DEF Given
<1>2. ClapAccepts' <=> ClapAccepts
  BY DEF ClapAccepts, Mandatory, Known
<1>3. CommandRefuses' <=> CommandRefuses
  BY DEF CommandRefuses, RequestRefuses, SubRefuses, PropertiesRefused, BenchRefuses,
         HasProperties, Given
<1>4. Validated' <=> Validated
  BY DEF Validated, CleanStart, ClientId, MaxPacketSizeOk, Given
<1>5. HasPasswordSource' <=> HasPasswordSource
  BY DEF HasPasswordSource, Given
<1>6. TlsStack' = TlsStack /\ Asked' = Asked
  BY DEF TlsStack, Asked, Given
<1> QED
  BY <1>1, <1>2, <1>3, <1>4, <1>5, <1>6

\* What clap's `requires` and `conflicts_with` leave.
LEMMA ClapConsequences ==
  ASSUME ClapAccepts
  PROVE  /\ Given("persistent_session") => Given("client_id")
         /\ cl.options \cap {"will_payload", "will_qos", "will_retain"} # {} => Given("will_topic")
         /\ Given("cafile") \/ Given("insecure") => Given("tls")
         /\ cl.options \cap {"cert", "key"} # {} => Given("tls") /\ Given("cert") /\ Given("key")
         /\ ~(Given("password") /\ Given("password_file"))
         /\ cl.command \in {"pub", "request"} => Given("topic")
         /\ cl.command = "request" => Given("reply_topic")
<1>1. \A option \in cl.options : Requires(option) \subseteq cl.options
  BY DEF ClapAccepts
<1>2. /\ Requires("persistent_session") = {"client_id"}
      /\ Requires("cafile") = {"tls"} /\ Requires("insecure") = {"tls"}
      /\ Requires("cert") = {"tls", "key"} /\ Requires("key") = {"tls", "cert"}
      /\ Requires("will_payload") = {"will_topic"}
      /\ Requires("will_qos") = {"will_topic"} /\ Requires("will_retain") = {"will_topic"}
  BY DEF Requires
<1>3. ~({"password", "password_file"} \subseteq cl.options)
  BY DEF ClapAccepts, Conflicts
<1>4. /\ cl.command \in {"pub", "request"} => Given("topic")
      /\ cl.command = "request" => Given("reply_topic")
  BY DEF ClapAccepts, Mandatory, Given
<1> QED
  BY <1>1, <1>2, <1>3, <1>4 DEF Given

\* With --persistent-session, validated options name the client; a task of `bench` does
\* so by itself, since its identifier is the given one and the number of the task.
LEMMA ResumableIsChosen ==
  ASSUME ClapAccepts, cl.command # "bench" => Validated, ~CleanStart PROVE ClientId = "chosen"
BY ClapConsequences DEF Validated, CleanStart, ClientId

\* Appending to a sequence.
LEMMA AppendGives ==
  ASSUME NEW S, NEW q \in Seq(S), NEW e \in S
  PROVE  /\ Append(q, e) \in Seq(S) /\ Len(Append(q, e)) = Len(q) + 1 /\ Append(q, e)[Len(q) + 1] = e
         /\ \A i \in 1..Len(q) : Append(q, e)[i] = q[i]
OBVIOUS

\* A layer goes around what is there.
LEMMA LayersAdd ==
  /\ Append(<<>>, "tls") = <<"tls">> /\ Append(<<>>, "ws") = <<"ws">>
  /\ Append(<<"tls">>, "ws") = <<"tls", "ws">>
  /\ <<"tls">> \notin {<<>>, <<"ws">>} /\ <<"tls", "ws">> \notin {<<>>, <<"ws">>}
<1>1. Append(<<>>, "tls") = <<"tls">> /\ Append(<<>>, "ws") = <<"ws">>
  OBVIOUS
<1> DEFINE S == {"tls", "ws"}
           a == <<"tls">>
           b == Append(a, "ws")
           c == <<"tls", "ws">>
           d == <<"ws">>
<1>0. a \in Seq(S) /\ "ws" \in S
  OBVIOUS
<1>2. Len(a) = 1 /\ a[1] = "tls"
  OBVIOUS
<1>3. c \in Seq(S) /\ Len(c) = 2 /\ c[1] = "tls" /\ c[2] = "ws" /\ d[1] = "ws" 
  OBVIOUS
<1>7. a # <<>> /\ c # <<>>
  OBVIOUS
<1> HIDE DEF S, a
<1>4. /\ b \in Seq(S) /\ Len(b) = Len(a) + 1 /\ b[Len(a) + 1] = "ws"
      /\ \A i \in 1..Len(a) : b[i] = a[i]
  BY <1>0, AppendGives
<1> HIDE DEF b, c, d
<1>5. Len(b) = 2 /\ \A i \in 1..2 : b[i] = c[i]
  BY <1>2, <1>3, <1>4
<1>6. b = c
  BY <1>3, <1>4, <1>5
<1>8. a # d /\ c # d
  BY <1>2, <1>3
<1> QED
  BY <1>1, <1>6, <1>7, <1>8 DEF a, b, c, d

\* tls::wrap on a bare socket.
LEMMA TlsLayer ==
  ASSUME NEW warned \in BOOLEAN, NEW anchors, NEW auth
  PROVE  [[Bare EXCEPT !.warned = warned] EXCEPT !.stack = Append(@, "tls"), !.anchors = anchors,
                                                 !.clientAuth = auth]
           = [stack |-> <<"tls">>, warned |-> warned, anchors |-> anchors, clientAuth |-> auth]
<1> DEFINE w == [Bare EXCEPT !.warned = warned]
           k == [stack |-> <<"tls">>, warned |-> warned, anchors |-> anchors, clientAuth |-> auth]
           m == [w EXCEPT !.stack = Append(@, "tls"), !.anchors = anchors, !.clientAuth = auth]
           Fields == {"stack", "warned", "anchors", "clientAuth"}
<1>1. /\ w = [f \in Fields |-> w[f]]
      /\ w.stack = <<>> /\ w.warned = warned
  BY DEF Bare
<1> HIDE DEF w
<1>2. /\ m = [f \in Fields |-> m[f]]
      /\ m.stack = Append(w.stack, "tls") /\ m.warned = w.warned /\ m.anchors = anchors /\ m.clientAuth = auth
  BY <1>1
<1>3. /\ k = [f \in Fields |-> k[f]]
      /\ k.stack = <<"tls">> /\ k.warned = warned /\ k.anchors = anchors /\ k.clientAuth = auth
  OBVIOUS
<1> HIDE DEF m, k
<1>4. m.stack = <<"tls">>
  BY <1>1, <1>2, LayersAdd
<1>5. \A f \in Fields : m[f] = k[f]
  BY <1>1, <1>2, <1>3, <1>4
<1>6. m = k
  BY <1>2, <1>3, <1>5
<1> QED
  BY <1>6 DEF m, k, w

\* What the options ask for, case by case.
LEMMA AskedLayers ==
  /\ ~Given("websocket") => Asked = TlsStack
  /\ Given("websocket") => Asked = Append(TlsStack, "ws")
  /\ Given("tls") => TlsStack = <<"tls">> /\ Asked \notin {<<>>, <<"ws">>}
  /\ ~Given("tls") => TlsStack = <<>>
  /\ TlsStack \in Stacks /\ Append(TlsStack, "ws") \in Stacks
<1>1. CASE Given("tls")
  BY <1>1, LayersAdd, Zenon DEF Asked, TlsStack, Stacks
<1>2. CASE ~Given("tls")
  BY <1>2, LayersAdd, Zenon DEF Asked, TlsStack, Stacks
<1> QED
  BY <1>1, <1>2

\* Printing a warning counts that kind and no other.
LEMMA WarnCounts ==
  ASSUME NEW kinds \in SUBSET WarningKinds, warnings \in [WarningKinds -> Nat], Warn(kinds)
  PROVE  /\ warnings' \in [WarningKinds -> Nat]
         /\ \A k \in WarningKinds :
              warnings'[k] = IF k \in kinds THEN warnings[k] + 1 ELSE warnings[k]
BY DEF Warn

\* The warning about the password file is printed once and touches no other.
LEMMA ReadableOnce ==
  ASSUME warnings \in [WarningKinds -> Nat], MayWarnReadable
  PROVE  /\ warnings' \in [WarningKinds -> Nat]
         /\ warnings["readable"] <= 1 => warnings'["readable"] <= 1
         /\ warnings'["plaintext"] = warnings["plaintext"]
<1>1. CASE UNCHANGED warnings
  BY <1>1
<1>2. CASE Warn(Unwarned("readable"))
  <2>1. Unwarned("readable") \in SUBSET WarningKinds
    BY DEF Unwarned, WarningKinds
  <2> QED
    BY <1>2, <2>1, WarnCounts DEF Unwarned, WarningKinds
<1> QED
  BY <1>1, <1>2 DEF MayWarnReadable

-----------------------------------------------------------------------------
(***************************************************************************)
(* The steps.                                                              *)
(***************************************************************************)
\* A process that has not parsed its arguments has dialled nothing.
LEMMA SetupInit == Init => SetupInv
<1> SUFFICES ASSUME Init PROVE SetupInv
  OBVIOUS
<1> USE DEF Init
<1>1. SetupType
  BY SetupAssumption DEF SetupType, Places, Layers, Stacks, Bare, WarningKinds, NoFile
<1>2. Admitted /\ ValidatedFirst
  BY DEF Admitted, ValidatedFirst, Dialled
<1>3. \A t \in BenchTasks : layer[t] = Bare /\ sent[t] = NoConnect /\ pc[t] = "idle"
  OBVIOUS
<1>4. LayersInOrder
  BY <1>3 DEF LayersInOrder, LayersOf, Wrapped, SentConnect
<1>5. WarnedByDial
  BY <1>3 DEF WarnedByDial, Dialled, SentConnect
<1>7. ConnectIsSound
  BY <1>3 DEF ConnectIsSound, SentConnect
<1> QED
  BY <1>1, <1>2, <1>4, <1>5, <1>7 DEF SetupInv

\* A step that leaves the connections alone keeps everything but Admitted.
LEMMA TasksStay ==
  ASSUME SetupInv, UNCHANGED <<cl, env, taskVars>>, passwordFile' \in Int, Admitted'
  PROVE  SetupInv'
<1> USE DEF taskVars
<1>1. SetupType'
  BY DEF SetupInv, SetupType
<1>2. ValidatedFirst'
  BY OptionsStay DEF SetupInv, ValidatedFirst
<1>3. LayersInOrder'
  BY OptionsStay DEF SetupInv, LayersInOrder, LayersOf, Complete, TlsSettled, SentConnect
<1>4. WarnedByDial'
  BY OptionsStay DEF SetupInv, WarnedByDial, SentConnect
<1>6. ConnectIsSound'
  BY OptionsStay DEF SetupInv, ConnectIsSound, SentConnect
<1> QED
  BY <1>1, <1>2, <1>3, <1>4, <1>6 DEF SetupInv

\* Cli::parse settles the arguments.
LEMMA ParseKeeps == ASSUME SetupInv, Parse PROVE SetupInv'
<1>1. Admitted'
  BY OptionsStay DEF SetupInv, Admitted, Parse, taskVars
<1> QED
  BY <1>1, TasksStay DEF Parse, SetupInv, SetupType

\* A process that ended stays ended.
LEMMA SetupOverKeeps == ASSUME SetupInv, SetupOver PROVE SetupInv'
<1>1. Admitted'
  BY OptionsStay DEF SetupInv, Admitted, SetupOver, taskVars
<1> QED
  BY <1>1, TasksStay DEF SetupOver, SetupInv, SetupType

\* The password file may change under a running process.
LEMMA EditKeeps == ASSUME SetupInv, EditPasswordFile PROVE SetupInv'
<1>1. Admitted'
  BY OptionsStay DEF SetupInv, Admitted, EditPasswordFile, taskVars
<1>2. passwordFile' \in Int
  BY DEF SetupInv, SetupType, EditPasswordFile, NoFile
<1> QED
  BY <1>1, <1>2, TasksStay DEF EditPasswordFile

\* A step that changes nothing.
LEMMA StutterKeeps == ASSUME SetupInv, UNCHANGED vars PROVE SetupInv'
<1>1. Admitted'
  BY OptionsStay DEF SetupInv, Admitted, vars
<1> QED
  BY <1>1, TasksStay DEF vars, taskVars, SetupInv, SetupType

\* The checks a command makes before it connects.
LEMMA CheckCommandKeeps == ASSUME SetupInv, CheckCommand PROVE SetupInv'
<1> USE DEF CheckCommand
<1>1. CASE main' = "over" /\ UNCHANGED pc
  <2>1. Admitted'
    BY <1>1, OptionsStay DEF SetupInv, Admitted
  <2> QED
    BY <1>1, <2>1, TasksStay DEF taskVars, SetupInv, SetupType
<1>2. CASE main' = "running" /\ ~CommandRefuses /\
           pc' = [t \in BenchTasks |-> IF t \notin Tasks THEN "idle"
                                       ELSE IF cl.command = "bench" THEN "dial" ELSE "validate"]
  <2>1. \A t \in BenchTasks :
          /\ pc[t] = "idle" /\ pc'[t] \in {"idle", "validate", "dial"}
          /\ pc'[t] = "dial" => cl.command = "bench"
          /\ dialled[t] = 0 /\ layer[t] = Bare /\ sent[t] = NoConnect
    BY <1>2 DEF SetupInv, Admitted, LayersInOrder, LayersOf, BeforeTls, BeforeConnect
  <2>2. SetupType'
    BY <1>2, <2>1 DEF SetupInv, SetupType, Places
  <2>3. Admitted'
    BY <1>2, <2>1, OptionsStay DEF SetupInv, Admitted
  <2>4. ValidatedFirst'
    BY <2>1 DEF ValidatedFirst, Dialled
  <2>5. LayersInOrder'
    BY <2>1 DEF LayersInOrder, LayersOf, Wrapped, SentConnect
  <2>6. WarnedByDial'
    BY <2>1, OptionsStay DEF SetupInv, WarnedByDial, Dialled, SentConnect
  <2>8. ConnectIsSound'
    BY <2>1 DEF ConnectIsSound, SentConnect
  <2> QED
    BY <2>2, <2>3, <2>4, <2>5, <2>6, <2>8 DEF SetupInv
<1> QED
  BY <1>1, <1>2 DEF CommandRefuses

\* A connection that moves on, from any place but "idle", and whose options are unchanged
\* keeps what was settled before it started.
LEMMA MoveKeeps ==
  ASSUME SetupInv, NEW t \in BenchTasks, NEW place \in Places \ {"idle"},
         pc[t] # "idle", Goto(t, place), UNCHANGED <<cl, env, passwordFile, main>>
  PROVE  /\ pc' \in [BenchTasks -> Places]
         /\ pc'[t] = place /\ \A u \in BenchTasks \ {t} : pc'[u] = pc[u]
         /\ ClapAccepts /\ ~CommandRefuses /\ main \notin {"parse", "check"}
         /\ dialled' = dialled => Admitted'
<1>1. /\ pc' \in [BenchTasks -> Places]
      /\ pc'[t] = place /\ \A u \in BenchTasks \ {t} : pc'[u] = pc[u]
  BY DEF SetupInv, SetupType, Goto
<1>2. ClapAccepts /\ ~CommandRefuses /\ main \notin {"parse", "check"}
  BY DEF SetupInv, Admitted
<1>3. dialled' = dialled => Admitted'
  BY <1>1, <1>2, OptionsStay DEF SetupInv, Admitted
<1> QED
  BY <1>1, <1>2, <1>3

\* Client::connect validates, or fails, before anything else of the connection happens.
LEMMA ValidateKeeps == ASSUME SetupInv, NEW t \in BenchTasks, Validate(t) PROVE SetupInv'
<1>0. UNCHANGED <<cl, env, passwordFile, main, dialled, layer, sent>> /\ pc[t] = "validate"
  BY DEF Validate
<1>1. PICK place \in {"dial", "failed"} : Goto(t, place) /\ (place = "dial" => Validated)
  BY DEF Validate, Validated
<1>2. /\ warnings' \in [WarningKinds -> Nat] /\ warnings'["readable"] <= 1
      /\ warnings'["plaintext"] = warnings["plaintext"]
  BY ReadableOnce DEF Validate, SetupInv, SetupType, WarnedByDial, WarningKinds
<1>3. /\ pc' \in [BenchTasks -> Places]
      /\ pc'[t] = place /\ \A u \in BenchTasks \ {t} : pc'[u] = pc[u]
      /\ ClapAccepts /\ ~CommandRefuses /\ Admitted'
  BY <1>0, <1>1, MoveKeeps DEF Places
<1>4. layer[t] = Bare /\ sent[t] = NoConnect
  BY <1>0 DEF SetupInv, LayersInOrder, LayersOf, BeforeTls, BeforeConnect
<1>5. SetupType'
  BY <1>0, <1>2, <1>3 DEF SetupInv, SetupType
<1>6. ValidatedFirst'
  BY <1>0, <1>1, <1>3, OptionsStay DEF SetupInv, ValidatedFirst, Dialled
<1>7. LayersInOrder'
  BY <1>0, <1>3, <1>4, OptionsStay
     DEF SetupInv, LayersInOrder, LayersOf, Complete, TlsSettled, SentConnect, Wrapped
<1>8. WarnedByDial'
  BY <1>0, <1>2, <1>3, <1>4, OptionsStay DEF SetupInv, WarnedByDial, Dialled, SentConnect
<1>10. ConnectIsSound'
  BY <1>0, OptionsStay DEF SetupInv, ConnectIsSound, SentConnect
<1> QED
  BY <1>3, <1>5, <1>6, <1>7, <1>8, <1>10 DEF SetupInv

\* transport::connect prints its warning, if it is due and not out yet, before TCP.
LEMMA DialKeeps == ASSUME SetupInv, NEW t \in BenchTasks, Dial(t) PROVE SetupInv'
<1> DEFINE due == IF HasPasswordSource /\ ~Given("tls") THEN Unwarned("plaintext") ELSE {}
<1>0. /\ UNCHANGED <<cl, env, passwordFile, main, layer, sent>> /\ pc[t] = "dial"
      /\ Warn(due) /\ dialled' = [dialled EXCEPT ![t] = Port]
  BY DEF Dial
<1>1. PICK place \in {"tls", "ws", "handshake", "failed"} :
        /\ Goto(t, place)
        /\ place = "tls" => Given("tls")
        /\ place \in {"ws", "handshake"} => ~Given("tls")
        /\ place = "ws" => Given("websocket")
        /\ place = "handshake" => ~Given("websocket")
  BY DEF Dial, Fail
<1>2. /\ warnings' \in [WarningKinds -> Nat]
      /\ warnings'["readable"] = warnings["readable"]
      /\ warnings'["plaintext"] <= 1
      /\ HasPasswordSource /\ ~Given("tls") => warnings'["plaintext"] = 1
      /\ warnings["plaintext"] = 1 => warnings'["plaintext"] = 1
  <2>1. due \in SUBSET WarningKinds
    BY DEF Unwarned, WarningKinds
  <2>2. warnings \in [WarningKinds -> Nat] /\ warnings["plaintext"] <= 1
    BY DEF SetupInv, SetupType, WarnedByDial
  <2>3. /\ warnings' \in [WarningKinds -> Nat]
        /\ \A k \in WarningKinds :
             warnings'[k] = IF k \in due THEN warnings[k] + 1 ELSE warnings[k]
    <3> HIDE DEF due
    <3> QED BY <1>0, <2>1, <2>2, WarnCounts
  <2> QED
    BY <2>2, <2>3 DEF Unwarned, WarningKinds
<1>3. /\ pc' \in [BenchTasks -> Places]
      /\ pc'[t] = place /\ \A u \in BenchTasks \ {t} : pc'[u] = pc[u]
      /\ ClapAccepts /\ ~CommandRefuses /\ main \notin {"parse", "check"}
  BY <1>0, <1>1, MoveKeeps DEF Places
<1>4. layer[t] = Bare /\ sent[t] = NoConnect
  BY <1>0 DEF SetupInv, LayersInOrder, LayersOf, BeforeTls, BeforeConnect
<1>5. Port \in Nat
  BY DEF Port
<1>6. SetupType'
  BY <1>0, <1>2, <1>3, <1>5 DEF SetupInv, SetupType
<1>7. \A u \in BenchTasks \ {t} : dialled'[u] = dialled[u]
  BY <1>0 DEF SetupInv, SetupType
<1>8. Admitted'
  BY <1>0, <1>1, <1>3, <1>7, OptionsStay DEF SetupInv, Admitted
<1>9. ValidatedFirst'
  BY <1>0, <1>3, <1>7, OptionsStay DEF SetupInv, ValidatedFirst
<1>10. ~Given("tls") => TlsSettled(t)' /\ layer'[t].stack = TlsStack'
  BY <1>0, <1>3, <1>4, ClapConsequences, AskedLayers, OptionsStay DEF TlsSettled, Bare
<1>13. place = "handshake" => Complete(t)'
  BY <1>0, <1>1, <1>10, AskedLayers, OptionsStay DEF Complete
<1>11. LayersInOrder'
  <2>1. ASSUME NEW u \in BenchTasks \ {t}
        PROVE  LayersOf(u)'
    BY <1>0, <1>3, <2>1, OptionsStay DEF SetupInv, LayersInOrder, LayersOf, Complete, TlsSettled, SentConnect
  <2>2. LayersOf(t)'
    BY <1>0, <1>1, <1>3, <1>4, <1>10, <1>13, OptionsStay DEF LayersOf, Wrapped, SentConnect
  <2> QED
    BY <2>1, <2>2 DEF LayersInOrder
<1>12. WarnedByDial'
  BY <1>0, <1>2, <1>3, <1>4, OptionsStay DEF SetupInv, WarnedByDial, Dialled, SentConnect
<1>14. ConnectIsSound'
  BY <1>0, OptionsStay DEF SetupInv, ConnectIsSound, SentConnect
<1> QED
  BY <1>6, <1>8, <1>9, <1>11, <1>12, <1>14 DEF SetupInv

\* tls::wrap goes on only with a verified peer, or after the warning of --insecure.
LEMMA TlsWrapKeeps == ASSUME SetupInv, NEW t \in BenchTasks, TlsWrap(t) PROVE SetupInv'
<1>0. /\ UNCHANGED <<cl, env, passwordFile, main, dialled, sent, warnings>> /\ pc[t] = "tls"
  BY DEF TlsWrap
<1>1. /\ layer[t] = Bare /\ sent[t] = NoConnect /\ Given("tls")
      /\ cl.command # "bench" => Validated
  BY <1>0 DEF SetupInv, LayersInOrder, LayersOf, BeforeTls, BeforeConnect, ValidatedFirst, Dialled
<1> DEFINE warned == [layer[t] EXCEPT !.warned = Given("insecure")]
           Moved(place, l) ==
             /\ Goto(t, place) /\ layer' = [layer EXCEPT ![t] = l]
             /\ place = "ws" => Given("websocket")
             /\ place = "handshake" => ~Given("websocket")
             /\ place # "failed" => /\ l.stack = <<"tls">> /\ l.clientAuth = ClientAuth
                                   /\ (Given("insecure") => l.warned)
                                   /\ cl.serverName /\ Verified(l.anchors)
<1>2. Given("insecure") \in BOOLEAN /\ ClientAuth \in BOOLEAN
  BY DEF Given, ClientAuth
<1>3. PICK place \in {"ws", "handshake", "failed"}, l \in Layers : Moved(place, l)
  <2>0. warned = [Bare EXCEPT !.warned = Given("insecure")]
    BY <1>1
  <2>1. CASE Fail(t) /\ layer' = [layer EXCEPT ![t] = warned]
    <3>1. warned \in Layers
      BY <1>2, <2>0 DEF Layers, Bare, Stacks
    <3> HIDE DEF warned
    <3> QED
      BY <2>1, <3>1 DEF Fail
  <2>2. ASSUME NEW anchors \in SUBSET {"cafile", "os"}, cl.serverName, Verified(anchors),
               layer' = [layer EXCEPT ![t] = [warned EXCEPT !.stack = Append(@, "tls"),
                                                            !.anchors = anchors,
                                                            !.clientAuth = ClientAuth]],
               Goto(t, IF Given("websocket") THEN "ws" ELSE "handshake")
        PROVE  \E place \in {"ws", "handshake"}, l \in Layers : Moved(place, l)
    <3> DEFINE k == [stack |-> <<"tls">>, warned |-> Given("insecure"), anchors |-> anchors,
                     clientAuth |-> ClientAuth]
    <3>1. [warned EXCEPT !.stack = Append(@, "tls"), !.anchors = anchors, !.clientAuth = ClientAuth] = k
      <4>1. [[Bare EXCEPT !.warned = Given("insecure")] EXCEPT !.stack = Append(@, "tls"),
                                                               !.anchors = anchors,
                                                               !.clientAuth = ClientAuth] = k
        BY <1>2, TlsLayer, Zenon
      <4> HIDE DEF warned, k
      <4> QED
        BY <2>0, <4>1, Zenon
    <3>2. layer' = [layer EXCEPT ![t] = k]
      BY <2>2, <3>1, Zenon
    <3>3. /\ k \in Layers /\ k.stack = <<"tls">> /\ k.anchors = anchors
          /\ k.clientAuth = ClientAuth /\ k.warned = Given("insecure")
      BY <1>2 DEF Layers, Stacks
    <3> HIDE DEF k
    <3>4. Moved(IF Given("websocket") THEN "ws" ELSE "handshake", k)
      BY <2>2, <3>2, <3>3
    <3> QED
      BY <3>3, <3>4
  <2> QED
    BY <2>1, <2>2 DEF TlsWrap
<1>4. /\ pc' \in [BenchTasks -> Places]
      /\ pc'[t] = place /\ \A u \in BenchTasks \ {t} : pc'[u] = pc[u]
      /\ ClapAccepts /\ ~CommandRefuses /\ Admitted'
  BY <1>0, <1>3, MoveKeeps DEF Places
<1>5. layer'[t] = l /\ \A u \in BenchTasks \ {t} : layer'[u] = layer[u]
  BY <1>3 DEF SetupInv, SetupType
<1>6. SetupType'
  BY <1>0, <1>3, <1>4 DEF SetupInv, SetupType
<1>7. ValidatedFirst'
  BY <1>0, <1>1, <1>4, OptionsStay DEF SetupInv, ValidatedFirst
<1>8. place # "failed" => TlsSettled(t)'
  <2> SUFFICES ASSUME place # "failed" PROVE TlsSettled(t)'
    OBVIOUS
  <2>1. /\ layer'[t].clientAuth = ClientAuth /\ cl.serverName
        /\ Verified(layer'[t].anchors) /\ (Given("insecure") => layer'[t].warned)
    BY <1>3, <1>5
  <2>2. cl.options \cap {"cert", "key"} # {} => layer'[t].clientAuth
    BY <1>4, <2>1, ClapConsequences DEF ClientAuth
  <2>3. \/ Given("insecure") /\ layer'[t].warned
        \/ (IF Given("cafile") THEN "cafile" ELSE "os") \in layer'[t].anchors
    BY <2>1 DEF Verified, RootStore
  <2> QED
    BY <1>0, <1>1, <2>1, <2>2, <2>3, OptionsStay DEF TlsSettled
<1>a. place # "failed" => layer'[t].stack = TlsStack' /\ TlsStack' = <<"tls">>
  BY <1>0, <1>1, <1>3, <1>5, AskedLayers, OptionsStay
<1>b. place = "handshake" => Complete(t)'
  BY <1>0, <1>3, <1>8, <1>a, AskedLayers, OptionsStay DEF Complete
<1>9. LayersInOrder'
  <2>1. ASSUME NEW u \in BenchTasks \ {t}
        PROVE  LayersOf(u)'
    BY <1>0, <1>4, <1>5, <2>1, OptionsStay
       DEF SetupInv, LayersInOrder, LayersOf, Complete, TlsSettled, SentConnect
  <2>2. LayersOf(t)'
    BY <1>0, <1>1, <1>3, <1>4, <1>8, <1>a, <1>b, OptionsStay
       DEF LayersOf, BeforeTls, Wrapped, SentConnect
  <2> QED
    BY <2>1, <2>2 DEF LayersInOrder
<1>10. WarnedByDial'
  BY <1>0, <1>1, <1>4, OptionsStay DEF SetupInv, WarnedByDial, Dialled, SentConnect
<1>12. ConnectIsSound'
  BY <1>0, OptionsStay DEF SetupInv, ConnectIsSound, SentConnect
<1> QED
  BY <1>4, <1>6, <1>7, <1>9, <1>10, <1>12 DEF SetupInv

\* ws::wrap goes on over whatever TLS left.
LEMMA WsWrapKeeps == ASSUME SetupInv, NEW t \in BenchTasks, WsWrap(t) PROVE SetupInv'
<1>0. /\ UNCHANGED <<cl, env, passwordFile, main, dialled, sent, warnings>> /\ pc[t] = "ws"
  BY DEF WsWrap
<1>1. /\ TlsSettled(t) /\ Given("websocket") /\ layer[t].stack = TlsStack /\ sent[t] = NoConnect
      /\ HasPasswordSource /\ ~Given("tls") => warnings["plaintext"] = 1
      /\ cl.command # "bench" => Validated
  BY <1>0 DEF SetupInv, LayersInOrder, LayersOf, BeforeConnect, ValidatedFirst, WarnedByDial, Dialled
<1>2. PICK place \in {"handshake", "failed"} :
        /\ Goto(t, place)
        /\ place = "failed" => layer' = layer
        /\ place = "handshake" => cl.uri /\ layer' = [layer EXCEPT ![t].stack = Append(@, "ws")]
  BY DEF WsWrap, Fail
<1>3. /\ pc' \in [BenchTasks -> Places]
      /\ pc'[t] = place /\ \A u \in BenchTasks \ {t} : pc'[u] = pc[u]
      /\ Admitted'
  BY <1>0, <1>2, MoveKeeps DEF Places
<1>4. /\ layer' \in [BenchTasks -> Layers]
      /\ \A u \in BenchTasks \ {t} : layer'[u] = layer[u]
      /\ layer'[t].anchors = layer[t].anchors /\ layer'[t].warned = layer[t].warned
      /\ layer'[t].clientAuth = layer[t].clientAuth
      /\ place = "handshake" => layer'[t].stack = Append(layer[t].stack, "ws")
  <2>1. layer \in [BenchTasks -> Layers] /\ layer[t] \in Layers
    BY DEF SetupInv, SetupType
  <2>2. CASE place = "failed"
    BY <1>2, <2>1, <2>2
  <2>3. CASE place = "handshake"
    <3> DEFINE k == [layer[t] EXCEPT !.stack = Append(@, "ws")]
    <3>1. layer' = [layer EXCEPT ![t] = k]
      BY <1>2, <2>3
    <3>2. /\ k.anchors = layer[t].anchors /\ k.warned = layer[t].warned
          /\ k.clientAuth = layer[t].clientAuth /\ k.stack = Append(layer[t].stack, "ws")
          /\ layer[t].stack = TlsStack => k \in Layers
      BY <2>1, AskedLayers DEF Layers
    <3> HIDE DEF k
    <3> QED
      BY <1>1, <2>1, <3>1, <3>2
  <2> QED
    BY <2>2, <2>3
<1>5. SetupType'
  BY <1>0, <1>3, <1>4 DEF SetupInv, SetupType
<1>6. ValidatedFirst'
  BY <1>0, <1>1, <1>3, OptionsStay DEF SetupInv, ValidatedFirst
<1>7. TlsSettled(t)'
  BY <1>0, <1>1, <1>4, OptionsStay DEF TlsSettled
<1>10. place = "handshake" => Complete(t)'
  BY <1>0, <1>1, <1>2, <1>4, <1>7, AskedLayers, OptionsStay DEF Complete
<1>8. LayersInOrder'
  <2>1. ASSUME NEW u \in BenchTasks \ {t}
        PROVE  LayersOf(u)'
    BY <1>0, <1>3, <1>4, <2>1, OptionsStay
       DEF SetupInv, LayersInOrder, LayersOf, Complete, TlsSettled, SentConnect
  <2>2. LayersOf(t)'
    BY <1>0, <1>1, <1>3, <1>10, OptionsStay DEF LayersOf, BeforeTls, Wrapped, SentConnect
  <2> QED
    BY <2>1, <2>2 DEF LayersInOrder
<1>9. WarnedByDial'
  BY <1>0, <1>1, <1>3, OptionsStay DEF SetupInv, WarnedByDial, Dialled, SentConnect
<1>11. ConnectIsSound'
  BY <1>0, OptionsStay DEF SetupInv, ConnectIsSound, SentConnect
<1> QED
  BY <1>3, <1>5, <1>6, <1>8, <1>9, <1>11 DEF SetupInv

\* The CONNACK settles nothing that the properties speak of.
LEMMA ConnackKeeps == ASSUME SetupInv, NEW t \in BenchTasks, Connack(t) PROVE SetupInv'
<1>0. UNCHANGED <<cl, env, passwordFile, main, dialled, layer, sent, warnings>> /\ pc[t] = "connack"
  BY DEF Connack
<1>1. PICK place \in {"ready", "failed"} : Goto(t, place)
  BY DEF Connack, Fail
<1>2. /\ pc' \in [BenchTasks -> Places]
      /\ pc'[t] = place /\ \A u \in BenchTasks \ {t} : pc'[u] = pc[u]
      /\ Admitted'
  BY <1>0, <1>1, MoveKeeps DEF Places
<1>3. SetupType'
  BY <1>0, <1>2 DEF SetupInv, SetupType
<1>4. ValidatedFirst'
  BY <1>0, <1>2, OptionsStay DEF SetupInv, ValidatedFirst, Dialled
<1>5. ASSUME NEW u \in BenchTasks PROVE LayersOf(u)'
  BY <1>0, <1>2, OptionsStay DEF SetupInv, LayersInOrder, LayersOf, Complete, TlsSettled, SentConnect,
                                 Wrapped, BeforeConnect, BeforeTls
<1>6. WarnedByDial'
  BY <1>0, <1>2, OptionsStay DEF SetupInv, WarnedByDial, Dialled, SentConnect
<1>8. ConnectIsSound'
  BY <1>0, OptionsStay DEF SetupInv, ConnectIsSound, SentConnect
<1> QED
  BY <1>2, <1>3, <1>4, <1>5, <1>6, <1>8 DEF SetupInv, LayersInOrder

\* What ConnectionArgs::password returns, source by source.
LEMMA PasswordSources ==
  ASSUME ClapAccepts, env \in BOOLEAN, PasswordReadable
  PROVE  /\ Password[1] = "file" <=> Given("password_file")
         /\ Password # <<"file", NoFile>>
         /\ Password = <<"typed">> <=> Given("password")
         /\ Password = <<"none">> => ~env
         /\ Password # <<"none">> => HasPasswordSource
<1>1. ~(Given("password") /\ Given("password_file"))
  BY ClapConsequences
<1>2. CASE Given("password_file")
  <2>1. Password = <<"file", passwordFile>>
    BY <1>2 DEF Password
  <2>2. Password[1] = "file" /\ Password # <<"typed">> /\ Password # <<"none">>
    BY <2>1
  <2> QED
    BY <1>1, <1>2, <2>2 DEF PasswordReadable, HasPasswordSource
<1>3. CASE ~Given("password_file")
  <2>1. CASE Given("password")
    BY <1>3, <2>1 DEF Password, PasswordReadable, HasPasswordSource
  <2>2. CASE ~Given("password") /\ env
    BY <1>3, <2>2 DEF Password, PasswordReadable, HasPasswordSource
  <2>3. CASE ~Given("password") /\ ~env
    BY <1>3, <2>3 DEF Password, PasswordReadable, HasPasswordSource
  <2> QED
    BY <2>1, <2>2, <2>3
<1> QED
  BY <1>2, <1>3

\* handshake sends a CONNECT only over finished layers, with a password it has just read.
LEMMA HandshakeKeeps == ASSUME SetupInv, NEW t \in BenchTasks, Handshake(t) PROVE SetupInv'
<1> DEFINE c == [password |-> Password, clientId |-> ClientId, cleanStart |-> CleanStart,
                 will |-> Will, maximumPacketSize |-> cl.maxPacketSize]
<1>0. UNCHANGED <<cl, env, passwordFile, main, dialled, layer>> /\ pc[t] = "handshake"
  BY DEF Handshake
<1>1. /\ Complete(t) /\ sent[t] = NoConnect
      /\ HasPasswordSource /\ ~Given("tls") => warnings["plaintext"] = 1
      /\ cl.command # "bench" => Validated
  BY <1>0 DEF SetupInv, LayersInOrder, LayersOf, BeforeConnect, Wrapped, ValidatedFirst,
              WarnedByDial, Dialled
<1>2. PICK place \in {"connack", "failed"} :
        /\ Goto(t, place)
        /\ place = "failed" => sent' = sent
        /\ place = "connack" => MaxPacketSizeOk /\ PasswordReadable /\ sent' = [sent EXCEPT ![t] = c]
  <2>1. CASE Fail(t) /\ UNCHANGED sent
    BY <2>1 DEF Fail
  <2>2. CASE /\ MaxPacketSizeOk /\ PasswordReadable /\ sent' = [sent EXCEPT ![t] = c]
             /\ Goto(t, "connack")
    <3> HIDE DEF c
    <3> QED
      BY <2>2
  <2> QED
    BY <2>1, <2>2 DEF Handshake
<1>3. /\ warnings' \in [WarningKinds -> Nat] /\ warnings'["readable"] <= 1
      /\ warnings'["plaintext"] = warnings["plaintext"]
  BY ReadableOnce DEF Handshake, SetupInv, SetupType, WarnedByDial, WarningKinds
<1>4. /\ pc' \in [BenchTasks -> Places]
      /\ pc'[t] = place /\ \A u \in BenchTasks \ {t} : pc'[u] = pc[u]
      /\ ClapAccepts /\ Admitted'
  BY <1>0, <1>2, MoveKeeps DEF Places
<1>5. /\ DOMAIN sent' = BenchTasks
      /\ \A u \in BenchTasks \ {t} : sent'[u] = sent[u]
      /\ sent'[t] # NoConnect =>
           /\ MaxPacketSizeOk /\ PasswordReadable
           /\ sent'[t].password = Password /\ sent'[t].clientId = ClientId
           /\ sent'[t].cleanStart = CleanStart /\ sent'[t].will = Will
           /\ sent'[t].maximumPacketSize = cl.maxPacketSize
  <2>1. DOMAIN sent = BenchTasks
    BY DEF SetupInv, SetupType
  <2>2. CASE place = "failed"
    BY <1>1, <1>2, <2>1, <2>2
  <2>3. CASE place = "connack"
    <3>1. MaxPacketSizeOk /\ PasswordReadable /\ sent' = [sent EXCEPT ![t] = c]
      BY <1>2, <2>3
    <3>2. /\ c.password = Password /\ c.clientId = ClientId /\ c.cleanStart = CleanStart
          /\ c.will = Will /\ c.maximumPacketSize = cl.maxPacketSize
      OBVIOUS
    <3> HIDE DEF c
    <3>3. DOMAIN sent' = BenchTasks /\ sent'[t] = c /\ \A u \in BenchTasks \ {t} : sent'[u] = sent[u]
      BY <2>1, <3>1
    <3> QED
      BY <3>1, <3>2, <3>3
  <2> QED
    BY <2>2, <2>3
<1> HIDE DEF c
<1>6. SetupType'
  BY <1>0, <1>3, <1>4, <1>5 DEF SetupInv, SetupType
<1>7. ValidatedFirst'
  BY <1>0, <1>1, <1>4, OptionsStay DEF SetupInv, ValidatedFirst
<1>8. LayersInOrder'
  <2>1. ASSUME NEW u \in BenchTasks \ {t} PROVE LayersOf(u)'
    BY <1>0, <1>4, <1>5, <2>1, OptionsStay
       DEF SetupInv, LayersInOrder, LayersOf, Complete, TlsSettled, SentConnect
  <2>2. Complete(t)'
    BY <1>0, <1>1, OptionsStay DEF Complete, TlsSettled
  <2>3. LayersOf(t)'
    BY <1>4, <2>2 DEF LayersOf, BeforeTls, BeforeConnect
  <2> QED
    BY <2>1, <2>3 DEF LayersInOrder
<1>9. env \in BOOLEAN
  BY DEF SetupInv, SetupType
<1>10. WarnedByDial'
  <2>1. sent'[t] # NoConnect /\ sent'[t].password # <<"none">> => HasPasswordSource
    BY <1>4, <1>5, <1>9, PasswordSources
  <2> QED
    BY <1>0, <1>1, <1>3, <1>4, <1>5, <2>1, OptionsStay
       DEF SetupInv, WarnedByDial, Dialled, SentConnect
<1>12. ConnectIsSound'
  <2> SUFFICES ASSUME NEW u \in BenchTasks, SentConnect(u)'
               PROVE  /\ sent'[u].maximumPacketSize \in 1..PROTOCOL_MAX_PACKET_SIZE
                      /\ ~sent'[u].cleanStart => sent'[u].clientId = "chosen"
                      /\ cl.options \cap {"will_payload", "will_qos", "will_retain"} # {}
                           => sent'[u].will
                      /\ sent'[u].password[1] = "file" <=> Given("password_file")
                      /\ sent'[u].password # <<"file", NoFile>>
                      /\ sent'[u].password = <<"typed">> <=> Given("password")
                      /\ sent'[u].password = <<"none">> => ~env
    BY <1>0, OptionsStay DEF ConnectIsSound
  <2>1. CASE u # t
    BY <1>5, <2>1 DEF SetupInv, ConnectIsSound, SentConnect
  <2>2. CASE u = t
    <3>1. /\ MaxPacketSizeOk /\ PasswordReadable
          /\ sent'[t].password = Password /\ sent'[t].clientId = ClientId
          /\ sent'[t].cleanStart = CleanStart /\ sent'[t].will = Will
          /\ sent'[t].maximumPacketSize = cl.maxPacketSize
      BY <1>5, <2>2 DEF SentConnect
    <3>2. ~sent'[t].cleanStart => sent'[t].clientId = "chosen"
      BY <1>1, <1>4, <3>1, ResumableIsChosen
    <3>3. cl.options \cap {"will_payload", "will_qos", "will_retain"} # {} => sent'[t].will
      BY <1>4, <3>1, ClapConsequences DEF Will
    <3>4. sent'[t].maximumPacketSize \in 1..PROTOCOL_MAX_PACKET_SIZE
      BY <3>1 DEF MaxPacketSizeOk
    <3> QED
      BY <1>4, <1>9, <2>2, <3>1, <3>2, <3>3, <3>4, PasswordSources
  <2> QED
    BY <2>1, <2>2
<1> QED
  BY <1>4, <1>6, <1>7, <1>8, <1>10, <1>12 DEF SetupInv

-----------------------------------------------------------------------------
(***************************************************************************)
(* The theorems.                                                           *)
(***************************************************************************)

\* The inductive invariant holds throughout every run of every command.
LEMMA SetupInvariant == Spec => []SetupInv
<1>1. SetupInv /\ [Next]_vars => SetupInv'
  <2> SUFFICES ASSUME SetupInv, [Next]_vars PROVE SetupInv'
    OBVIOUS
  <2>1. CASE Parse
    BY <2>1, ParseKeeps
  <2>2. CASE CheckCommand
    BY <2>2, CheckCommandKeeps
  <2>3. CASE SetupOver
    BY <2>3, SetupOverKeeps
  <2>4. CASE EditPasswordFile
    BY <2>4, EditKeeps
  <2>5. CASE Finished
    BY <2>5, StutterKeeps DEF Finished
  <2>6. CASE UNCHANGED vars
    BY <2>6, StutterKeeps
  <2>7. ASSUME NEW t \in BenchTasks, Task(t) PROVE SetupInv'
    BY <2>7, ValidateKeeps, DialKeeps, TlsWrapKeeps, WsWrapKeeps, HandshakeKeeps, ConnackKeeps
       DEF Task
  <2> QED
    BY <2>1, <2>2, <2>3, <2>4, <2>5, <2>6, <2>7 DEF Next
<1> QED
  BY <1>1, SetupInit, PTL DEF Spec

\* Whatever the options, the environment and the edits of the password file, every CONNECT
\* that Client::connect or a bench task sends is the one the user asked for.
THEOREM EveryConnectIsSound == Spec => []ConnectIsSound
<1>1. SetupInv => ConnectIsSound
  BY DEF SetupInv
<1> QED
  BY <1>1, SetupInvariant, PTL

\* transport::connect and tls::wrap let no CONNECT of any connection out before the layers
\* are complete and the peer is verified, or its own --insecure warning printed.
THEOREM EveryPeerIsVerified == Spec => []PeerIsVerified
<1>1. SetupInv => PeerIsVerified
  <2> SUFFICES ASSUME SetupInv PROVE PeerIsVerified
    OBVIOUS
  <2>1. ASSUME NEW t \in BenchTasks, SentConnect(t) PROVE Complete(t)
    BY <2>1 DEF SetupInv, LayersInOrder, LayersOf
  <2> QED
    BY <2>1 DEF PeerIsVerified, Complete, TlsSettled
<1> QED
  BY <1>1, SetupInvariant, PTL

\* However many connections of `bench` race to the warning of transport::connect, it is
\* out before the first password and it is printed once.
THEOREM EveryPlaintextIsWarned == Spec => []PlaintextIsWarned
<1>1. SetupInv => PlaintextIsWarned
  <2> SUFFICES ASSUME SetupInv PROVE PlaintextIsWarned
    OBVIOUS
  <2>1. ASSUME NEW t \in BenchTasks, SentConnect(t), layer[t].stack \in {<<>>, <<"ws">>}
        PROVE  ~Given("tls")
    <3>1. layer[t].stack = Asked
      BY <2>1 DEF SetupInv, LayersInOrder, LayersOf, Complete
    <3> QED
      BY <2>1, <3>1, AskedLayers
  <2> QED
    BY <2>1 DEF SetupInv, PlaintextIsWarned, WarnedByDial
<1> QED
  BY <1>1, SetupInvariant, PTL

\* What clap, a subcommand or Client::connect refuses by the options is never dialled, and
\* what tls::wrap and ws::wrap refuse by them, after the dialling, is never sent a CONNECT.
THEOREM NothingDoomedIsDialled == Spec => []NoDoomedDial
<1>1. SetupInv => NoDoomedDial
  <2> SUFFICES ASSUME SetupInv PROVE NoDoomedDial
    OBVIOUS
  <2>1. ASSUME NEW t \in BenchTasks, dialled[t] # 0, cl.command = "bench"
        PROVE  cl.publishers > 0 /\ cl.rate \in {"none", "sound"}
    <3>1. ~BenchRefuses
      BY <2>1 DEF SetupInv, Admitted, CommandRefuses
    <3>2. cl.publishers \in Nat
      BY DEF SetupInv, SetupType, CommandLine
    <3>6. cl.rate \in Rates
      BY DEF SetupInv, SetupType, CommandLine
    <3>3. cl.publishers # 0 /\ cl.rate \notin {"out of range", "period too long"}
      BY <2>1, <3>1, Zenon DEF BenchRefuses
    <3>4. cl.publishers > 0
      <4>1. ASSUME NEW n \in Nat, n # 0 PROVE n > 0
        BY <4>1
      <4> QED
        BY <3>2, <3>3, <4>1
    <3>5. cl.rate \in {"none", "sound"}
      BY <3>3, <3>6, Zenon DEF Rates
    <3> QED
      BY <3>4, <3>5
  <2>2. ASSUME NEW t \in BenchTasks, dialled[t] # 0, cl.command # "bench"
        PROVE  /\ MaxPacketSizeOk
               /\ CleanStart \/ ClientId = "chosen"
               /\ Given("topic")
               /\ cl.command = "pub" /\ Given("v5_property") => HasProperties
               /\ cl.command = "request" => Given("reply_topic") /\ cl.protocol # "V31"
    <3>1. Validated /\ ClapAccepts /\ ~CommandRefuses
      BY <2>2 DEF SetupInv, ValidatedFirst, Admitted
    <3>2. cl.command \in {"pub", "sub", "request", "bench"}
      BY DEF SetupInv, SetupType, CommandLine
    <3>3. Given("topic")
      BY <2>2, <3>1, <3>2, ClapConsequences DEF CommandRefuses, SubRefuses
    <3> QED
      BY <3>1, <3>3, ResumableIsChosen, ClapConsequences
         DEF Validated, CommandRefuses, PropertiesRefused, RequestRefuses
  <2>3. ASSUME NEW t \in BenchTasks, SentConnect(t)
        PROVE  (Given("tls") => cl.serverName) /\ (Given("websocket") => cl.uri)
    BY <2>3 DEF SetupInv, LayersInOrder, LayersOf, Complete, TlsSettled
  <2>4. ASSUME NEW t \in BenchTasks, dialled[t] # 0 PROVE ClapAccepts
    BY <2>4 DEF SetupInv, Admitted
  <2> QED
    BY <2>1, <2>2, <2>3, <2>4 DEF NoDoomedDial
<1> QED
  BY <1>1, SetupInvariant, PTL
=============================================================================
