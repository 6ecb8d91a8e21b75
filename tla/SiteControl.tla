------------------------------ MODULE SiteControl ------------------------------
(***************************************************************************)
(* The control plane of the site connector: the state machine of           *)
(* newt-core/src/sm.rs and the session loop of newt/src/tunnel.rs that     *)
(* feeds it messages and ticks, executes its actions, keeps the data plane *)
(* and reconnects when the session ends.                                   *)
(*                                                                         *)
(* One action per arm of the session's select!; the arm runs to its end    *)
(* before another is taken.  The data plane is represented by the set of   *)
(* targets it listens for.  The server is external: it answers requests,   *)
(* changes the configuration and disturbs the client a bounded number of   *)
(* times.  The WebSocket is FIFO both ways and loses what is in flight     *)
(* when the session ends.                                                  *)
(***************************************************************************)
EXTENDS Integers, Sequences, FiniteSets

CONSTANTS
  Targets,               \* the TCP targets the server may configure
  ExitNodes,             \* the exit nodes the server may offer
  None,                  \* Option::None
  TICK_MS,               \* what a tick reports as elapsed (1000)
  PING_RESEND_MS,        \* 3000
  REGISTER_RESEND_MS,    \* 2000
  HEARTBEAT_TICKS,       \* ticks between two heartbeats (10)
  MaxVersion,            \* bound: configuration changes
  MaxFaults,             \* bound: disturbances
  MaxQueue               \* bound: messages waiting in one direction

ASSUME TimingAssumption == /\ TICK_MS \in Nat \ {0}
                           /\ PING_RESEND_MS \in Nat \ {0}
                           /\ REGISTER_RESEND_MS \in Nat \ {0}
                           /\ HEARTBEAT_TICKS \in Nat \ {0}
ASSUME NoneAssumption == /\ \A T \in SUBSET Targets : T # None
                         /\ \A v \in 0 .. MaxVersion : v # None
ASSUME BoundAssumption == /\ MaxVersion \in Nat /\ MaxFaults \in Nat
                          /\ MaxQueue \in Nat \ {0}

VARIABLES
  phase,                 \* of run(): "connecting", "running" or "backoff"
  state, resend_due_ms,  \* the Sm
  data,                  \* Option<DataPlane>: its targets, or None
  config_version,        \* latest version seen in a message, or None
  ping_ticks,            \* ticks since the last heartbeat
  toServer, toClient,    \* the two directions of the WebSocket
  targets, version,      \* the server's configuration
  faults                 \* disturbances so far

sm == <<state, resend_due_ms>>
session == <<data, config_version, ping_ticks>>
server == <<targets, version>>
vars == <<phase, sm, session, toServer, toClient, server, faults>>

Versions == 0 .. MaxVersion

\* To the server: a request and, in a heartbeat, the version it carries.
Requests == [typ : {"ping/request", "wg/register", "ping"}, ver : Versions \cup {None}]

\* To the client: the targets or exit nodes a message lists and its
\* configVersion.
Messages ==
  [typ : {"ping/exitNodes"}, items : SUBSET ExitNodes, ver : {None}] \cup
  [typ : {"wg/connect", "wg/reconnect", "wg/terminate", "tcp/add", "tcp/remove", "sync"},
   items : SUBSET Targets, ver : Versions \cup {None}]

Request(typ) == [typ |-> typ, ver |-> None]
Listing(typ, items) == [typ |-> typ, items |-> items, ver |-> None]

Init ==
  /\ phase = "connecting"
  /\ state = "Disconnected" /\ resend_due_ms = 0
  /\ data = None /\ config_version = None /\ ping_ticks = 0
  /\ toServer = <<>> /\ toClient = <<>>
  /\ targets \in SUBSET Targets /\ version = 0
  /\ faults = 0
-------------------------------------------------------------------------------
\* A disturbance, of which there are at most MaxFaults.
Fault == faults < MaxFaults /\ faults' = faults + 1

\* session() returns: the data plane and the socket are dropped with it.
SessionEnds ==
  /\ phase' = "backoff"
  /\ data' = None /\ config_version' = None /\ ping_ticks' = 0
  /\ toServer' = <<>> /\ toClient' = <<>>

\* The token request and the WebSocket upgrade succeed; the first step of the
\* state machine is WsConnected.
Connect ==
  /\ phase = "connecting" /\ phase' = "running"
  /\ state' = "RequestingExitNodes" /\ resend_due_ms' = PING_RESEND_MS
  /\ toServer' = <<Request("ping/request")>>
  /\ UNCHANGED <<session, toClient, server, faults>>

ConnectFails ==
  /\ phase = "connecting" /\ Fault
  /\ SessionEnds
  /\ UNCHANGED <<sm, server>>

\* run() sleeps three seconds and starts over with a new Sm.
Restart ==
  /\ phase = "backoff" /\ phase' = "connecting"
  /\ state' = "Disconnected" /\ resend_due_ms' = 0
  /\ UNCHANGED <<session, toServer, toClient, server, faults>>

\* An I/O error in any arm, or the server closing the socket.
SessionFails ==
  /\ phase = "running" /\ Fault
  /\ SessionEnds
  /\ UNCHANGED <<sm, server>>

\* The recv arm takes the next message, of one of the given types.
Receives(typs) ==
  /\ phase = "running" /\ toClient # <<>>
  /\ Head(toClient).typ \in typs

Message == Head(toClient)

Adopt == /\ toClient' = Tail(toClient)
         /\ config_version' = IF Message.ver = None THEN config_version ELSE Message.ver
         /\ UNCHANGED ping_ticks

GotExitNodes ==
  /\ Receives({"ping/exitNodes"}) /\ Adopt
  /\ \/ /\ state = "RequestingExitNodes" /\ Message.items # {}
        /\ state' = "Registering" /\ resend_due_ms' = REGISTER_RESEND_MS
        /\ toServer' = Append(toServer, Request("wg/register"))
     \/ /\ ~(state = "RequestingExitNodes" /\ Message.items # {})
        /\ UNCHANGED <<sm, toServer>>
  /\ UNCHANGED <<phase, data, server, faults>>

\* WgConnect is taken in every state; a tunnel that is up is torn down first.
GotWgConnect ==
  /\ Receives({"wg/connect"})
  /\ state' = "Connected" /\ resend_due_ms' = 0
  /\ \/ /\ Adopt /\ data' = Message.items
        /\ UNCHANGED <<phase, toServer, faults>>
     \/ Fault /\ SessionEnds                         \* bring_up fails
  /\ UNCHANGED server

\* Seeded fault: the tunnel survives the reconnect.
ReconnectKeepsTunnel ==
  /\ Receives({"wg/reconnect"}) /\ Adopt
  /\ state' = "RequestingExitNodes" /\ resend_due_ms' = PING_RESEND_MS
  /\ toServer' = Append(toServer, Request("ping/request"))
  /\ UNCHANGED <<phase, data, server, faults>>

GotReconnect ==
  /\ Receives({"wg/reconnect"}) /\ Adopt
  /\ data' = IF state = "Connected" THEN None ELSE data
  /\ state' = "RequestingExitNodes" /\ resend_due_ms' = PING_RESEND_MS
  /\ toServer' = Append(toServer, Request("ping/request"))
  /\ UNCHANGED <<phase, server, faults>>

\* Teardown, then Stop, which ends the session with an error.
GotTerminate ==
  /\ Receives({"wg/terminate"})
  /\ state' = "Stopped"
  /\ SessionEnds
  /\ UNCHANGED <<resend_due_ms, server, faults>>

\* Seeded fault: every message about targets adds them.
TargetsOnlyGrow ==
  /\ Receives({"tcp/add", "tcp/remove", "sync"}) /\ Adopt
  /\ data' = IF data = None THEN None ELSE data \cup Message.items
  /\ UNCHANGED <<phase, sm, toServer, server, faults>>

\* TCP_ADD, TCP_REMOVE and SYNC reach the data plane only if there is one.
GotTargets ==
  /\ Receives({"tcp/add", "tcp/remove", "sync"}) /\ Adopt
  /\ data' = IF data = None THEN None
             ELSE CASE Message.typ = "tcp/add"    -> data \cup Message.items
                    [] Message.typ = "tcp/remove" -> data \ Message.items
                    [] Message.typ = "sync"       -> Message.items
  /\ UNCHANGED <<phase, sm, toServer, server, faults>>

Heartbeat == [typ |-> "ping", ver |-> config_version]

\* Seeded fault: a request is sent once.
ResendNothing == <<>>

\* What Tick makes the state machine send.
Resend ==
  IF resend_due_ms = 0 \/ TICK_MS < resend_due_ms THEN <<>>
  ELSE CASE state = "RequestingExitNodes" -> <<Request("ping/request")>>
         [] state = "Registering"         -> <<Request("wg/register")>>
         [] OTHER                         -> <<>>

\* Seeded fault: the timer is not armed again when it fires.
ResendDueOnce == IF resend_due_ms > TICK_MS THEN resend_due_ms - TICK_MS ELSE 0

\* The timer of the state machine after a tick.
ResendDue ==
  IF resend_due_ms = 0 THEN 0
  ELSE IF TICK_MS < resend_due_ms THEN resend_due_ms - TICK_MS
  ELSE CASE state = "RequestingExitNodes" -> PING_RESEND_MS
         [] state = "Registering"         -> REGISTER_RESEND_MS
         [] OTHER                         -> resend_due_ms

Tick ==
  /\ phase = "running" /\ Len(toServer) < MaxQueue
  /\ resend_due_ms' = ResendDue
  /\ \/ /\ ping_ticks + 1 >= HEARTBEAT_TICKS
        /\ ping_ticks' = 0
        /\ toServer' = toServer \o Resend \o <<Heartbeat>>
     \/ /\ ping_ticks + 1 < HEARTBEAT_TICKS
        /\ ping_ticks' = ping_ticks + 1
        /\ toServer' = toServer \o Resend
  /\ UNCHANGED <<phase, state, data, config_version, toClient, server, faults>>
-------------------------------------------------------------------------------
\* The server, as the client's messages and comments describe it.

Full(typ) == [typ |-> typ, items |-> targets, ver |-> version]

Pushes(m) == /\ phase = "running" /\ Len(toClient) < MaxQueue
             /\ toClient' = Append(toClient, m)

Answers(typ, m) ==
  /\ toServer # <<>> /\ Head(toServer).typ = typ
  /\ toServer' = Tail(toServer)
  /\ Pushes(m)
  /\ UNCHANGED <<phase, sm, session, server, faults>>

AnswersPing == Answers("ping/request", Listing("ping/exitNodes", ExitNodes))

AnswersRegister == Answers("wg/register", Full("wg/connect"))

\* A heartbeat that is behind is answered with the full configuration.
AnswersHeartbeat ==
  /\ toServer # <<>> /\ Head(toServer).typ = "ping"
  /\ toServer' = Tail(toServer)
  /\ \/ Head(toServer).ver \notin {None, version} /\ Pushes(Full("sync"))
     \/ Head(toServer).ver \in {None, version} /\ UNCHANGED toClient
  /\ UNCHANGED <<phase, sm, session, server, faults>>

\* A request that stays without a useful answer.
ServerIgnores ==
  /\ toServer # <<>> /\ Head(toServer).typ # "ping" /\ Fault
  /\ toServer' = Tail(toServer)
  /\ UNCHANGED toClient \/ Pushes(Listing("ping/exitNodes", {}))
  /\ UNCHANGED <<phase, sm, session, server>>

\* A target is added or removed, and pushed to the site while it is connected.
ServerChanges(t) ==
  /\ version < MaxVersion /\ version' = version + 1
  /\ targets' = IF t \in targets THEN targets \ {t} ELSE targets \cup {t}
  /\ \/ Pushes([typ |-> IF t \in targets THEN "tcp/remove" ELSE "tcp/add",
                items |-> {t}, ver |-> version + 1])
     \/ phase # "running" /\ UNCHANGED toClient
  /\ UNCHANGED <<phase, sm, session, toServer, faults>>

ServerInterrupts(typ) ==
  /\ Fault /\ Pushes(Listing(typ, {}))
  /\ UNCHANGED <<phase, sm, session, toServer, server>>

Server ==
  \/ AnswersPing \/ AnswersRegister \/ AnswersHeartbeat \/ ServerIgnores
  \/ \E t \in Targets : ServerChanges(t)
  \/ ServerInterrupts("wg/reconnect") \/ ServerInterrupts("wg/terminate")
-------------------------------------------------------------------------------
Receive == \/ GotExitNodes \/ GotWgConnect \/ GotReconnect \/ GotTerminate \/ GotTargets

Next == \/ Connect \/ ConnectFails \/ Restart \/ SessionFails
        \/ Receive \/ Tick
        \/ Server

\* The arms of select! are polled in random order, so one that is ready again
\* and again is taken; the server answers what it has read.
Fairness == /\ WF_vars(Connect) /\ WF_vars(Restart)
            /\ SF_vars(Receive) /\ SF_vars(Tick)
            /\ SF_vars(AnswersPing) /\ SF_vars(AnswersRegister)
            /\ SF_vars(AnswersHeartbeat)

Spec == Init /\ [][Next]_vars
FairSpec == Spec /\ Fairness
-------------------------------------------------------------------------------
\* The variables of the session loop, of the state machine and of the two
\* ends of the WebSocket keep the types of their declarations.
TypeOK ==
  /\ phase \in {"connecting", "running", "backoff"}
  /\ state \in {"Disconnected", "RequestingExitNodes", "Registering", "Connected",
                "Stopped"}
  /\ resend_due_ms \in Nat
  /\ data \in (SUBSET Targets) \cup {None}
  /\ config_version \in Versions \cup {None}
  /\ ping_ticks \in 0 .. HEARTBEAT_TICKS - 1
  /\ toServer \in Seq(Requests) /\ toClient \in Seq(Messages)
  /\ targets \in SUBSET Targets /\ version \in Versions
  /\ faults \in 0 .. MaxFaults

\* The tunnel is up exactly while the state machine says Connected: no
\* message order, duplicate wg/connect, reconnect or failed session leaves a
\* data plane behind or a Connected client without one.
DataPlaneMatchesState ==
  data # None <=> (phase = "running" /\ state = "Connected")

\* While the client waits for an answer the resend timer is armed, and
\* never for longer than its period: no sequence of events leaves it waiting
\* without a retry.
RetryIsArmed ==
  phase = "running" =>
    CASE state = "RequestingExitNodes" -> resend_due_ms \in 1 .. PING_RESEND_MS
      [] state = "Registering"         -> resend_due_ms \in 1 .. REGISTER_RESEND_MS
      [] OTHER                         -> state = "Connected" /\ resend_due_ms = 0

\* Once it has read what the server sent, a connected site listens for
\* exactly the targets the server has configured and reports their version,
\* although additions that arrive before wg/connect are dropped.
InSync ==
  data # None /\ toClient = <<>> => data = targets /\ config_version = version

\* With disturbances bounded, the site ends up connected for good: requests
\* without an answer are sent again and lost sessions are resumed.
EventuallyConnected == <>[](phase = "running" /\ state = "Connected")
===============================================================================
