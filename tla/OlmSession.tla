------------------------------ MODULE OlmSession ------------------------------
(***************************************************************************)
(* The control loop of the client role (newt/src/olm/mod.rs): registering, *)
(* the messages that build and change the data plane, and reconnecting.    *)
(*                                                                         *)
(* One action per arm of the session's select! and, in the recv arm, per   *)
(* group of topics.  Of the data plane there is the set of peers with      *)
(* their endpoint and ranges (OlmRouter says how they are kept), the OS    *)
(* routes of the kernel backend, and that the backend owns host resources: *)
(* the TUN interface or the ports of the forwards.  The server is          *)
(* external.  Every message carries a map from sites to their              *)
(* configuration, of which a topic uses what it needs.  The kernel may     *)
(* refuse a route: add_routes (newt/src/olm/kernel.rs) logs it and goes on *)
(* with the next, and its callers are told nothing.                        *)
(***************************************************************************)
EXTENDS Integers, Sequences

CONSTANTS
  Sites, Endpoints, Ranges,
  None,                  \* Option::None
  MaxChanges,            \* bound: changes of the configuration
  MaxFaults,             \* bound: disturbances
  MaxQueue               \* bound: messages waiting in one direction

VARIABLES
  phase,                 \* of run(): "connecting", "running" or "backoff"
  dp,                    \* Option<DataPlane>: peers and routes, or None
  toServer, toClient,    \* the two directions of the WebSocket
  sites, changes,        \* the server's configuration: site -> Config
  exclusive,             \* the backend owns a TUN interface or forward ports
  faults,                \* disturbances so far
  missed,                \* history: sites with a change that did not resolve
  refused                \* history: ranges whose route was refused when last added

client == <<phase, dp>>
net == <<toServer, toClient>>
server == <<sites, changes, exclusive>>
history == <<missed, refused>>
vars == <<client, net, server, faults, history>>

Config == [endpoint : Endpoints, ranges : SUBSET Ranges]
Configs == UNION {[S -> Config] : S \in SUBSET Sites}

RangesOf(ps) == UNION {ps[s].ranges : s \in DOMAIN ps}
Without(f, S) == [s \in DOMAIN f \ S |-> f[s]]
Only(f, S) == [s \in DOMAIN f \cap S |-> f[s]]
Over(f, g) == [s \in DOMAIN f \cup DOMAIN g |-> IF s \in DOMAIN f THEN f[s] ELSE g[s]]
One(s, c) == [t \in {s} |-> c]

Init ==
  /\ phase = "connecting" /\ dp = None
  /\ toServer = <<>> /\ toClient = <<>>
  /\ sites \in Configs /\ exclusive \in BOOLEAN
  /\ changes = 0 /\ faults = 0 /\ missed = {} /\ refused = {}
-------------------------------------------------------------------------------
Fault == faults < MaxFaults /\ faults' = faults + 1

\* session() returns; what it owned is dropped.
SessionEnds == /\ phase' = "backoff" /\ dp' = None
               /\ toServer' = <<>> /\ toClient' = <<>> /\ missed' = {} /\ refused' = {}

\* Token, WebSocket, UDP socket, and the first register message.
Connect ==
  /\ phase = "connecting"
  /\ \/ /\ phase' = "running" /\ toServer' = <<"register">>
        /\ UNCHANGED <<dp, toClient, faults, history>>
     \/ Fault /\ SessionEnds
  /\ UNCHANGED server

Restart == /\ phase = "backoff" /\ phase' = "connecting"
           /\ UNCHANGED <<dp, net, server, faults, history>>

\* An I/O error in any arm, or the server closing the socket.
SessionFails == /\ phase = "running" /\ Fault /\ SessionEnds
                /\ UNCHANGED server

\* Seeded fault: the client registers once per session.
TickOnlyPings == /\ phase = "running" /\ Len(toServer) < MaxQueue
                 /\ UNCHANGED <<client, net, server, faults, history>>

\* Register again as long as there is no data plane; the heartbeat is left
\* out: nothing answers it.
Tick == /\ phase = "running" /\ Len(toServer) < MaxQueue
        /\ toServer' = IF dp = None THEN Append(toServer, "register") ELSE toServer
        /\ UNCHANGED <<client, toClient, server, faults, history>>

\* The recv arm takes the next message, of one of the given topics.
Receives(typs) == /\ phase = "running" /\ toClient # <<>>
                  /\ Head(toClient).typ \in typs

m == Head(toClient)

\* Endpoints of sites in the message do not resolve, routes are refused.
Disturbed(U, F) == \/ U = {} /\ F = {} /\ UNCHANGED faults
                   \/ U \subseteq DOMAIN m.sites /\ U \cup F # {} /\ (F # {} => exclusive) /\ Fault

\* add_routes, with what the kernel refuses; a route that is there is replaced.
add_routes(routes, new, F) == routes \cup (new \ F)

\* add_routes for the data plane with these peers.
Programs(peers, routes, new, F) ==
  /\ F \subseteq new
  /\ dp' = [peers |-> peers, routes |-> add_routes(routes, new, F)]
  /\ refused' = (refused \ new) \cup F

\* build_dataplane, while the old data plane, if any, still has its resources.
GotConnect ==
  /\ Receives({"connect"})
  /\ \/ /\ ~(exclusive /\ dp # None)
        /\ \E U \in SUBSET Sites, F \in SUBSET Ranges :
             /\ Disturbed(U, F)
             /\ F \subseteq RangesOf(Without(m.sites, U))
             /\ dp' = [peers |-> Without(m.sites, U),
                       routes |-> add_routes({}, RangesOf(Without(m.sites, U)), F)]
             /\ missed' = U /\ refused' = F
        /\ toClient' = Tail(toClient)
        /\ UNCHANGED <<phase, toServer>>
     \/ exclusive /\ dp # None /\ SessionEnds /\ UNCHANGED faults
  /\ UNCHANGED server

\* Seeded fault: a known site is not updated.
UpsertOnlyNew(U) == Over(dp.peers, Without(m.sites, U))

\* upsert_site for every site of the message that resolves.
Upserted(U) == Over(Without(m.sites, U), dp.peers)

\* Without a data plane the message is dropped.
GotPeers ==
  /\ Receives({"peer/add", "peer/update", "sync"})
  /\ \/ dp = None /\ UNCHANGED <<dp, faults, history>>
     \/ /\ dp # None
        /\ \E U \in SUBSET Sites, F \in SUBSET Ranges :
             /\ Disturbed(U, F)
             /\ Programs(Upserted(U), dp.routes, RangesOf(Without(m.sites, U)), F)
             /\ missed' = (missed \ DOMAIN m.sites) \cup U
  /\ toClient' = Tail(toClient)
  /\ UNCHANGED <<phase, toServer, server>>

\* Changes of one peer; a peer that is not there is left alone.
Changed(s, c) ==
  IF s \notin DOMAIN dp.peers THEN dp.peers
  ELSE CASE m.typ = "peer/remove" -> Without(dp.peers, {s})
         [] m.typ \in {"peer/relay", "peer/unrelay"} ->
              [dp.peers EXCEPT ![s].endpoint = c.endpoint]
         [] m.typ = "data/add"    -> [dp.peers EXCEPT ![s].ranges = @ \cup c.ranges]
         [] m.typ = "data/remove" -> [dp.peers EXCEPT ![s].ranges = @ \ c.ranges]

\* Seeded fault: a range that is added gets no route.
NoRouteForRange == {}

\* Only data/add programs routes, also for a peer that is not there; nothing
\* takes one away.
RangesAdded == IF m.typ = "data/add" THEN RangesOf(m.sites) ELSE {}

GotChange ==
  /\ Receives({"peer/remove", "peer/relay", "peer/unrelay", "data/add", "data/remove"})
  /\ \E s \in DOMAIN m.sites :
       \/ dp = None /\ UNCHANGED <<dp, faults, history>>
       \/ /\ dp # None
          /\ \E F \in SUBSET Ranges :
               /\ Disturbed({}, F)
               /\ Programs(Changed(s, m.sites[s]), dp.routes, RangesAdded, F)
          /\ UNCHANGED missed
       \/ /\ dp # None /\ m.typ \in {"peer/relay", "peer/unrelay"} /\ Fault  \* does not resolve
          /\ missed' = missed \cup {s}
          /\ UNCHANGED <<dp, refused>>
  /\ toClient' = Tail(toClient)
  /\ UNCHANGED <<phase, toServer, server>>

GotTerminate == Receives({"terminate"}) /\ SessionEnds /\ UNCHANGED <<server, faults>>
-------------------------------------------------------------------------------
\* The server.

Message(typ, ss) == [typ |-> typ, sites |-> ss]

Pushes(msg) == /\ phase = "running" /\ Len(toClient) < MaxQueue
               /\ toClient' = Append(toClient, msg)

AnswersRegister ==
  /\ toServer # <<>> /\ toServer' = Tail(toServer)
  /\ Pushes(Message("connect", sites))
  /\ UNCHANGED <<client, server, faults, history>>

\* A register message that stays without an answer.
ServerIgnores == /\ toServer # <<>> /\ Fault /\ toServer' = Tail(toServer)
                 /\ UNCHANGED <<client, toClient, server, history>>

\* The configuration becomes ss and the client is told by msg.
ServerChanges(ss, msg) ==
  /\ changes < MaxChanges /\ changes' = changes + 1
  /\ sites' = ss
  /\ \/ Pushes(msg)
     \/ phase # "running" /\ UNCHANGED toClient
  /\ UNCHANGED <<client, toServer, faults, history, exclusive>>

ServerSets(s) == \E c \in Config : \E typ \in {"peer/add", "peer/update"} :
  ServerChanges(Over(One(s, c), sites), Message(typ, One(s, c)))

ServerRemoves(s) ==
  s \in DOMAIN sites /\ ServerChanges(Without(sites, {s}), Message("peer/remove", Only(sites, {s})))

ServerRelays(s) == \E e \in Endpoints : \E typ \in {"peer/relay", "peer/unrelay"} :
  /\ s \in DOMAIN sites
  /\ LET new == [sites EXCEPT ![s].endpoint = e]
     IN ServerChanges(new, Message(typ, Only(new, {s})))

ServerGrants(s) == \E r \in Ranges :
  /\ s \in DOMAIN sites
  /\ ServerChanges([sites EXCEPT ![s].ranges = @ \cup {r}],
                   Message("data/add", One(s, [sites[s] EXCEPT !.ranges = {r}])))

ServerRevokes(s) == \E r \in Ranges :
  /\ s \in DOMAIN sites
  /\ ServerChanges([sites EXCEPT ![s].ranges = @ \ {r}],
                   Message("data/remove", One(s, [sites[s] EXCEPT !.ranges = {r}])))

ServerInterrupts ==
  /\ Fault
  /\ Pushes(Message("sync", sites)) \/ Pushes(Message("terminate", <<>>))
  /\ UNCHANGED <<client, toServer, server, history>>

Receive == GotConnect \/ GotPeers \/ GotChange \/ GotTerminate

Next == \/ Connect \/ Restart \/ SessionFails \/ Tick \/ Receive
        \/ AnswersRegister \/ ServerIgnores \/ ServerInterrupts
        \/ \E s \in Sites : \/ ServerSets(s) \/ ServerRemoves(s) \/ ServerRelays(s)
                            \/ ServerGrants(s) \/ ServerRevokes(s)

Spec == Init /\ [][Next]_vars

\* A ready arm of select! is taken in the end; the server answers registers.
FairSpec == /\ Spec
            /\ WF_vars(Connect) /\ WF_vars(Restart) /\ SF_vars(Receive) /\ SF_vars(Tick)
            /\ SF_vars(AnswersRegister)
-------------------------------------------------------------------------------
\* Once it has read what the server sent, a connected client has exactly the
\* peers the server has configured, with their endpoints and ranges, except
\* for the sites whose endpoint did not resolve: messages that arrive before
\* olm/wg/connect are dropped, those after it applied in order.
PeersInSync ==
  dp # None /\ toClient = <<>> =>
    Without(dp.peers, missed) = Without(sites, missed)

\* The kernel backend has a route for every range of every peer, but for those
\* the kernel refused when they were last added: one refusal costs one route,
\* and a packet a peer would accept is otherwise never left outside the tunnel.
RoutesCoverPeers == dp # None => RangesOf(dp.peers) \subseteq dp.routes \cup refused

\* With disturbances bounded, the client ends up with a data plane for good,
\* however its registers, their repetitions and the answers overtake each
\* other; with one exception: a backend that owns an interface or ports cannot
\* be replaced by that of a second answer, which ends the session.
EventuallyConnected == ~exclusive => <>[](phase = "running" /\ dp # None)
===============================================================================
