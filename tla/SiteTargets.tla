------------------------------ MODULE SiteTargets ------------------------------
(***************************************************************************)
(* The listeners and connections of a site's data plane                    *)
(* (newt/src/tunnel.rs, struct DataPlane): which smoltcp socket listens    *)
(* for which TCP target, how the socket of a listener becomes that of a    *)
(* connection and is replaced, and how target messages change the set.     *)
(*                                                                         *)
(* step_io is a future the session's select! drops whenever another arm is *)
(* ready: it can stop at each await, so the poll of the TCP stack and the  *)
(* service of the listeners are two actions and the second may be skipped. *)
(* The TCP stack is external: a socket is known by its port and by how far *)
(* its connection has come.  What flows through a connection is in Bridge. *)
(***************************************************************************)
EXTENDS Integers, Sequences, FiniteSets, SequencesExt, FiniteSetsExt,
        TargetTable

CONSTANTS
  Ports,                 \* TCP listen ports (0 is not one: listen refuses it)
  Hosts,                 \* target addresses, "host:port"
  MaxSpecs,              \* bound: specifications in one message
  MaxConns               \* bound: connections at a time

VARIABLES
  listeners,             \* Vec<Listener>: sequence of port, target, handle
  conns,                 \* keys of the connection map: socket handles
  sockets,               \* the SocketSet: handle -> port and TCP state
  io,                    \* "idle", or "polled" between poll and accept_new
  table                  \* history: what the messages so far ask for

vars == <<listeners, conns, sockets, io, table>>

Specs == [port : Ports, target : Hosts]
SpecLists == BoundedSeq(Specs \cup {Bad}, MaxSpecs)

\* "Open" stands for every state from ESTABLISHED on, "Closed" for TIME-WAIT
\* too: that is what is_active and is_open tell apart.
TcpStates == {"Listen", "SynReceived", "Open", "Closed"}
is_active(s) == s.state \in {"SynReceived", "Open"}
is_open(s) == s.state # "Closed"
-------------------------------------------------------------------------------
\* The operations are functions of the data plane.
Plane == [listeners |-> listeners, conns |-> conns, sockets |-> sockets]

Becomes(d) == /\ listeners' = d.listeners
              /\ conns' = d.conns
              /\ sockets' = d.sockets

\* Target::parse on each entry; an entry it refuses is skipped.
parse(specs) == SelectSeq(specs, LAMBDA s : s # Bad)

\* SocketSet::add takes the lowest free slot.
FreeHandle(ss) == Min((0 .. Cardinality(DOMAIN ss)) \ DOMAIN ss)

WithSocket(ss, h, s) == [g \in DOMAIN ss \cup {h} |-> IF g = h THEN s ELSE ss[g]]
WithoutSocket(ss, h) == [g \in DOMAIN ss \ {h} |-> ss[g]]

\* A new listener, with its socket, at the end of the vector.
add_listener(d, port, target) ==
  LET h == FreeHandle(d.sockets)
  IN [d EXCEPT
        !.listeners = Append(@, [port |-> port, target |-> target, handle |-> h]),
        !.sockets = WithSocket(@, h, [port |-> port, state |-> "Listen"])]

\* 0 when no listener has the port.
position(d, port) == SelectInSeq(d.listeners, LAMBDA l : l.port = port)

\* Vec::swap_remove: the last element takes the place of the removed one.
swap_remove(s, i) == [j \in 1 .. Len(s) - 1 |-> IF j = i THEN s[Len(s)] ELSE s[j]]

\* Seeded fault: the listener's socket stays in the set.
RemoveKeepsSocket(d, i) == [d EXCEPT !.listeners = swap_remove(@, i)]

RemoveOne(d, i) == [d EXCEPT !.listeners = swap_remove(@, i),
                             !.sockets = WithoutSocket(@, d.listeners[i].handle)]

\* while let Some(i) = position(port)
RemovePort(d, port) ==
  LET n == Cardinality({i \in DOMAIN d.listeners : d.listeners[i].port = port})
  IN FoldLeft(LAMBDA e, k : RemoveOne(e, position(e, port)), d, [k \in 1 .. n |-> k])

AddTarget(d, t) == IF position(d, t.port) # 0 THEN d
                   ELSE add_listener(d, t.port, t.target)

add_targets(d, specs) == FoldLeft(AddTarget, d, parse(specs))

remove_targets(d, specs) ==
  FoldLeft(LAMBDA e, t : RemovePort(e, t.port), d, parse(specs))

\* Seeded fault: a port that is in use keeps its old destination.
UpdateOnlyAdds(d, t) ==
  IF position(d, t.port) = 0 THEN add_listener(d, t.port, t.target) ELSE d

\* The second half of reconcile_targets: update the first listener on the
\* port, or add one.
UpdateTarget(d, t) ==
  IF position(d, t.port) = 0 THEN add_listener(d, t.port, t.target)
  ELSE [d EXCEPT !.listeners[position(d, t.port)].target = t.target]

reconcile_targets(d, specs) ==
  LET keep == {t.port : t \in ToSet(parse(specs))}
      drop_ports == SelectSeq([i \in DOMAIN d.listeners |-> d.listeners[i].port],
                              LAMBDA p : p \notin keep)
  IN FoldLeft(UpdateTarget, FoldLeft(RemovePort, d, drop_ports), parse(specs))

\* The listeners of wg_data.targets.tcp: bring_up adds one for every entry.
bring_up(specs) ==
  FoldLeft(LAMBDA d, t : add_listener(d, t.port, t.target),
           [listeners |-> <<>>, conns |-> {}, sockets |-> <<>>], parse(specs))
-------------------------------------------------------------------------------
\* The listener's socket becomes the connection's; a new one takes its place.
Promote(d, i, port) ==
  LET l == d.listeners[i]
  IN add_listener([d EXCEPT !.listeners = swap_remove(@, i), !.conns = @ \cup {l.handle}],
                  port, l.target)

\* Indices of the listeners to promote, highest first.
promoted(d) ==
  SetToSortSeq({i \in DOMAIN d.listeners :
                  /\ is_active(d.sockets[d.listeners[i].handle])
                  /\ d.listeners[i].handle \notin d.conns}, >)

\* Seeded fault: lowest index first, so swap_remove moves the entries still to
\* be promoted.
AcceptLowestFirst(d) ==
  FoldLeft(LAMBDA e, i : Promote(e, i, d.listeners[i].port), d, Reverse(promoted(d)))

accept_new(d) ==
  FoldLeft(LAMBDA e, i : Promote(e, i, d.listeners[i].port), d, promoted(d))

\* close(): a socket that listens closes at once, one with a connection sends
\* its FIN and closes when the peer has answered.
Close(s) == [s EXCEPT !.state = CASE @ = "Listen"      -> "Closed"
                                  [] @ = "SynReceived" -> "Open"
                                  [] OTHER             -> @]

\* shuttle closes the connections whose target is done and flushed, and frees
\* every connection that is closed together with its socket.
shuttle(d, done) ==
  LET after == [h \in DOMAIN d.sockets |-> IF h \in done THEN Close(d.sockets[h])
                                           ELSE d.sockets[h]]
      open == {h \in d.conns : is_open(after[h])}
  IN [d EXCEPT !.conns = open,
               !.sockets = [h \in DOMAIN after \ (d.conns \ open) |-> after[h]]]
-------------------------------------------------------------------------------
Init ==
  /\ \E specs \in SpecLists :
       /\ \A i, j \in DOMAIN parse(specs) :
            parse(specs)[i].port = parse(specs)[j].port => i = j
       /\ listeners = bring_up(specs).listeners
       /\ conns = bring_up(specs).conns
       /\ sockets = bring_up(specs).sockets
       /\ table = Replaced(specs)
  /\ io = "idle"

\* The recv arm.  It drops a step_io that has not finished.
TcpAdd(specs) == /\ Becomes(add_targets(Plane, specs)) /\ io' = "idle"
                 /\ table' = Added(table, specs)

TcpRemove(specs) == /\ Becomes(remove_targets(Plane, specs)) /\ io' = "idle"
                    /\ table' = Removed(table, specs)

Sync(specs) == /\ Becomes(reconcile_targets(Plane, specs)) /\ io' = "idle"
               /\ table' = Replaced(specs)

\* Any other arm completes while step_io waits.
Cancel == io = "polled" /\ io' = "idle" /\ UNCHANGED <<listeners, conns, sockets, table>>

\* What a packet does to a socket: a SYN, the ACK of the handshake, a RST in
\* SYN-RECEIVED (the socket listens again), a RST or the end of the close.
TcpStep(h, from, to) ==
  /\ h \in DOMAIN sockets /\ sockets[h].state = from
  /\ sockets' = [sockets EXCEPT ![h].state = to]

Active == Cardinality({h \in DOMAIN sockets : is_active(sockets[h])})

Poll ==
  /\ io = "idle" /\ io' = "polled"
  /\ \/ \E h \in DOMAIN sockets : \/ TcpStep(h, "Listen", "SynReceived")
                                     /\ Active < MaxConns
                                     /\ Cardinality(conns) < MaxConns
                                  \/ TcpStep(h, "SynReceived", "Open")
                                  \/ TcpStep(h, "SynReceived", "Listen")
                                  \/ TcpStep(h, "Open", "Closed")
     \/ UNCHANGED sockets
  /\ UNCHANGED <<listeners, conns, table>>

Serve ==
  /\ io = "polled" /\ io' = "idle"
  /\ \E done \in SUBSET conns : Becomes(shuttle(accept_new(Plane), done))
  /\ UNCHANGED table

Next == \/ \E specs \in SpecLists : TcpAdd(specs) \/ TcpRemove(specs) \/ Sync(specs)
        \/ Poll \/ Cancel \/ Serve

Spec == Init /\ [][Next]_vars
-------------------------------------------------------------------------------
\* Every socket has one owner: a listener or a connection.  So no lookup of
\* a handle in the socket set fails, no socket is served twice although
\* handles are reused, and none is leaked; and a listener's socket is bound
\* to the listener's port.  swap_remove in accept_new and remove_targets is
\* what could break it.
SocketsOwned ==
  LET owner == [i \in DOMAIN listeners |-> listeners[i].handle]
  IN /\ IsInjective(owner)
     /\ conns \cap ToSet(owner) = {}
     /\ conns \cup ToSet(owner) = DOMAIN sockets
     /\ \A i \in DOMAIN listeners : sockets[owner[i]].port = listeners[i].port

\* "so the listeners Vec keeps exactly one entry per port", accept_new.
OneListenerPerPort ==
  \A i, j \in DOMAIN listeners : listeners[i].port = listeners[j].port => i = j

\* The listeners are the targets the messages ask for, port by port, whatever
\* connections come and go between them and in whatever order the vector is:
\* the first of two additions counts and the last of two entries of a sync.
ListenersMatchTable ==
  /\ {listeners[i].port : i \in DOMAIN listeners} = DOMAIN table
  /\ \A i \in DOMAIN listeners : listeners[i].target = table[listeners[i].port]
===============================================================================
