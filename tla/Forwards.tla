------------------------------- MODULE Forwards -------------------------------
(***************************************************************************)
(* The userspace backend of the client (newt/src/olm/userspace.rs) under   *)
(* the loop of newt/src/olm/mod.rs: local applications connect to the      *)
(* forwards, drive accepts them one at a time, originates a smoltcp        *)
(* connection from a port of its own for each, polls the stack, and moves  *)
(* bytes.                                                                  *)
(*                                                                         *)
(* drive only awaits in next_accept, and is dropped there whenever another *)
(* arm of select! is ready; from the accept on it is one action.  Its      *)
(* pause of 20 ms starts over each time, which is what waited counts.      *)
(* Bridge has the bytes and the proxy task; here what an application has   *)
(* written is one chunk that was taken or not.                             *)
(* smoltcp, the remote ends and the applications are external.  A remote   *)
(* end sends within its window, of one segment.                            *)
(***************************************************************************)
EXTENDS Integers, FiniteSets

CONSTANTS
  Apps,                  \* local applications, with one connection at a time
  N_FORWARDS,            \* configured forwards, in the order of the vector
  Unaddressable,         \* forwards with a destination smoltcp refuses
  Handles,               \* socket handles
  FIRST_PORT, LAST_PORT, \* 20000, 60000
  PAUSE,                 \* the pause of drive, in steps of time
  MaxConnects,           \* bound: connections the applications make
  MaxFaults              \* bound: sessions that fail

Listeners == 1 .. N_FORWARDS
PORTS == LAST_PORT - FIRST_PORT + 1

ASSUME ForwardsAssumption ==
  /\ FIRST_PORT \in Nat /\ LAST_PORT \in Nat /\ FIRST_PORT < LAST_PORT
  /\ N_FORWARDS \in Nat /\ Unaddressable \subseteq Listeners
  /\ Handles \subseteq Nat /\ PAUSE \in Nat /\ MaxConnects \in Nat /\ MaxFaults \in Nat

VARIABLES
  backend,               \* UserspaceBackend
  app,                   \* per application: idle, waiting for accept, or bridged
  to,                    \* the forward it connects to
  unread,                \* applications with bytes the loop has not taken
  gone,                  \* applications that have closed their connection
  connects,              \* connections so far
  waited,                \* how much of its pause drive has waited
  faults

apps == <<app, to, unread, gone, connects>>
vars == <<backend, apps, waited, faults>>

States == {"SynSent", "Established", "CloseWait", "FinWait", "LastAck", "Closed"}
Kinds == {"syn-ack", "data", "fin", "ack", "rst"}

\* A backend with no connections; opened counts those it has made.
NoSocket == [h \in {} |-> 0]
new == [next_port |-> FIRST_PORT, conns |-> NoSocket, sockets |-> NoSocket, rx |-> {},
        opened |-> 0]

Init ==
  /\ backend = new
  /\ app = [a \in Apps |-> "idle"] /\ to = [a \in Apps |-> 1]
  /\ unread = {} /\ gone = {} /\ connects = 0
  /\ waited = 0 /\ faults = 0
-------------------------------------------------------------------------------
\* Seeded fault: the last port is never used and the first comes too early.
NextPortEarly(p) == IF p >= LAST_PORT - 1 THEN FIRST_PORT ELSE p + 1

\* alloc_port
NextPort(p) == IF p >= LAST_PORT THEN FIRST_PORT ELSE p + 1

\* SocketSet::add takes the first free slot.
FreeHandle(b) == {h \in Handles \ DOMAIN b.sockets :
                    \A g \in Handles \ DOMAIN b.sockets : h <= g}

Bridge(a, p, n) == [app |-> a, port |-> p, born |-> n, pending |-> FALSE, app_done |-> FALSE]

With(f, h, v) == [g \in DOMAIN f \cup {h} |-> IF g = h THEN v ELSE f[g]]

\* A connect that fails leaves nothing: the socket is removed, the stream dropped.
open_outgoing(b, a, h) ==
  LET p == [b EXCEPT !.next_port = NextPort(@), !.opened = @ + 1]
  IN IF to[a] \in Unaddressable THEN p
     ELSE [p EXCEPT !.sockets = With(@, h, "SynSent"),
                    !.conns = With(@, h, Bridge(a, b.next_port, b.opened))]
-------------------------------------------------------------------------------
\* A segment is for the first socket with its addresses.
Matches(b, s, h) == b.conns[h].port = s.port /\ to[b.conns[h].app] = s.forward

Segments(b, h) ==
  {s.kind : s \in {r \in b.rx : /\ Matches(b, r, h)
                                /\ \A g \in DOMAIN b.conns : Matches(b, r, g) => h <= g}}

\* The state of a socket after what the remote end sent.  Closed stands for
\* TIME-WAIT too: in neither is the socket open.  Sequence numbers are left out.
AfterSegments(st, ks) ==
  CASE st = "SynSent" /\ "syn-ack" \in ks  -> "Established"
    [] st = "Established" /\ "fin" \in ks  -> "CloseWait"
    [] \/ st = "FinWait" /\ "fin" \in ks
       \/ st = "LastAck" /\ "ack" \in ks
       \/ "rst" \in ks                     -> "Closed"
    [] OTHER                               -> st

\* Stack::poll takes everything that was delivered.
Polled(b) ==
  [b EXCEPT !.rx = {},
            !.sockets = [h \in DOMAIN @ |-> AfterSegments(@[h], Segments(b, h))]]
-------------------------------------------------------------------------------
\* try_recv of the channel: a chunk, or that the task is gone and left none.
Takes(c) == ~c.pending /\ c.app \in unread
Disconnected(c) == ~c.pending /\ c.app \notin unread /\ c.app \in gone

can_send(st) == st \in {"Established", "CloseWait"}

\* The Bridge after shuttle.
Shuttled(c, st) == [c EXCEPT !.pending = (c.pending \/ Takes(c)) /\ ~can_send(st),
                             !.app_done = @ \/ Disconnected(c)]

\* Seeded fault: the socket is closed only once it can send.
AfterCloseIfOpen(c, st) ==
  IF ~(c.app_done /\ ~c.pending) THEN st
  ELSE CASE st = "Established" -> "FinWait"
         [] st = "CloseWait"   -> "LastAck"
         [] OTHER              -> st

\* close(), for the Bridge after shuttle.
AfterClose(c, st) ==
  IF ~(c.app_done /\ ~c.pending) THEN st
  ELSE CASE st = "Established" -> "FinWait"
         [] st = "CloseWait"   -> "LastAck"
         [] st = "SynSent"     -> "Closed"
         [] OTHER              -> st

\* The connections shuttle reaps.
Reaped(b) == {h \in DOMAIN b.conns :
                AfterClose(Shuttled(b.conns[h], b.sockets[h]), b.sockets[h]) = "Closed"}

\* Seeded fault: the Bridge is dropped and the socket stays.
shuttle_keeps_socket(b) ==
  LET keep == DOMAIN b.conns \ Reaped(b)
  IN [b EXCEPT !.conns = [h \in keep |-> Shuttled(b.conns[h], b.sockets[h])],
               !.sockets = [h \in DOMAIN b.sockets |->
                              AfterClose(Shuttled(b.conns[h], b.sockets[h]), b.sockets[h])]]

shuttle(b) ==
  LET keep == DOMAIN b.conns \ Reaped(b)
  IN [b EXCEPT !.conns = [h \in keep |-> Shuttled(b.conns[h], b.sockets[h])],
               !.sockets = [h \in keep |->
                              AfterClose(Shuttled(b.conns[h], b.sockets[h]), b.sockets[h])]]

\* The applications of some connections.
Served(b, hs) == {b.conns[h].app : h \in hs}

\* drive after next_accept: poll and shuttle a backend, and the connections of
\* the applications that are reaped or were refused are over.
Drive(b, refused) == \E p \in {Polled(b)} : \E ended \in {Served(p, Reaped(p)) \cup refused} :
  /\ backend' = shuttle(p)
  /\ app' = [a \in Apps |-> CASE a \in ended -> "idle"
                              [] a \in Served(p, DOMAIN p.conns) \ ended -> "bridged"
                              [] OTHER -> app[a]]
  /\ unread' = unread \ (ended \cup Served(p, {h \in DOMAIN p.conns : Takes(p.conns[h])}))
  /\ gone' = gone \ ended
  /\ waited' = 0
  /\ UNCHANGED <<to, connects, faults>>

\* Seeded fault: drive looks at the first listener only.
FirstListener(f) == f = 1

\* select_all resolves with the first listener that has a connection.
Ready(f) == /\ \E a \in Apps : app[a] = "waiting" /\ to[a] = f
            /\ \A a \in Apps : app[a] = "waiting" => to[a] >= f

DriveAccepts == \E a \in Apps : \E h \in FreeHandle(backend) :
  /\ app[a] = "waiting" /\ Ready(to[a])
  /\ \E b \in {open_outgoing(backend, a, h)} :
       Drive(b, IF to[a] \in Unaddressable THEN {a} ELSE {})

\* Seeded fault: without a new connection the stack is not polled.
DriveIdleUnpolled == /\ waited = PAUSE /\ waited' = 0
                     /\ UNCHANGED <<backend, apps, faults>>

\* The pause ends without a connection.
DriveIdle == waited = PAUSE /\ Drive(backend, {})

TimePasses == /\ waited < PAUSE /\ waited' = waited + 1
              /\ UNCHANGED <<backend, apps, faults>>

\* The UDP arm: a segment for a connection is delivered; drive is dropped and
\* starts again.
Deliver(h, k) ==
  /\ h \in DOMAIN backend.conns
  /\ LET st == backend.sockets[h]
         s == [port |-> backend.conns[h].port, forward |-> to[backend.conns[h].app], kind |-> k]
     IN /\ \/ k = "syn-ack" /\ st = "SynSent"
           \/ k \in {"data", "fin"} /\ st \in {"Established", "FinWait"}
           \/ k = "ack" /\ st = "LastAck"
           \/ k = "rst"
        /\ \A r \in backend.rx : ~Matches(backend, r, h)
        /\ backend' = [backend EXCEPT !.rx = @ \cup {s}]
  /\ waited' = 0
  /\ UNCHANGED <<apps, faults>>

\* The session fails, an accept may be what fails: everything is dropped, and
\* a new backend listens once the server has answered.
SessionFails ==
  /\ faults < MaxFaults /\ faults' = faults + 1
  /\ backend' = new /\ waited' = 0
  /\ app' = [a \in Apps |-> "idle"] /\ unread' = {} /\ gone' = {}
  /\ UNCHANGED <<to, connects>>
-------------------------------------------------------------------------------
\* The applications.

AppConnects(a) ==
  /\ app[a] = "idle" /\ app' = [app EXCEPT ![a] = "waiting"]
  /\ connects < MaxConnects /\ connects' = connects + 1
  /\ \E f \in Listeners : to' = [to EXCEPT ![a] = f]
  /\ UNCHANGED <<backend, unread, gone, waited, faults>>

AppWrites(a) ==
  /\ app[a] \in {"waiting", "bridged"} /\ a \notin gone
  /\ unread' = unread \cup {a}
  /\ UNCHANGED <<backend, app, to, gone, connects, waited, faults>>

AppCloses(a) ==
  /\ app[a] \in {"waiting", "bridged"}
  /\ gone' = gone \cup {a}
  /\ UNCHANGED <<backend, app, to, unread, connects, waited, faults>>

Next == \/ DriveAccepts \/ DriveIdle \/ TimePasses \/ SessionFails
        \/ \E h \in Handles : \E k \in Kinds : Deliver(h, k)
        \/ \E a \in Apps : AppConnects(a) \/ AppWrites(a) \/ AppCloses(a)

Spec == Init /\ [][Next]_vars

\* An accept that is ready is one of the arms select! picks from at random;
\* time passes, and a pause that is over ends unless another arm comes first.
FairSpec == Spec /\ WF_vars(DriveAccepts) /\ WF_vars(TimePasses) /\ WF_vars(DriveIdle)
-------------------------------------------------------------------------------
\* Every socket in the set is open and has its Bridge, every Bridge its socket
\* (shuttle would panic on a handle without one), and every application that
\* was accepted and not told the end is served by exactly one of them: nothing
\* leaks when a connect is refused, a connection ends, or drive is dropped.
SocketsOwned ==
  LET conns == backend.conns
  IN /\ DOMAIN conns = DOMAIN backend.sockets
     /\ \A h \in DOMAIN conns : backend.sockets[h] # "Closed"
     /\ \A g, h \in DOMAIN conns : conns[g].app = conns[h].app => g = h
     /\ {conns[h].app : h \in DOMAIN conns} = {a \in Apps : app[a] = "bridged"}

\* alloc_port hands out ports without looking which are in use: two open
\* connections have the same one only if the whole range was handed out between
\* them, so segments of one are not taken for the other's.
PortsDistinct ==
  LET conns == backend.conns
  IN \A g, h \in DOMAIN conns :
       /\ conns[g].port \in FIRST_PORT .. LAST_PORT
       /\ g # h /\ conns[g].port = conns[h].port =>
            \/ conns[h].born - conns[g].born >= PORTS
            \/ conns[g].born - conns[h].born >= PORTS

\* "so the caller's select loop can interleave inbound delivery between calls",
\* drive: what was delivered is polled, although every delivery makes the pause
\* of drive start over.  It rests on the windows of the remote ends.
InboundIsPolled == backend.rx # {} ~> backend.rx = {}

\* Every local connection is accepted, bridged or closed, whichever forward it
\* is for and however many others wait.
EveryAppAccepted == \A a \in Apps : app[a] = "waiting" ~> app[a] # "waiting"

\* "Half-close once the app finished and everything is flushed", shuttle: when
\* the application has closed, the connection is freed or its FIN is sent, and
\* the next move is the remote end's.  A dial that is not answered is given up
\* only if nothing the application wrote waits for it.
CloseIsPassedOn == \A a \in Apps :
  a \in gone /\ app[a] = "bridged" ~>
    \/ app[a] # "bridged"
    \/ \E h \in DOMAIN backend.conns :
         /\ backend.conns[h].app = a
         /\ \/ backend.sockets[h] \in {"FinWait", "LastAck"}
            \/ backend.sockets[h] = "SynSent" /\ backend.conns[h].pending
===============================================================================
