------------------------------ MODULE TunnelPair ------------------------------
(***************************************************************************)
(* Two ends of a WireGuard tunnel, each driven as step_io (newt tunnel.rs) *)
(* and Router (olm router.rs) drive a Pump (wg.rs): packets of the host    *)
(* are encapsulated, a datagram is decapsulated and the queue drained      *)
(* after it, the timers are updated.  The network loses, repeats and       *)
(* reorders datagrams: it is the set of all that were sent, any of which   *)
(* may arrive any number of times.  An end may be torn down and brought up *)
(* again, with nothing but its static keys.                                *)
(***************************************************************************)
EXTENDS Tunn, FiniteSets, SequencesExt, TLC

CONSTANTS
  Packets,               \* packets of the hosts, each sent once
  MaxEph,                \* bound: handshake messages an end sends
  MaxTime,               \* bound: units of time
  MaxRestarts            \* bound: restarts

Ends == {"site", "node"}
Other(p) == IF p = "site" THEN "node" ELSE "site"

VARIABLES
  end,                   \* the two Tunn
  net,                   \* datagrams sent
  seen,                  \* per end, the data packets its sessions have accepted
  used,                  \* per end, ephemeral keys used
  given, got,            \* history: packets of each host, and those handed to it
  held,                  \* history: the session keys each end has had
  passed,                \* history: handshake messages handled in this unit of time
  time, restarts

vars == <<end, net, seen, used, given, got, held, passed, time, restarts>>

Init ==
  /\ end = [p \in Ends |-> new]
  /\ net = {}
  /\ seen = [p \in Ends |-> {}]
  /\ used = [p \in Ends |-> 0]
  /\ given = [p \in Ends |-> {}] /\ got = [p \in Ends |-> <<>>]
  /\ held = [p \in Ends |-> {}] /\ passed = [p \in Ends |-> 0]
  /\ time = 0 /\ restarts = 0

\* The k-th ephemeral key of an end: no two are equal, later ones are larger.
Eph(p, k) == 2 * (used[p] + k) + IF p = "site" THEN 1 ELSE 0

\* A data packet carries the next counter of its key.
Counted(p, sent, m) ==
  IF m.type # "data" THEN m @@ [from |-> p]
  ELSE m @@ [from |-> p, ctr |-> Cardinality({d \in sent : d.type = "data" /\ d.from = p /\ d.key = m.key})]

\* End p becomes r.e and sends r.out.
Becomes(p, r) ==
  LET handshakes == Len(SelectSeq(r.out, LAMBDA m : m.type # "data"))
  IN /\ used[p] + handshakes <= MaxEph
     /\ used' = [used EXCEPT ![p] = @ + handshakes]
     /\ end' = [end EXCEPT ![p] = r.e]
     /\ net' = FoldLeft(LAMBDA n, m : n \cup {Counted(p, n, m)}, net, r.out)
     /\ held' = [held EXCEPT ![p] = @ \cup {r.e.sessions[s].key : s \in Slots}]

\* A packet of p's host.
HostSends(p, pkt) ==
  /\ pkt \notin given["site"] \cup given["node"]
  /\ given' = [given EXCEPT ![p] = @ \cup {pkt}]
  /\ Becomes(p, encapsulate(end[p], pkt, Eph(p, 1)))
  /\ UNCHANGED <<seen, got, passed, time, restarts>>

\* Pump::initiate_handshake, when the tunnel is brought up.
Initiate(p) ==
  /\ end[p].state = Idle /\ end[p].next_index = 0
  /\ Becomes(p, format_handshake_initiation(end[p], FALSE, Eph(p, 1)))
  /\ UNCHANGED <<seen, given, got, passed, time, restarts>>

\* Seeded fault: the counter is not looked at.
AcceptsAnyCounter(p, m) == ForSession(end[p], m)

\* Session::receive_packet_data.
Accepts(p, m) == ForSession(end[p], m) /\ <<m.key, m.ctr>> \notin seen[p]

\* decapsulate: a packet that is refused changes nothing but the count.
Handled(p, m) ==
  LET e == IF m.type = "data" THEN end[p] ELSE CountOne(end[p])
  IN IF ~Verified(end[p], m) THEN Ret(e, <<>>)
     ELSE CASE m.type = "init" -> handle_handshake_init(e, m, Eph(p, 1))
            [] m.type = "resp" -> handle_handshake_response(e, m)
            [] OTHER -> Ret(IF Accepts(p, m) THEN handle_data(e, m) ELSE e, <<>>)

\* Seeded fault: the queue is drained after an answer to the network only.
DrainedAfterReply(p, r) == IF r.out = <<>> THEN r ELSE
  LET d == drain(r.e, Eph(p, 1 + Len(r.out))) IN Ret(d.e, r.out \o d.out)

Drained(p, r) == LET d == drain(r.e, Eph(p, 1 + Len(r.out))) IN Ret(d.e, r.out \o d.out)

Receive(p, m) ==
  /\ m.from = Other(p)
  /\ Becomes(p, Drained(p, Handled(p, m)))
  /\ LET opens == m.type = "data" /\ Accepts(p, m)
     IN /\ seen' = IF opens THEN [seen EXCEPT ![p] = @ \cup {<<m.key, m.ctr>>}] ELSE seen
        /\ got' = IF opens /\ m.pkt # Empty THEN [got EXCEPT ![p] = Append(@, m.pkt)] ELSE got
  /\ passed' = IF m.type # "data" /\ Verified(end[p], m) THEN [passed EXCEPT ![p] = @ + 1] ELSE passed
  /\ UNCHANGED <<given, time, restarts>>

UpdateTimers(p) ==
  /\ end[p].timers["TimeCurrent"] > 0
  /\ Becomes(p, update_timers(end[p], Eph(p, 1)))
  /\ UNCHANGED <<seen, given, got, passed, time, restarts>>

TimePasses ==
  /\ time < MaxTime /\ time' = time + 1
  /\ end' = [p \in Ends |-> Elapse(end[p])]
  /\ passed' = [p \in Ends |-> 0]
  /\ UNCHANGED <<net, seen, used, given, got, held, restarts>>

\* The data plane is dropped and brought up again.
Restart(p) ==
  /\ restarts < MaxRestarts /\ restarts' = restarts + 1
  /\ end[p] # new
  /\ end' = [end EXCEPT ![p] = new]
  /\ seen' = [seen EXCEPT ![p] = {}] /\ passed' = [passed EXCEPT ![p] = 0]
  /\ UNCHANGED <<net, used, given, got, held, time>>

Next ==
  \/ \E p \in Ends :
       \/ \E pkt \in Packets : HostSends(p, pkt)
       \/ Initiate(p)
       \/ \E m \in net : Receive(p, m)
       \/ UpdateTimers(p)
       \/ Restart(p)
  \/ TimePasses

Spec == Init /\ [][Next]_vars
-------------------------------------------------------------------------------
\* Two ends that hold a session with the same keys agree on its indexes: what
\* one sends on it the other finds, whichever of the handshakes in flight,
\* retransmitted, crossed or answered late, the session comes from.
SessionsAgree == \A s, t \in Slots :
  LET a == end["site"].sessions[s] b == end["node"].sessions[t]
  IN a # NoSession /\ b # NoSession /\ a.key = b.key => a.local = b.peer /\ a.peer = b.local

\* No packet is handed to a host twice, and none that the other host has not
\* sent, although the network repeats datagrams and ends restart.
DeliveredOnce == \A p \in Ends : IsInjective(got[p]) /\ ToSet(got[p]) \subseteq given[Other(p)]

\* An end sends on the session it has chosen only once the other end has its
\* keys too: a responder waits for the first packet of the initiator.
CurrentIsConfirmed == \A p \in Ends :
  LET s == CurrentSession(end[p])
  IN s # NoSession /\ s.local = end[p].current => s.key \in held[Other(p)]

\* A packet waits in the queue only while there is no session to send it on:
\* completing a handshake, on either side, flushes all of them.
NoPacketStranded == \A p \in Ends :
  CurrentSession(end[p]) # NoSession => end[p].packet_queue = <<>>

\* However often handshake messages are repeated, an end handles no more of
\* them in a period than twice the limit of RateLimiter: the limit before the
\* reset of update_timers and the limit after it.
HandshakesLimited == \A p \in Ends : passed[p] <= 2 * PEER_HANDSHAKE_RATE_LIMIT
===============================================================================
