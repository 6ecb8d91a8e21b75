---------------------------- MODULE ForwardsProofs ----------------------------
(***************************************************************************)
(* Proofs about the userspace backend, for every set of applications and   *)
(* of handles, every port range and every number of forwards.              *)
(*                                                                         *)
(* The n-th connection has port PortOf(n), and born says which one it is:  *)
(* two ports are equal only a whole range apart.  A backend is taken       *)
(* through accept, poll and shuttle by one lemma each; between poll and    *)
(* shuttle a socket may be Closed, so what they share is Owns, which is    *)
(* SocketsOwned without that and for a given set of applications.          *)
(***************************************************************************)
EXTENDS Forwards, TLAPS

PortOf(n) == FIRST_PORT + (n % PORTS)

Bridges == [app : Apps, port : Nat, born : Nat, pending : BOOLEAN, app_done : BOOLEAN]

Maps(V) == UNION {[hs -> V] : hs \in SUBSET Handles}

Backends == [next_port : Nat, conns : Maps(Bridges), sockets : Maps(States),
             rx : SUBSET [port : Nat, forward : Nat, kind : Kinds], opened : Nat]

\* The ports a backend has handed out.
Ports(b) ==
  /\ b.next_port = PortOf(b.opened)
  /\ \A h \in DOMAIN b.conns : /\ b.conns[h].port = PortOf(b.conns[h].born)
                               /\ b.conns[h].born < b.opened
  /\ \A g, h \in DOMAIN b.conns : b.conns[g].born = b.conns[h].born => g = h

\* Its connections are those of the applications in served.
Owns(b, served) ==
  /\ DOMAIN b.conns = DOMAIN b.sockets
  /\ \A g, h \in DOMAIN b.conns : b.conns[g].app = b.conns[h].app => g = h
  /\ Served(b, DOMAIN b.conns) = served

Bridged == {a \in Apps : app[a] = "bridged"}

Inv ==
  /\ backend \in Backends
  /\ app \in [Apps -> {"idle", "waiting", "bridged"}]
  /\ to \in [Apps -> Nat]
  /\ Ports(backend)
  /\ Owns(backend, Bridged)
  /\ \A h \in DOMAIN backend.sockets : backend.sockets[h] # "Closed"
-------------------------------------------------------------------------------
(* Arithmetic of the port range.                                           *)

LEMMA RangePositive == PORTS \in Nat \ {0}
  BY ForwardsAssumption DEF PORTS

LEMMA DivMod ==
  \A a \in Nat, n \in Nat \ {0} :
    /\ a % n \in 0 .. n - 1
    /\ a \div n \in Int
    /\ a = n * (a \div n) + (a % n)
  OBVIOUS

LEMMA MultipleApart ==
  \A n \in Nat \ {0}, k \in Int : /\ k >= 1 => n * k >= n
                                  /\ k <= -1 => n * k <= -n
  OBVIOUS

\* Numbers with the same remainder are equal or a whole range apart.
LEMMA SameRemainder ==
  ASSUME NEW n \in Nat \ {0}, NEW a \in Nat, NEW b \in Nat,
         a % n = b % n, a # b
  PROVE  a - b >= n \/ b - a >= n
  <1> DEFINE k == (a \div n) - (b \div n)
  <1>1. k \in Int
    BY DivMod
  <1>2. a - b = n * k
    BY DivMod
  <1> HIDE DEF k
  <1>3. k # 0
    BY <1>2
  <1>4. n * k >= n \/ n * k <= -n
    BY <1>1, <1>3, MultipleApart
  <1> QED
    BY <1>2, <1>4

\* Quotient and remainder are determined by the division equation.
LEMMA DivModUnique ==
  ASSUME NEW n \in Nat \ {0}, NEW q \in Int, NEW r \in 0 .. n - 1
  PROVE  (n * q + r) % n = r
  OBVIOUS

\* The remainder counts up and starts over.
LEMMA NextRemainder ==
  ASSUME NEW n \in Nat \ {0}, NEW a \in Nat
  PROVE  (a + 1) % n = IF a % n = n - 1 THEN 0 ELSE (a % n) + 1
  <1> DEFINE q == a \div n
             r == a % n
  <1>1. r \in 0 .. n - 1 /\ q \in Int /\ a = n * q + r
    BY DivMod
  <1> HIDE DEF q, r
  <1>2. CASE r = n - 1
    <2>1. a + 1 = n * (q + 1) + 0
      BY <1>1, <1>2
    <2>2. (n * (q + 1) + 0) % n = 0
      <3>1. q + 1 \in Int /\ 0 \in 0 .. n - 1
        BY <1>1
      <3> QED
        BY ONLY <3>1, n \in Nat \ {0}, DivModUnique
    <2> QED
      BY <1>2, <2>1, <2>2 DEF r
  <1>3. CASE r # n - 1
    <2>1. a + 1 = n * q + (r + 1) /\ r + 1 \in 0 .. n - 1
      BY <1>1, <1>3
    <2>2. (n * q + (r + 1)) % n = r + 1
      BY ONLY <1>1, <2>1, n \in Nat \ {0}, DivModUnique
    <2> QED
      BY <1>3, <2>1, <2>2 DEF r
  <1> QED
    BY <1>2, <1>3

\* PortOf stays in the range, NextPort goes from one connection's port to the
\* next one's, and a port comes back after a whole range.
LEMMA PortNumbers ==
  ASSUME NEW m \in Nat
  PROVE  /\ PortOf(m) \in FIRST_PORT .. LAST_PORT
         /\ NextPort(PortOf(m)) = PortOf(m + 1)
         /\ \A n \in Nat : m # n /\ PortOf(m) = PortOf(n) => m - n >= PORTS \/ n - m >= PORTS
  <1>1. m % PORTS \in 0 .. PORTS - 1
    BY RangePositive, DivMod
  <1>2. PORTS - 1 = LAST_PORT - FIRST_PORT /\ FIRST_PORT \in Nat /\ LAST_PORT \in Nat
    BY ForwardsAssumption DEF PORTS
  <1>3. (m + 1) % PORTS = IF m % PORTS = PORTS - 1 THEN 0 ELSE (m % PORTS) + 1
    BY RangePositive, NextRemainder
  <1>4. ASSUME NEW n \in Nat, m # n, PortOf(m) = PortOf(n)
        PROVE  m - n >= PORTS \/ n - m >= PORTS
    <2>1. m % PORTS = n % PORTS
      <3>1. n % PORTS \in 0 .. PORTS - 1
        BY RangePositive, DivMod
      <3> QED
        BY <1>1, <1>2, <1>4, <3>1 DEF PortOf
    <2> QED
      BY <1>4, <2>1, RangePositive, SameRemainder
  <1> QED
    BY <1>1, <1>2, <1>3, <1>4 DEF PortOf, NextPort
-------------------------------------------------------------------------------
(* Functions on some handles.                                              *)

LEMMA Shape ==
  ASSUME NEW b \in Backends
  PROVE  /\ b.next_port \in Nat /\ b.opened \in Nat
         /\ DOMAIN b.conns \subseteq Handles /\ b.conns \in [DOMAIN b.conns -> Bridges]
         /\ DOMAIN b.sockets \subseteq Handles /\ b.sockets \in [DOMAIN b.sockets -> States]
  BY DEF Backends, Maps

LEMMA BornIsNat ==
  ASSUME NEW b \in Backends, NEW h \in DOMAIN b.conns
  PROVE  b.conns[h].born \in Nat
  BY Shape DEF Bridges
-------------------------------------------------------------------------------
(* The steps of drive on a backend.                                        *)

\* A connection that is originated takes the next port, and is its
\* application's only one.
LEMMA OpenOutgoing ==
  ASSUME NEW b \in Backends, NEW a \in Apps, NEW h \in Handles \ DOMAIN b.sockets,
         NEW served, Ports(b), Owns(b, served), a \notin served,
         to[a] \notin Unaddressable
  PROVE  LET o == open_outgoing(b, a, h)
         IN o \in Backends /\ Ports(o) /\ Owns(o, served \cup {a})
  <1> DEFINE o == open_outgoing(b, a, h)
             c == Bridge(a, b.next_port, b.opened)
  <1>1. /\ b.next_port \in Nat /\ b.opened \in Nat
    BY Shape
  <1>2. c \in Bridges /\ c.app = a /\ c.port = b.next_port /\ c.born = b.opened
    BY <1>1 DEF Bridge, Bridges
  <1>3. /\ o.next_port = NextPort(b.next_port) /\ o.opened = b.opened + 1
        /\ o.conns = With(b.conns, h, c) /\ o.sockets = With(b.sockets, h, "SynSent")
        /\ o.rx = b.rx
        /\ o = [next_port |-> o.next_port, conns |-> o.conns, sockets |-> o.sockets,
                rx |-> o.rx, opened |-> o.opened]
    BY DEF open_outgoing, Backends
  <1> HIDE DEF o, c
  <1>4. DOMAIN b.conns = DOMAIN b.sockets /\ h \notin DOMAIN b.conns
    BY DEF Owns
  <1>5. /\ o.conns \in Maps(Bridges) /\ DOMAIN o.conns = DOMAIN b.conns \cup {h}
        /\ o.conns[h] = c
        /\ \A g \in DOMAIN b.conns : o.conns[g] = b.conns[g]
    <2>1. /\ o.conns \in [DOMAIN b.conns \cup {h} -> Bridges]
          /\ o.conns[h] = c
          /\ \A g \in DOMAIN b.conns \ {h} : o.conns[g] = b.conns[g]
      BY <1>2, <1>3, Shape DEF With
    <2> QED
      BY <1>4, <2>1, Shape DEF Maps
  <1>6. o.sockets \in Maps(States) /\ DOMAIN o.sockets = DOMAIN b.sockets \cup {h}
    <2>1. o.sockets \in [DOMAIN b.sockets \cup {h} -> States]
      BY <1>3, Shape DEF With, States
    <2> QED
      BY <2>1, Shape DEF Maps
  <1>7. o.next_port = PortOf(o.opened) /\ o.next_port \in Nat
    BY <1>1, <1>3, PortNumbers, ForwardsAssumption DEF Ports, NextPort
  <1>8. o \in Backends
    BY <1>1, <1>3, <1>5, <1>6, <1>7 DEF Backends
  <1>9. Ports(o)
    <2>1. \A g \in DOMAIN b.conns : b.conns[g].born < b.opened /\ b.conns[g].born \in Nat
      BY BornIsNat DEF Ports
    <2>2. \A g \in DOMAIN o.conns : /\ o.conns[g].port = PortOf(o.conns[g].born)
                                    /\ o.conns[g].born < o.opened
      BY <1>1, <1>2, <1>3, <1>5, <2>1 DEF Ports
    <2>3. \A g, k \in DOMAIN o.conns : o.conns[g].born = o.conns[k].born => g = k
      BY <1>1, <1>2, <1>5, <2>1 DEF Ports
    <2> QED
      BY <1>7, <2>2, <2>3 DEF Ports
  <1>10. Owns(o, served \cup {a})
    <2>1. \A g \in DOMAIN b.conns : b.conns[g].app # a
      BY DEF Owns, Served
    <2>2. \A g, k \in DOMAIN o.conns : o.conns[g].app = o.conns[k].app => g = k
      BY <1>2, <1>5, <2>1 DEF Owns
    <2>3. Served(o, DOMAIN o.conns) = served \cup {a}
      BY <1>2, <1>5 DEF Served, Owns
    <2> QED
      BY <1>4, <1>5, <1>6, <2>2, <2>3 DEF Owns
  <1> QED
    BY <1>8, <1>9, <1>10 DEF o

\* A connection that is refused costs a port and nothing else.
LEMMA Refused ==
  ASSUME NEW b \in Backends, NEW a, NEW h, NEW served, Ports(b), Owns(b, served),
         to[a] \in Unaddressable
  PROVE  LET o == open_outgoing(b, a, h)
         IN o \in Backends /\ Ports(o) /\ Owns(o, served)
  <1> DEFINE o == open_outgoing(b, a, h)
  <1>1. /\ b.next_port \in Nat /\ b.opened \in Nat
    BY Shape
  <1>2. /\ o.next_port = NextPort(b.next_port) /\ o.opened = b.opened + 1
        /\ o.conns = b.conns /\ o.sockets = b.sockets /\ o.rx = b.rx
        /\ o = [next_port |-> o.next_port, conns |-> o.conns, sockets |-> o.sockets,
                rx |-> o.rx, opened |-> o.opened]
    BY DEF open_outgoing, Backends
  <1> HIDE DEF o
  <1>3. o.next_port = PortOf(o.opened) /\ o.next_port \in Nat
    BY <1>1, <1>2, PortNumbers, ForwardsAssumption DEF Ports, NextPort
  <1>4. o \in Backends
    BY <1>1, <1>2, <1>3 DEF Backends
  <1>5. \A g \in DOMAIN b.conns : b.conns[g].born \in Nat
    BY BornIsNat
  <1>6. Ports(o)
    BY <1>1, <1>2, <1>3, <1>5 DEF Ports
  <1>7. Owns(o, served)
    BY <1>2 DEF Owns, Served
  <1> QED
    BY <1>4, <1>6, <1>7 DEF o

LEMMA AfterSegmentsType ==
  ASSUME NEW st \in States, NEW ks
  PROVE  AfterSegments(st, ks) \in States
  BY DEF AfterSegments, States

\* A poll changes the states of sockets only.
LEMMA PolledKeeps ==
  ASSUME NEW b \in Backends, NEW served, Ports(b), Owns(b, served)
  PROVE  Polled(b) \in Backends /\ Ports(Polled(b)) /\ Owns(Polled(b), served)
  <1> DEFINE o == Polled(b)
             socks == [h \in DOMAIN b.sockets |-> AfterSegments(b.sockets[h], Segments(b, h))]
  <1>1. o = [b EXCEPT !.rx = {}, !.sockets = socks]
    BY DEF Polled
  <1>2. socks \in [DOMAIN b.sockets -> States]
    BY Shape, AfterSegmentsType
  <1> HIDE DEF o, socks
  <1>3. /\ o.next_port = b.next_port /\ o.opened = b.opened /\ o.conns = b.conns
        /\ o.sockets = socks /\ o.rx = {}
        /\ o = [next_port |-> o.next_port, conns |-> o.conns, sockets |-> o.sockets,
                rx |-> o.rx, opened |-> o.opened]
    BY <1>1 DEF Backends
  <1>4. o.sockets \in Maps(States)
    BY <1>3, <1>2, Shape DEF Maps
  <1>5. o \in Backends
    BY <1>3, <1>4 DEF Backends
  <1>6. Ports(o)
    BY <1>3 DEF Ports
  <1>7. Owns(o, served)
    BY <1>3, <1>2 DEF Owns, Served
  <1> QED
    BY <1>5, <1>6, <1>7 DEF o

LEMMA ShuttledType ==
  ASSUME NEW c \in Bridges, NEW st
  PROVE  /\ Shuttled(c, st) \in Bridges
         /\ Shuttled(c, st).app = c.app
         /\ Shuttled(c, st).port = c.port
         /\ Shuttled(c, st).born = c.born
  BY DEF Shuttled, Bridges, Takes, Disconnected, can_send

LEMMA AfterCloseType ==
  ASSUME NEW c, NEW st \in States
  PROVE  AfterClose(c, st) \in States
  BY DEF AfterClose, States

\* What shuttle leaves is open, and what it reaps is what it ends.
LEMMA ShuttleKeeps ==
  ASSUME NEW b \in Backends, NEW served, Ports(b), Owns(b, served)
  PROVE  LET o == shuttle(b)
         IN /\ o \in Backends /\ Ports(o)
            /\ Owns(o, served \ Served(b, Reaped(b)))
            /\ \A h \in DOMAIN o.sockets : o.sockets[h] # "Closed"
  <1> DEFINE o == shuttle(b)
             keep == DOMAIN b.conns \ Reaped(b)
             conns == [h \in keep |-> Shuttled(b.conns[h], b.sockets[h])]
             socks == [h \in keep |->
                         AfterClose(Shuttled(b.conns[h], b.sockets[h]), b.sockets[h])]
  <1>1. /\ o.next_port = b.next_port /\ o.opened = b.opened /\ o.rx = b.rx
        /\ o.conns = conns /\ o.sockets = socks
        /\ o = [next_port |-> o.next_port, conns |-> o.conns, sockets |-> o.sockets,
                rx |-> o.rx, opened |-> o.opened]
    <2>1. o = [b EXCEPT !.conns = conns, !.sockets = socks]
      BY DEF shuttle
    <2> HIDE DEF o, conns, socks
    <2> QED
      BY <2>1 DEF Backends
  <1>2. \A h \in keep : /\ h \in DOMAIN b.conns /\ h \in Handles
                        /\ b.conns[h] \in Bridges /\ b.sockets[h] \in States
    BY Shape DEF Owns
  <1>3. \A h \in keep :
          AfterClose(Shuttled(b.conns[h], b.sockets[h]), b.sockets[h]) # "Closed"
    BY DEF Reaped
  <1>4. Reaped(b) \subseteq DOMAIN b.conns
    BY DEF Reaped
  <1>5. DOMAIN b.conns = keep \cup Reaped(b)
    BY <1>4
  <1> HIDE DEF o, keep
  <1>6. /\ o.conns \in [keep -> Bridges]
        /\ \A h \in keep : /\ o.conns[h].app = b.conns[h].app
                           /\ o.conns[h].port = b.conns[h].port
                           /\ o.conns[h].born = b.conns[h].born
    BY <1>1, <1>2, ShuttledType
  <1>7. o.sockets \in [keep -> States] /\ \A h \in keep : o.sockets[h] # "Closed"
    BY <1>1, <1>2, <1>3, AfterCloseType
  <1>8. o.conns \in Maps(Bridges) /\ o.sockets \in Maps(States)
    BY <1>2, <1>6, <1>7 DEF Maps
  <1>9. o \in Backends
    BY <1>1, <1>8 DEF Backends
  <1>10. Ports(o)
    BY <1>1, <1>2, <1>6 DEF Ports
  <1>11. Owns(o, served \ Served(b, Reaped(b)))
    <2>1. \A g, h \in keep : o.conns[g].app = o.conns[h].app => g = h
      BY <1>2, <1>6 DEF Owns
    <2>2. \A h \in keep : b.conns[h].app \notin Served(b, Reaped(b))
      BY <1>4, <1>2 DEF Owns, Served, keep
    <2>3. Served(o, keep) = served \ Served(b, Reaped(b))
      <3>1. Served(o, keep) = Served(b, keep)
        BY <1>6 DEF Served
      <3>2. served = Served(b, keep) \cup Served(b, Reaped(b))
        BY <1>5 DEF Owns, Served
      <3>3. Served(b, keep) \cap Served(b, Reaped(b)) = {}
        BY <2>2 DEF Served
      <3> QED
        BY <3>1, <3>2, <3>3
    <2> QED
      BY <1>6, <1>7, <2>1, <2>3 DEF Owns
  <1> QED
    BY <1>7, <1>9, <1>10, <1>11 DEF o
-------------------------------------------------------------------------------
(* The actions.                                                            *)

\* Drive on a backend that serves the bridged applications, and for an accept
\* that succeeds the one it accepted.
LEMMA DriveInv ==
  ASSUME Inv, NEW b \in Backends, NEW served \in SUBSET Apps, NEW refused \in SUBSET Apps,
         Ports(b), Owns(b, served), Bridged \subseteq served, refused \cap served = {},
         Drive(b, refused)
  PROVE  Inv'
  <1>1. PICK p \in {Polled(b)} : \E ended \in {Served(p, Reaped(p)) \cup refused} :
          /\ backend' = shuttle(p)
          /\ app' = [a \in Apps |-> CASE a \in ended -> "idle"
                                      [] a \in Served(p, DOMAIN p.conns) \ ended -> "bridged"
                                      [] OTHER -> app[a]]
          /\ to' = to
    BY DEF Drive
  <1> DEFINE ended == Served(p, Reaped(p)) \cup refused
  <1>2. p \in Backends /\ Ports(p) /\ Owns(p, served)
    BY <1>1, PolledKeeps
  <1>3. /\ backend' \in Backends /\ Ports(backend')
        /\ Owns(backend', served \ Served(p, Reaped(p)))
        /\ \A h \in DOMAIN backend'.sockets : backend'.sockets[h] # "Closed"
    BY <1>1, <1>2, ShuttleKeeps
  <1>4. app' = [a \in Apps |-> CASE a \in ended -> "idle"
                                 [] a \in served \ ended -> "bridged"
                                 [] OTHER -> app[a]]
    BY <1>1, <1>2 DEF Owns
  <1> HIDE DEF ended
  <1>5. app' \in [Apps -> {"idle", "waiting", "bridged"}]
    BY <1>4 DEF Inv
  <1>6. Bridged' = served \ ended
    BY <1>4 DEF Bridged
  <1>7. served \ ended = served \ Served(p, Reaped(p))
    BY DEF ended
  <1>8. Owns(backend, Bridged)'
    BY <1>3, <1>6, <1>7 DEF Owns, Served
  <1>9. Ports(backend)'
    BY <1>3 DEF Ports
  <1>10. to' \in [Apps -> Nat]
    BY <1>1 DEF Inv
  <1> QED
    BY <1>3, <1>5, <1>8, <1>9, <1>10 DEF Inv

\* A new backend has nothing.
LEMMA NewInv ==
  /\ new \in Backends /\ Ports(new) /\ Owns(new, {})
  /\ new.sockets = NoSocket
  <1>1. /\ new.conns = NoSocket /\ new.sockets = NoSocket /\ new.rx = {}
        /\ new.next_port = FIRST_PORT /\ new.opened = 0
        /\ new = [next_port |-> new.next_port, conns |-> new.conns,
                  sockets |-> new.sockets, rx |-> new.rx, opened |-> new.opened]
    BY DEF new
  <1>2. NoSocket \in [{} -> Bridges] /\ NoSocket \in [{} -> States] /\ DOMAIN NoSocket = {}
    BY DEF NoSocket
  <1>3. NoSocket \in Maps(Bridges) /\ NoSocket \in Maps(States)
    BY <1>2 DEF Maps
  <1>4. new \in Backends
    BY <1>1, <1>3, ForwardsAssumption DEF Backends
  <1>5. FIRST_PORT = PortOf(0)
    BY RangePositive, ForwardsAssumption DEF PortOf
  <1> QED
    BY <1>1, <1>2, <1>4, <1>5 DEF Ports, Owns, Served

LEMMA InitInv == Init => Inv
  <1> SUFFICES ASSUME Init PROVE Inv
    OBVIOUS
  <1>1. backend = new /\ Bridged = {}
    BY DEF Init, Bridged
  <1>2. \A h \in DOMAIN new.sockets : FALSE
    BY NewInv DEF NoSocket
  <1> QED
    BY <1>1, <1>2, NewInv DEF Init, Inv

LEMMA DriveAcceptsInv ==
  ASSUME Inv, DriveAccepts
  PROVE  Inv'
  <1>1. PICK a \in Apps, h \in FreeHandle(backend) :
          /\ app[a] = "waiting"
          /\ Drive(open_outgoing(backend, a, h), IF to[a] \in Unaddressable THEN {a} ELSE {})
    BY DEF DriveAccepts
  <1> DEFINE o == open_outgoing(backend, a, h)
  <1>2. /\ backend \in Backends /\ Ports(backend) /\ Owns(backend, Bridged)
        /\ a \notin Bridged /\ Bridged \subseteq Apps
        /\ h \in Handles \ DOMAIN backend.sockets
    BY <1>1 DEF Inv, Bridged, FreeHandle
  <1>3. CASE to[a] \in Unaddressable
    <2>1. o \in Backends /\ Ports(o) /\ Owns(o, Bridged)
      BY <1>2, <1>3, Refused
    <2>2. Drive(o, {a}) /\ {a} \in SUBSET Apps /\ {a} \cap Bridged = {}
      BY <1>1, <1>2, <1>3
    <2> HIDE DEF o
    <2> QED
      BY <1>2, <2>1, <2>2, DriveInv
  <1>4. CASE to[a] \notin Unaddressable
    <2>1. o \in Backends /\ Ports(o) /\ Owns(o, Bridged \cup {a})
      BY <1>2, <1>4, OpenOutgoing
    <2>2. Drive(o, {})
      BY <1>1, <1>4
    <2> HIDE DEF o
    <2> QED
      BY <1>2, <2>1, <2>2, DriveInv
  <1> QED
    BY <1>3, <1>4

LEMMA DriveIdleInv ==
  ASSUME Inv, DriveIdle
  PROVE  Inv'
  <1>1. /\ backend \in Backends /\ Ports(backend) /\ Owns(backend, Bridged)
        /\ Bridged \subseteq Apps /\ Drive(backend, {})
    BY DEF Inv, Bridged, DriveIdle
  <1> QED
    BY <1>1, DriveInv

LEMMA DeliverInv ==
  ASSUME Inv, NEW h \in Handles, NEW k \in Kinds, Deliver(h, k)
  PROVE  Inv'
  <1> DEFINE s == [port |-> backend.conns[h].port, forward |-> to[backend.conns[h].app],
                   kind |-> k]
  <1>1. /\ h \in DOMAIN backend.conns /\ backend \in Backends
        /\ backend' = [backend EXCEPT !.rx = @ \cup {s}]
        /\ app' = app /\ to' = to
    BY DEF Deliver, Inv, apps
  <1>2. s \in [port : Nat, forward : Nat, kind : Kinds]
    <2>1. backend.conns[h] \in Bridges
      BY <1>1, Shape
    <2> QED
      BY <2>1 DEF Bridges, Inv
  <1> HIDE DEF s
  <1>3. /\ backend' \in Backends /\ backend'.conns = backend.conns
        /\ backend'.sockets = backend.sockets
        /\ backend'.next_port = backend.next_port /\ backend'.opened = backend.opened
    BY <1>1, <1>2 DEF Backends
  <1>4. Ports(backend)'
    BY <1>3 DEF Ports, Inv
  <1>5. Owns(backend, Bridged)'
    BY <1>1, <1>3 DEF Owns, Served, Bridged, Inv
  <1> QED
    BY <1>1, <1>3, <1>4, <1>5 DEF Inv

LEMMA SessionFailsInv ==
  ASSUME Inv, SessionFails
  PROVE  Inv'
  <1>1. /\ backend' = new /\ app' = [a \in Apps |-> "idle"] /\ to' = to
    BY DEF SessionFails
  <1>2. /\ backend' \in Backends /\ Ports(backend') /\ Owns(backend', {})
        /\ backend'.sockets = NoSocket
    BY <1>1, NewInv
  <1>3. Bridged' = {}
    BY <1>1 DEF Bridged
  <1>4. Ports(backend)' /\ Owns(backend, Bridged)'
    BY <1>2, <1>3 DEF Ports, Owns, Served
  <1> QED
    BY <1>1, <1>2, <1>4 DEF Inv, NoSocket

\* What the applications do leaves the backend alone.
LEMMA AppInv ==
  ASSUME Inv, NEW a \in Apps, AppConnects(a) \/ AppWrites(a) \/ AppCloses(a)
  PROVE  Inv'
  <1>1. backend' = backend
    BY DEF AppConnects, AppWrites, AppCloses
  <1>2. /\ app' \in [Apps -> {"idle", "waiting", "bridged"}]
        /\ Bridged' = Bridged
    BY DEF AppConnects, AppWrites, AppCloses, Inv, Bridged
  <1>3. to' \in [Apps -> Nat]
    BY DEF AppConnects, AppWrites, AppCloses, Inv, Listeners
  <1>4. Ports(backend)' /\ Owns(backend, Bridged)'
    BY <1>1, <1>2 DEF Ports, Owns, Served, Inv
  <1> QED
    BY <1>1, <1>2, <1>3, <1>4 DEF Inv

\* Inv is inductive.
THEOREM Invariance == Spec => []Inv
  <1>1. ASSUME Inv, [Next]_vars
        PROVE  Inv'
    <2>1. CASE UNCHANGED <<backend, app, to>>
      BY <1>1, <2>1 DEF Inv, Bridged, Ports, Owns, Served
    <2>2. UNCHANGED vars => UNCHANGED <<backend, app, to>>
      BY DEF vars, apps
    <2>3. TimePasses => UNCHANGED <<backend, app, to>>
      BY DEF TimePasses, apps
    <2> QED
      BY <1>1, <2>1, <2>2, <2>3, DriveAcceptsInv, DriveIdleInv, DeliverInv,
         SessionFailsInv, AppInv DEF Next
  <1> QED
    BY <1>1, InitInv, PTL DEF Spec

\* No socket without its Bridge, no Bridge without its socket, and each
\* application that was accepted has exactly one: through every order of
\* accepts, refusals, segments, closes and failing sessions.
THEOREM EverySocketOwned == Spec => []SocketsOwned
  <1>1. Inv => SocketsOwned
    BY DEF Inv, SocketsOwned, Owns, Served, Bridged
  <1> QED
    BY <1>1, Invariance, PTL

\* Two open connections share a local port only if alloc_port has gone through
\* the whole range between them, for every range.
THEOREM PortsStayDistinct == Spec => []PortsDistinct
  <1>1. Inv => PortsDistinct
    <2> SUFFICES ASSUME Inv, NEW g \in DOMAIN backend.conns, NEW h \in DOMAIN backend.conns
                 PROVE  /\ backend.conns[g].port \in FIRST_PORT .. LAST_PORT
                        /\ g # h /\ backend.conns[g].port = backend.conns[h].port =>
                             \/ backend.conns[h].born - backend.conns[g].born >= PORTS
                             \/ backend.conns[g].born - backend.conns[h].born >= PORTS
      BY DEF PortsDistinct
    <2>1. backend.conns[g].born \in Nat /\ backend.conns[h].born \in Nat
      BY BornIsNat DEF Inv
    <2>2. /\ backend.conns[g].port = PortOf(backend.conns[g].born)
          /\ backend.conns[h].port = PortOf(backend.conns[h].born)
          /\ g # h => backend.conns[g].born # backend.conns[h].born
      BY DEF Inv, Ports
    <2> QED
      BY <2>1, <2>2, PortNumbers
  <1> QED
    BY <1>1, Invariance, PTL
===============================================================================
