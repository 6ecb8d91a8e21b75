--------------------------- MODULE TunnTimersProofs ---------------------------
(***************************************************************************)
(* Proofs about one end of a tunnel over time, for every length of the     *)
(* timeouts and of the ring.                                               *)
(*                                                                         *)
(* Good is what every operator of Tunn keeps of an end on its own.  The    *)
(* histories age and trying are compared with the timers of the end:       *)
(* neither is ever ahead of the timer that decides about it, and           *)
(* update_timers acts on the timer.  Fresh says that an operator resets no *)
(* timer of a session it keeps, Continues that it resets none of a         *)
(* handshake under way; a handler followed by the caller's drain is put    *)
(* together from the two.                                                  *)
(***************************************************************************)
EXTENDS TunnTimers, TLAPS

Handshakes == [k : {"None", "InitSent", "Expired"}, idx : Int, eph : Int, age : Nat]
Sessions == [local : Int, peer : Int, key : Int \X Int]
Packets == {"packet", Empty}

Ends == [next_index : Int, previous : Handshakes, state : Handshakes,
         last_handshake_timestamp : Int, cookie : BOOLEAN, cookie_index : Int,
         sessions : [Slots -> Sessions], current : Int, packet_queue : Seq(Packets),
         timers : [TimerNames -> Nat], session_timers : [Slots -> Nat],
         is_initiator : BOOLEAN, want_keepalive : BOOLEAN, want_handshake : BOOLEAN,
         count : Int, last_reset : Nat]

\* An end that gave up holds nothing, and awaits no answer either.
Emptied(e) == is_expired(e) => /\ e.packet_queue = <<>>
                               /\ \A s \in Slots : e.sessions[s] = NoSession
                               /\ e.previous.k # "InitSent"

\* Right after update_timers no session's timer is past the limit.
Young(e) == e.timers["TimeCurrent"] = 0 =>
              \A s \in Slots : e.sessions[s] # NoSession => e.session_timers[s] <= REJECT_AFTER_TIME

Good(e) == e \in Ends /\ Emptied(e) /\ Young(e)

\* From e to f, every session outside ss was there before, and so was its timer.
Fresh(e, f, ss) == \A s \in Slots \ ss : f.sessions[s] # NoSession =>
                     e.sessions[s] # NoSession /\ f.session_timers[s] = e.session_timers[s]

\* From e to f, a handshake under way remains so, and so does its start.
Continues(e, f) == is_in_progress(e) =>
  /\ is_in_progress(f)
  /\ f.timers["TimeLastHandshakeStarted"] = e.timers["TimeLastHandshakeStarted"]
  /\ f.timers["TimeCurrent"] = e.timers["TimeCurrent"]

Inv ==
  /\ Good(tunn)
  /\ age \in [Slots -> Nat]
  /\ trying \in Nat
  /\ \A s \in Slots : tunn.sessions[s] # NoSession => age[s] <= tunn.session_timers[s]
  /\ IF is_in_progress(tunn) THEN trying <= tunn.timers["TimeLastHandshakeStarted"] ELSE trying = 0
  /\ RetriesCease
-------------------------------------------------------------------------------
(* The parts of an end that a tick of a timer leaves alone.                *)

Same(e, f) ==
  /\ f \in Ends
  /\ f.state = e.state /\ f.previous = e.previous
  /\ f.sessions = e.sessions /\ f.session_timers = e.session_timers
  /\ f.packet_queue = e.packet_queue
  /\ f.next_index = e.next_index /\ f.current = e.current
  /\ f.timers["TimeCurrent"] = e.timers["TimeCurrent"]

SameStart(e, f) == f.timers["TimeLastHandshakeStarted"] = e.timers["TimeLastHandshakeStarted"]

LEMMA ConstantTypes ==
  /\ NoSession \in Sessions
  /\ Idle \in Handshakes /\ Idle.k = "None"
  /\ <<>> \in Seq(Packets)
  BY DEF NoSession, Sessions, Idle, Handshakes

LEMMA WantsKeep ==
  ASSUME NEW e \in Ends, NEW a \in BOOLEAN, NEW b \in BOOLEAN
  PROVE  LET f == [e EXCEPT !.want_keepalive = a, !.want_handshake = b]
         IN Same(e, f) /\ f.timers = e.timers
  BY DEF Ends, Same

LEMMA WantHandshakeKeeps ==
  ASSUME NEW e \in Ends, NEW a \in BOOLEAN
  PROVE  LET f == [e EXCEPT !.want_handshake = a] IN Same(e, f) /\ SameStart(e, f)
  BY DEF Ends, Same, SameStart

LEMMA WantKeepaliveKeeps ==
  ASSUME NEW e \in Ends, NEW a \in BOOLEAN
  PROVE  LET f == [e EXCEPT !.want_keepalive = a] IN Same(e, f) /\ SameStart(e, f)
  BY DEF Ends, Same, SameStart

LEMMA TickKeeps ==
  ASSUME NEW e \in Ends, NEW n \in TimerNames, n # "TimeCurrent"
  PROVE  /\ Same(e, timer_tick(e, n))
         /\ n # "TimeLastHandshakeStarted" => SameStart(e, timer_tick(e, n))
  <1> DEFINE T == [e.timers EXCEPT ![n] = e.timers["TimeCurrent"]]
             t == [e EXCEPT !.timers = T]
  <1>1. T \in [TimerNames -> Nat] /\ T["TimeCurrent"] = e.timers["TimeCurrent"]
    BY DEF Ends, TimerNames
  <1>2. n # "TimeLastHandshakeStarted" =>
          T["TimeLastHandshakeStarted"] = e.timers["TimeLastHandshakeStarted"]
    BY DEF Ends, TimerNames
  <1>3. timer_tick(e, n) =
          CASE n = "TimeLastPacketReceived" -> [t EXCEPT !.want_keepalive = TRUE, !.want_handshake = FALSE]
            [] n = "TimeLastPacketSent" -> [t EXCEPT !.want_keepalive = FALSE, !.want_handshake = TRUE]
            [] OTHER -> t
    BY DEF timer_tick, Ends
  <1> HIDE DEF T
  <1>7. t \in Ends /\ Same(e, t) /\ t.timers = T
    BY <1>1 DEF Ends, Same
  <1> HIDE DEF t
  <1>4. CASE n = "TimeLastPacketReceived"
    <2>1. timer_tick(e, n) = [t EXCEPT !.want_keepalive = TRUE, !.want_handshake = FALSE]
      BY <1>3, <1>4
    <2>2. LET f == [t EXCEPT !.want_keepalive = TRUE, !.want_handshake = FALSE]
          IN Same(t, f) /\ f.timers = t.timers
      BY <1>7, WantsKeep, Zenon
    <2>3. Same(t, timer_tick(e, n)) /\ timer_tick(e, n).timers = T
      BY <1>7, <2>1, <2>2
    <2> QED
      BY <1>1, <1>2, <1>7, <2>3 DEF Same, SameStart
  <1>5. CASE n = "TimeLastPacketSent"
    <2>1. timer_tick(e, n) = [t EXCEPT !.want_keepalive = FALSE, !.want_handshake = TRUE]
      BY <1>3, <1>5
    <2>2. LET f == [t EXCEPT !.want_keepalive = FALSE, !.want_handshake = TRUE]
          IN Same(t, f) /\ f.timers = t.timers
      BY <1>7, WantsKeep, Zenon
    <2>3. Same(t, timer_tick(e, n)) /\ timer_tick(e, n).timers = T
      BY <1>7, <2>1, <2>2
    <2> QED
      BY <1>1, <1>2, <1>7, <2>3 DEF Same, SameStart
  <1>6. CASE n \notin {"TimeLastPacketReceived", "TimeLastPacketSent"}
    BY <1>1, <1>2, <1>3, <1>6, <1>7 DEF Same, SameStart
  <1> QED
    BY <1>4, <1>5, <1>6

\* A tick of any timer but the start of the handshake changes nothing here.
LEMMA SameIsKept ==
  ASSUME NEW e, NEW f, Good(e), Same(e, f)
  PROVE  Good(f) /\ Fresh(e, f, {}) /\ (SameStart(e, f) => Continues(e, f))
  BY DEF Good, Same, Emptied, Young, Fresh, SameStart, Continues, is_expired, is_in_progress

LEMMA SameComposes ==
  ASSUME NEW e, NEW f, NEW g, Same(e, f), Same(f, g)
  PROVE  Same(e, g) /\ (SameStart(e, f) /\ SameStart(f, g) => SameStart(e, g))
  BY DEF Same, SameStart
-------------------------------------------------------------------------------
(* Sending.  A packet is queued before the handshake starts, so for a      *)
(* moment an expired end has one: it is Almost good.                       *)

Almost(e) == /\ e \in Ends /\ Young(e)
             /\ is_expired(e) => \A s \in Slots : e.sessions[s] = NoSession

Kept(e, f, ss) == Good(f) /\ Fresh(e, f, ss) /\ (ss = {} => Continues(e, f))

LEMMA KeptComposes ==
  ASSUME NEW e, NEW f, NEW g, NEW ss, Kept(e, f, ss), Kept(f, g, {})
  PROVE  Kept(e, g, ss)
  BY DEF Kept, Fresh, Continues

LEMMA InitiationKeeps ==
  ASSUME NEW e \in Ends, NEW eph \in Int
  PROVE  LET i == Initiation(e, eph).e
         IN /\ i \in Ends /\ is_in_progress(i)
            /\ i.sessions = e.sessions /\ i.session_timers = e.session_timers
            /\ i.timers = e.timers
  <1> DEFINE idx == inc_index(e)
             was == [e.state EXCEPT !.age = 0]
             now == InitSent(idx, eph)
             i == [e EXCEPT !.next_index = idx, !.previous = was, !.state = now, !.cookie_index = idx]
  <1>1. idx \in Int
    BY RingAssumption DEF inc_index, Ends
  <1>2. was \in Handshakes
    BY DEF Ends, Handshakes
  <1>3. now \in Handshakes /\ now.k = "InitSent"
    BY <1>1 DEF Handshakes, InitSent
  <1>4. Initiation(e, eph).e = i
    BY DEF Initiation, Ret
  <1> HIDE DEF idx, was, now
  <1>5. /\ i \in Ends /\ i.state = now
        /\ i.sessions = e.sessions /\ i.session_timers = e.session_timers
        /\ i.timers = e.timers
    BY <1>1, <1>2, <1>3 DEF Ends
  <1> HIDE DEF i
  <1> QED
    BY <1>3, <1>4, <1>5 DEF is_in_progress

LEMMA ClearTimersKeeps ==
  ASSUME NEW e \in Ends
  PROVE  LET f == ClearTimers(e)
         IN /\ f \in Ends
            /\ f.sessions = e.sessions /\ f.session_timers = e.session_timers
            /\ f.state = e.state /\ f.previous = e.previous
            /\ f.timers = [n \in TimerNames |-> 0]
  <1> DEFINE Z == [n \in TimerNames |-> 0]
             t == [e EXCEPT !.timers = Z]
  <1>1. Z \in [TimerNames -> Nat]
    OBVIOUS
  <1>2. ClearTimers(e) = [t EXCEPT !.want_keepalive = FALSE, !.want_handshake = FALSE]
    BY DEF ClearTimers, Ends
  <1> HIDE DEF Z
  <1>3. t \in Ends /\ t.timers = Z
    BY <1>1 DEF Ends
  <1>4. /\ t.sessions = e.sessions /\ t.session_timers = e.session_timers
        /\ t.state = e.state /\ t.previous = e.previous
    BY DEF Ends
  <1> HIDE DEF t
  <1>5. LET f == [t EXCEPT !.want_keepalive = FALSE, !.want_handshake = FALSE]
        IN Same(t, f) /\ f.timers = t.timers
    BY <1>3, WantsKeep, Zenon
  <1>6. Same(t, ClearTimers(e)) /\ ClearTimers(e).timers = Z
    BY <1>2, <1>3, <1>5
  <1> QED
    BY <1>4, <1>6 DEF Same, Z

LEMMA InitiatedKeeps ==
  ASSUME NEW e \in Ends, NEW i \in Ends
  PROVE  Same(i, Initiated(e, i)) /\ (is_in_progress(e) => SameStart(i, Initiated(e, i)))
  <1> DEFINE j == IF starting_new_handshake(e) THEN timer_tick(i, "TimeLastHandshakeStarted") ELSE i
  <1>1. Same(i, j) /\ (is_in_progress(e) => SameStart(i, j))
    BY TickKeeps DEF Same, SameStart, starting_new_handshake, TimerNames
  <1>2. Initiated(e, i) = timer_tick(j, "TimeLastPacketSent")
    BY DEF Initiated
  <1> HIDE DEF j
  <1>3. j \in Ends
    BY <1>1 DEF Same
  <1>4. Same(j, Initiated(e, i)) /\ SameStart(j, Initiated(e, i))
    BY <1>2, <1>3, TickKeeps DEF TimerNames
  <1> QED
    BY <1>1, <1>4, SameComposes

\* The handshake is under way afterwards, whichever way it went.
LEMMA FormatKeeps ==
  ASSUME NEW e, Almost(e), NEW force \in BOOLEAN, NEW eph \in Int
  PROVE  Kept(e, format_handshake_initiation(e, force, eph).e, {})
  <1>1. CASE is_in_progress(e) /\ ~force
    BY <1>1 DEF format_handshake_initiation, Ret, Almost, Kept, Good, Emptied, Fresh, Continues,
                is_in_progress, is_expired
  <1>2. CASE ~(is_in_progress(e) /\ ~force)
    <2> DEFINE c == IF is_expired(e) THEN ClearTimers(e) ELSE e
               i == Initiation(c, eph).e
               f == Initiated(e, i)
    <2>1. format_handshake_initiation(e, force, eph).e = f
      BY <1>2 DEF format_handshake_initiation, Ret
    <2>2. /\ c \in Ends /\ c.sessions = e.sessions /\ c.session_timers = e.session_timers
          /\ ~is_expired(e) => c = e
      BY ClearTimersKeeps DEF Almost
    <2> HIDE DEF c
    <2>3. /\ i \in Ends /\ is_in_progress(i)
          /\ i.sessions = e.sessions /\ i.session_timers = e.session_timers
          /\ i.timers = c.timers
      BY <2>2, InitiationKeeps
    <2> HIDE DEF i
    <2>4. Same(i, f) /\ (is_in_progress(e) => SameStart(i, f))
      BY <2>3, InitiatedKeeps DEF Almost
    <2> HIDE DEF f
    <2>5. Good(f)
      <3>1. f \in Ends /\ is_in_progress(f)
        BY <2>3, <2>4 DEF Same, is_in_progress
      <3>2. Emptied(f)
        BY <3>1 DEF Emptied, is_expired, is_in_progress
      <3>3. Young(f)
        BY <2>2, <2>3, <2>4 DEF Young, Same, Almost
      <3> QED
        BY <3>1, <3>2, <3>3 DEF Good
    <2>6. Fresh(e, f, {})
      BY <2>3, <2>4 DEF Fresh, Same
    <2>7. Continues(e, f)
      BY <2>2, <2>3, <2>4 DEF Continues, Same, SameStart, is_in_progress, is_expired
    <2> QED
      BY <2>1, <2>5, <2>6, <2>7 DEF Kept
  <1> QED
    BY <1>1, <1>2

\* Ends that differ in the packets that wait.
LEMMA QueueKeeps ==
  ASSUME NEW e \in Ends, NEW q \in Seq(Packets)
  PROVE  LET f == [e EXCEPT !.packet_queue = q]
         IN /\ f \in Ends /\ f.packet_queue = q
            /\ Almost(e) => Almost(f)
            /\ f.state = e.state /\ f.previous = e.previous
            /\ f.sessions = e.sessions /\ f.session_timers = e.session_timers
            /\ f.timers = e.timers /\ f.current = e.current
  <1> DEFINE f == [e EXCEPT !.packet_queue = q]
  <1>1. /\ f \in Ends /\ f.packet_queue = q
        /\ f.state = e.state /\ f.previous = e.previous
        /\ f.sessions = e.sessions /\ f.session_timers = e.session_timers
        /\ f.timers = e.timers /\ f.current = e.current
    BY DEF Ends
  <1> HIDE DEF f
  <1>2. Almost(e) => Almost(f)
    BY <1>1 DEF Almost, Young, is_expired
  <1> QED
    BY <1>1, <1>2 DEF f

\* What follows from an end with another queue follows from the end.
LEMMA KeptFromQueue ==
  ASSUME NEW e \in Ends, NEW q \in Seq(Packets), NEW f,
         Kept([e EXCEPT !.packet_queue = q], f, {})
  PROVE  Kept(e, f, {})
  <1> DEFINE d == [e EXCEPT !.packet_queue = q]
  <1>1. d.state = e.state /\ d.sessions = e.sessions /\ d.session_timers = e.session_timers /\ d.timers = e.timers
    BY QueueKeeps
  <1>2. Kept(d, f, {})
    OBVIOUS
  <1> HIDE DEF d
  <1> QED
    BY <1>1, <1>2 DEF Kept, Fresh, Continues, is_in_progress

LEMMA SentKeeps ==
  ASSUME NEW e \in Ends, NEW pkts
  PROVE  Same(e, Sent(e, pkts)) /\ SameStart(e, Sent(e, pkts))
  <1> DEFINE t == timer_tick(e, "TimeLastPacketSent")
             u == timer_tick(t, "TimeLastDataPacketSent")
  <1>1. Same(e, t) /\ SameStart(e, t)
    BY TickKeeps DEF TimerNames
  <1>2. t \in Ends
    BY <1>1 DEF Same
  <1> HIDE DEF t
  <1>3. Same(t, u) /\ SameStart(t, u)
    BY <1>2, TickKeeps DEF TimerNames
  <1> HIDE DEF u
  <1>4. Same(e, u) /\ SameStart(e, u)
    BY <1>1, <1>3, SameComposes
  <1>5. Sent(e, pkts) = t \/ Sent(e, pkts) = u
    BY DEF Sent, t, u
  <1> QED
    BY <1>1, <1>4, <1>5

LEMMA CurrentIsSlot ==
  ASSUME NEW e \in Ends
  PROVE  e.current % N_SESSIONS \in Slots
  BY RingAssumption DEF Ends, Slots

\* An end with a session has not given up.
LEMMA SessionIsAlive ==
  ASSUME NEW e, Almost(e), CurrentSession(e) # NoSession
  PROVE  Good(e)
  BY CurrentIsSlot DEF Almost, Good, Emptied, CurrentSession

LEMMA EncapsulateKeeps ==
  ASSUME NEW e, Almost(e), NEW pkt \in Packets, NEW eph \in Int
  PROVE  Kept(e, encapsulate(e, pkt, eph).e, {})
  <1>0. e \in Ends
    BY DEF Almost
  <1>1. CASE CurrentSession(e) # NoSession
    <2>1. encapsulate(e, pkt, eph).e = Sent(e, {pkt})
      BY <1>1 DEF encapsulate, Ret
    <2> QED
      BY <1>0, <1>1, <2>1, SentKeeps, SessionIsAlive, SameIsKept DEF Kept
  <1>2. CASE CurrentSession(e) = NoSession
    <2> DEFINE q == IF Len(e.packet_queue) < MAX_QUEUE_DEPTH THEN Append(e.packet_queue, pkt)
                    ELSE e.packet_queue
               d == [e EXCEPT !.packet_queue = q]
    <2>1. q \in Seq(Packets)
      BY <1>0 DEF Ends
    <2>2. queue_packet(e, pkt) = d
      BY <1>0 DEF queue_packet, Ends
    <2> HIDE DEF q
    <2>3. Almost(d)
      BY <1>0, <2>1, QueueKeeps
    <2>4. encapsulate(e, pkt, eph) = format_handshake_initiation(d, FALSE, eph)
      BY <1>2, <2>2 DEF encapsulate
    <2>5. Kept(d, format_handshake_initiation(d, FALSE, eph).e, {})
      BY <2>3, FormatKeeps, Zenon
    <2> QED
      BY <1>0, <2>1, <2>4, <2>5, KeptFromQueue
  <1> QED
    BY <1>1, <1>2

LEMMA GoodIsAlmost ==
  ASSUME NEW e, Good(e)
  PROVE  Almost(e) /\ e \in Ends
  BY DEF Good, Almost, Emptied

LEMMA SendQueuedKeeps ==
  ASSUME NEW e, Good(e), NEW eph \in Int
  PROVE  Kept(e, send_queued_packet(e, eph).e, {})
  <1>0. e \in Ends /\ Almost(e)
    BY GoodIsAlmost
  <1>1. CASE e.packet_queue = <<>>
    BY <1>1 DEF send_queued_packet, Ret, Kept, Fresh, Continues
  <1>2. CASE e.packet_queue # <<>>
    <2> DEFINE q == Tail(e.packet_queue)
               d == [e EXCEPT !.packet_queue = q]
    <2>1. q \in Seq(Packets) /\ Head(e.packet_queue) \in Packets
      BY <1>0, <1>2 DEF Ends
    <2>2. send_queued_packet(e, eph) = encapsulate(d, Head(e.packet_queue), eph)
      BY <1>0, <1>2 DEF send_queued_packet, Ends
    <2> HIDE DEF q
    <2>3. Almost(d)
      BY <1>0, <2>1, QueueKeeps
    <2> QED
      BY <1>0, <2>1, <2>2, <2>3, EncapsulateKeeps, KeptFromQueue
  <1> QED
    BY <1>1, <1>2

LEMMA DrainKeeps ==
  ASSUME NEW e, Good(e), NEW eph \in Int
  PROVE  Kept(e, drain(e, eph).e, {})
  <1>0. e \in Ends /\ Almost(e)
    BY GoodIsAlmost
  <1>1. CASE e.packet_queue = <<>>
    BY <1>1 DEF drain, Ret, Kept, Fresh, Continues
  <1>2. CASE e.packet_queue # <<>> /\ CurrentSession(e) # NoSession
    <2> DEFINE t == Sent(e, {e.packet_queue[i] : i \in DOMAIN e.packet_queue})
               f == [t EXCEPT !.packet_queue = <<>>]
    <2>1. drain(e, eph).e = f
      BY <1>2 DEF drain, Ret
    <2>2. Same(e, t) /\ SameStart(e, t)
      BY <1>0, SentKeeps
    <2> HIDE DEF t
    <2>3. t \in Ends /\ <<>> \in Seq(Packets)
      BY <2>2 DEF Same
    <2>4. Good(t) /\ Fresh(e, t, {}) /\ Continues(e, t)
      BY <2>2, SameIsKept
    <2>5. /\ f \in Ends /\ f.packet_queue = <<>>
          /\ f.state = t.state /\ f.previous = t.previous
          /\ f.sessions = t.sessions /\ f.session_timers = t.session_timers
          /\ f.timers = t.timers
      BY <2>3, QueueKeeps
    <2> HIDE DEF f
    <2> QED
      BY <2>1, <2>4, <2>5 DEF Kept, Good, Emptied, Young, Fresh, Continues, is_expired, is_in_progress
  <1>3. CASE e.packet_queue # <<>> /\ CurrentSession(e) = NoSession
    <2> DEFINE r == send_queued_packet(e, eph).e
               f == send_queued_packet(r, eph).e
    <2>1. drain(e, eph).e = r \/ drain(e, eph).e = f
      BY <1>3 DEF drain, Ret
    <2>2. Kept(e, r, {})
      BY SendQueuedKeeps
    <2> HIDE DEF r
    <2>3. Kept(r, f, {})
      BY <2>2, SendQueuedKeeps DEF Kept
    <2> HIDE DEF f
    <2> QED
      BY <2>1, <2>2, <2>3, KeptComposes
  <1> QED
    BY <1>1, <1>2, <1>3
-------------------------------------------------------------------------------
(* Receiving.  The only slot whose timer starts anew is that of the new    *)
(* session.                                                                *)

Established(e, f, slot) ==
  /\ f \in Ends
  /\ f.state = e.state /\ f.sessions = e.sessions
  /\ f.session_timers = [e.session_timers EXCEPT ![slot] = e.timers["TimeCurrent"]]
  /\ f.timers["TimeCurrent"] = e.timers["TimeCurrent"]

LEMMA EstablishedKeeps ==
  ASSUME NEW e \in Ends, NEW b \in BOOLEAN, NEW idx \in Int
  PROVE  Established(e, timer_tick_session_established(e, b, idx), idx % N_SESSIONS)
  <1> DEFINE t == timer_tick(e, "TimeSessionEstablished")
             st == [e.session_timers EXCEPT ![idx % N_SESSIONS] = e.timers["TimeCurrent"]]
             f == [t EXCEPT !.session_timers = st, !.is_initiator = b]
  <1>1. Same(e, t)
    BY TickKeeps DEF TimerNames
  <1>2. st \in [Slots -> Nat]
    BY DEF Ends, TimerNames
  <1>3. timer_tick_session_established(e, b, idx) = f
    BY <1>1 DEF timer_tick_session_established, Same
  <1> HIDE DEF t, st
  <1>4. /\ f \in Ends
        /\ f.state = t.state /\ f.sessions = t.sessions
        /\ f.session_timers = st /\ f.timers = t.timers
    BY <1>1, <1>2 DEF Same, Ends
  <1> HIDE DEF f
  <1> QED
    BY <1>1, <1>3, <1>4 DEF Same, st, Established

\* h is e with the session of a handshake that just completed.
LEMMA NewSessionKeeps ==
  ASSUME NEW e, Good(e), NEW h \in Ends, ~is_expired(h), NEW idx \in Int, NEW s,
         NEW b \in BOOLEAN,
         h.sessions = [e.sessions EXCEPT ![idx % N_SESSIONS] = s],
         h.session_timers = e.session_timers,
         h.timers["TimeCurrent"] = e.timers["TimeCurrent"]
  PROVE  Kept(e, timer_tick_session_established(h, b, idx), {idx % N_SESSIONS})
  <1> DEFINE f == timer_tick_session_established(h, b, idx)
             slot == idx % N_SESSIONS
  <1>1. /\ f \in Ends /\ f.state = h.state
        /\ f.sessions = [e.sessions EXCEPT ![slot] = s]
        /\ f.session_timers = [e.session_timers EXCEPT ![slot] = e.timers["TimeCurrent"]]
        /\ f.timers["TimeCurrent"] = e.timers["TimeCurrent"]
    <2>1. Established(h, f, slot)
      BY EstablishedKeeps
    <2> HIDE DEF f, slot
    <2> QED
      BY <2>1 DEF Established, slot
  <1> HIDE DEF f, slot
  <1>2. e \in Ends
    BY DEF Good
  <1>3. Emptied(f)
    BY <1>1 DEF Emptied, is_expired
  <1>4. Young(f)
    BY <1>1, <1>2, TimeAssumption DEF Good, Young, Ends
  <1>5. Fresh(e, f, {slot})
    BY <1>1, <1>2 DEF Fresh, Ends
  <1> QED
    BY <1>1, <1>3, <1>4, <1>5 DEF Kept, Good, f, slot

LEMMA SetCurrentKeeps ==
  ASSUME NEW e, Good(e), NEW idx \in Int
  PROVE  Kept(e, set_current_session(e, idx), {})
  <1> DEFINE f == [e EXCEPT !.current = idx]
  <1>1. e \in Ends
    BY DEF Good
  <1>2. /\ f \in Ends
        /\ f.state = e.state /\ f.previous = e.previous
        /\ f.sessions = e.sessions /\ f.session_timers = e.session_timers
        /\ f.packet_queue = e.packet_queue /\ f.timers = e.timers
    BY <1>1 DEF Ends
  <1>3. set_current_session(e, idx) \in {e, f}
    BY DEF set_current_session
  <1> HIDE DEF f
  <1> QED
    BY <1>2, <1>3 DEF Kept, Good, Emptied, Young, Fresh, Continues, is_expired, is_in_progress

\* A good end stays so when a timer other than the start of the handshake ticks.
LEMMA TickIsKept ==
  ASSUME NEW e, Good(e), NEW n \in TimerNames \ {"TimeCurrent", "TimeLastHandshakeStarted"}
  PROVE  Kept(e, timer_tick(e, n), {})
  BY TickKeeps, SameIsKept DEF Good, Kept

LEMMA HandleDataKeeps ==
  ASSUME NEW e, Good(e), NEW m, m.receiver \in Int
  PROVE  Kept(e, handle_data(e, m), {})
  <1> DEFINE c == set_current_session(e, m.receiver)
             t == timer_tick(c, "TimeLastPacketReceived")
             u == timer_tick(t, "TimeLastDataPacketReceived")
  <1>1. handle_data(e, m) \in {t, u}
    BY DEF handle_data
  <1>2. Kept(e, c, {}) /\ Good(c)
    BY SetCurrentKeeps DEF Kept
  <1> HIDE DEF c
  <1>3. Kept(c, t, {}) /\ Good(t)
    BY <1>2, TickIsKept DEF TimerNames, Kept
  <1> HIDE DEF t
  <1>4. Kept(t, u, {})
    BY <1>3, TickIsKept DEF TimerNames
  <1> HIDE DEF u
  <1> QED
    BY <1>1, <1>2, <1>3, <1>4, KeptComposes

LEMMA CookieKeeps ==
  ASSUME NEW e \in Ends, NEW a \in BOOLEAN
  PROVE  LET f == [e EXCEPT !.cookie = a] IN Same(e, f) /\ SameStart(e, f)
  BY DEF Ends, Same, SameStart

LEMMA HandleCookieKeeps ==
  ASSUME NEW e, Good(e), NEW m
  PROVE  Kept(e, handle_cookie_reply(e, m), {})
  <1> DEFINE c == [e EXCEPT !.cookie = TRUE]
             t == timer_tick(c, "TimeLastPacketReceived")
             u == timer_tick(t, "TimeCookieReceived")
  <1>1. handle_cookie_reply(e, m) \in {e, u}
    BY DEF handle_cookie_reply
  <1>2. Same(e, c) /\ SameStart(e, c)
    <2>1. e \in Ends
      BY DEF Good
    <2> QED
      BY <2>1, CookieKeeps, Zenon
  <1> HIDE DEF c
  <1>3. Kept(e, c, {}) /\ Good(c)
    BY <1>2, SameIsKept DEF Kept
  <1>4. Kept(c, t, {}) /\ Good(t)
    BY <1>3, TickIsKept DEF TimerNames, Kept
  <1> HIDE DEF t
  <1>5. Kept(t, u, {})
    BY <1>4, TickIsKept DEF TimerNames
  <1> HIDE DEF u
  <1>6. Kept(e, e, {})
    BY DEF Kept, Fresh, Continues
  <1> QED
    BY <1>1, <1>3, <1>4, <1>5, <1>6, KeptComposes

LEMMA HandleInitKeeps ==
  ASSUME NEW e, Good(e), NEW m, m.sender \in Int, m.eph \in Int, NEW eph \in Int
  PROVE  Kept(e, handle_handshake_init(e, m, eph).e, {inc_index(e) % N_SESSIONS})
  <1>0. e \in Ends
    BY DEF Good
  <1>1. CASE ~after(m.eph, e.last_handshake_timestamp)
    BY <1>1 DEF handle_handshake_init, Ret, Kept, Fresh
  <1>2. CASE after(m.eph, e.last_handshake_timestamp)
    <2> DEFINE idx == inc_index(e)
               s == [local |-> idx, peer |-> m.sender, key |-> <<m.eph, eph>>]
               was == [e.state EXCEPT !.age = 0]
               a == receive_handshake_initialization(e, m)
               ss == [e.sessions EXCEPT ![idx % N_SESSIONS] = s]
               r == [a EXCEPT !.next_index = idx, !.cookie_index = idx, !.sessions = ss]
               t == timer_tick(r, "TimeLastPacketReceived")
               u == timer_tick(t, "TimeLastPacketSent")
    <2>1. idx \in Int
      BY <1>0, RingAssumption DEF inc_index, Ends
    <2>2. was \in Handshakes /\ Idle \in Handshakes /\ Idle.k = "None"
      BY <1>0, ConstantTypes DEF Ends, Handshakes
    <2>3. a = [e EXCEPT !.last_handshake_timestamp = m.eph, !.previous = was, !.state = Idle]
      BY DEF receive_handshake_initialization
    <2>4. ss \in [Slots -> Sessions]
      BY <1>0, <2>1 DEF Ends, Sessions
    <2>5. a.next_index = e.next_index /\ a.sessions = e.sessions
      BY <1>0, <2>3 DEF Ends
    <2>6. format_handshake_response(a, m, eph).e = r
      BY <2>5 DEF format_handshake_response, Ret, inc_index
    <2> HIDE DEF idx, was, ss
    <2>7. /\ r \in Ends /\ r.state = Idle /\ r.next_index = idx /\ r.sessions = ss
          /\ r.session_timers = e.session_timers /\ r.timers = e.timers
      <3> HIDE DEF a
      <3>1. /\ a \in Ends /\ a.state = Idle
            /\ a.session_timers = e.session_timers /\ a.timers = e.timers
        BY <1>0, <2>2, <2>3 DEF Ends
      <3> QED
        BY <2>1, <2>4, <3>1 DEF Ends
    <2>8. handle_handshake_init(e, m, eph).e = timer_tick_session_established(u, FALSE, r.next_index)
      BY <1>2, <2>6 DEF handle_handshake_init, Ret
    <2> HIDE DEF r
    <2>9. Same(r, t)
      BY <2>7, TickKeeps DEF TimerNames
    <2> HIDE DEF t
    <2>10. Same(r, u)
      <3>1. t \in Ends
        BY <2>9 DEF Same
      <3>2. Same(t, u)
        BY <3>1, TickKeeps DEF TimerNames
      <3> QED
        BY <2>9, <3>2, SameComposes
    <2> HIDE DEF u
    <2>11. /\ u \in Ends /\ ~is_expired(u) /\ u.sessions = ss
           /\ u.session_timers = e.session_timers
           /\ u.timers["TimeCurrent"] = e.timers["TimeCurrent"]
      BY <2>2, <2>7, <2>10 DEF Same, is_expired
    <2>12. Kept(e, timer_tick_session_established(u, FALSE, idx), {idx % N_SESSIONS})
      BY <2>1, <2>11, NewSessionKeeps, Zenon DEF ss
    <2> QED
      BY <2>7, <2>8, <2>12 DEF idx
  <1> QED
    BY <1>1, <1>2

\* h with the session of handshake st, completed by the peer's p and key k.
Accepted(h, st, p, k) ==
  LET s == [local |-> st.idx, peer |-> p, key |-> <<st.eph, k>>]
      t == timer_tick([h EXCEPT !.sessions[st.idx % N_SESSIONS] = s], "TimeLastPacketReceived")
  IN set_current_session(timer_tick_session_established(t, TRUE, st.idx), st.idx)

LEMMA AcceptKeeps ==
  ASSUME NEW e, Good(e), NEW st \in Handshakes, NEW h \in Ends, ~is_expired(h),
         NEW p \in Int, NEW k \in Int,
         h.sessions = e.sessions, h.session_timers = e.session_timers, h.timers = e.timers
  PROVE  Kept(e, Accepted(h, st, p, k), {st.idx % N_SESSIONS})
  <1> DEFINE idx == st.idx
             s == [local |-> idx, peer |-> p, key |-> <<st.eph, k>>]
             ss == [e.sessions EXCEPT ![idx % N_SESSIONS] = s]
             a == [h EXCEPT !.sessions = ss]
             t == timer_tick(a, "TimeLastPacketReceived")
             f == timer_tick_session_established(t, TRUE, idx)
  <1>1. idx \in Int /\ ss \in [Slots -> Sessions]
    BY DEF Handshakes, Sessions, Good, Ends
  <1>2. [h EXCEPT !.sessions[idx % N_SESSIONS] = s] = a
    BY DEF Ends
  <1> HIDE DEF idx, ss
  <1>3. /\ a \in Ends /\ a.state = h.state /\ a.sessions = ss
        /\ a.session_timers = e.session_timers /\ a.timers = e.timers
    BY <1>1 DEF Ends
  <1> HIDE DEF a
  <1>4. Same(a, t)
    BY <1>3, TickKeeps DEF TimerNames
  <1> HIDE DEF t
  <1>5. /\ t \in Ends /\ ~is_expired(t) /\ t.sessions = ss
        /\ t.session_timers = e.session_timers
        /\ t.timers["TimeCurrent"] = e.timers["TimeCurrent"]
    BY <1>3, <1>4 DEF Same, is_expired
  <1>6. Kept(e, f, {idx % N_SESSIONS})
    BY <1>1, <1>5, NewSessionKeeps, Zenon DEF ss
  <1> HIDE DEF f
  <1>7. Kept(f, set_current_session(f, idx), {})
    BY <1>1, <1>6, SetCurrentKeeps DEF Kept
  <1>8. Kept(e, set_current_session(f, idx), {idx % N_SESSIONS})
    BY <1>6, <1>7, KeptComposes
  <1> QED
    BY <1>2, <1>8 DEF Accepted, f, t, idx, s

LEMMA HandleResponseKeeps ==
  ASSUME NEW e, Good(e), NEW m, m.sender \in Int, m.key[2] \in Int
  PROVE  Kept(e, handle_handshake_response(e, m).e, {m.receiver % N_SESSIONS})
  <1>0. e \in Ends /\ e.state \in Handshakes /\ e.previous \in Handshakes
        /\ Idle \in Handshakes /\ Idle.k = "None"
    BY ConstantTypes DEF Good, Ends
  <1>1. CASE handle_handshake_response(e, m).e = e
    BY <1>1 DEF Kept, Fresh
  <1>2. CASE e.state.k = "InitSent" /\ e.state.idx = m.receiver /\ Opens(e.state, m)
    <2> DEFINE h == [e EXCEPT !.state = Idle]
    <2>1. /\ h \in Ends /\ ~is_expired(h) /\ h.sessions = e.sessions
          /\ h.session_timers = e.session_timers /\ h.timers = e.timers
      BY <1>0 DEF Ends, is_expired
    <2>2. handle_handshake_response(e, m).e = Accepted(h, e.state, m.sender, m.key[2])
      BY <1>2 DEF handle_handshake_response, Ret, SessionIndex, Accepted
    <2> HIDE DEF h
    <2> QED
      <3>1. Kept(e, Accepted(h, e.state, m.sender, m.key[2]), {e.state.idx % N_SESSIONS})
        BY <1>0, <2>1, AcceptKeeps, Zenon
      <3> QED
        BY <1>2, <2>2, <3>1
  <1>3. CASE /\ ~(e.state.k = "InitSent" /\ e.state.idx = m.receiver)
             /\ e.previous.k = "InitSent" /\ e.previous.idx = m.receiver /\ Opens(e.previous, m)
    <2> DEFINE h == [e EXCEPT !.previous = Idle]
    <2>1. /\ h \in Ends /\ h.state = e.state /\ h.sessions = e.sessions
          /\ h.session_timers = e.session_timers /\ h.timers = e.timers
      BY <1>0 DEF Ends
    <2>2. handle_handshake_response(e, m).e = Accepted(h, e.previous, m.sender, m.key[2])
      BY <1>3 DEF handle_handshake_response, Ret, SessionIndex, Accepted
    <2> HIDE DEF h
    <2>3. ~is_expired(h)
      BY <1>3, <2>1 DEF Good, Emptied, is_expired
    <2> QED
      <3>1. Kept(e, Accepted(h, e.previous, m.sender, m.key[2]), {e.previous.idx % N_SESSIONS})
        BY <1>0, <2>1, <2>3, AcceptKeeps, Zenon
      <3> QED
        BY <1>3, <2>2, <3>1
  <1> QED
    BY <1>1, <1>2, <1>3 DEF handle_handshake_response, Ret
-------------------------------------------------------------------------------
(* update_timers.  It reads the clock first, so what it lets pass is       *)
(* within the limits.                                                      *)

\* The end after the first part of update_timers.
Swept(e) == update_session_timers([reset_count(e) EXCEPT !.timers["TimeCurrent"] = 0])

LEMMA SweptKeeps ==
  ASSUME NEW e, Good(e)
  PROVE  LET f == Swept(e)
         IN /\ Good(f) /\ Fresh(e, f, {}) /\ f.state = e.state
            /\ SameStart(e, f) /\ f.timers["TimeCurrent"] = 0
  <1> DEFINE r == reset_count(e)
             T == [e.timers EXCEPT !["TimeCurrent"] = 0]
             t == [r EXCEPT !.timers = T]
             old == {s \in Slots : e.session_timers[s] > REJECT_AFTER_TIME}
             ss == [s \in Slots |-> IF s \in old THEN NoSession ELSE e.sessions[s]]
             st == [s \in Slots |-> IF s \in old THEN 0 ELSE e.session_timers[s]]
             f == [t EXCEPT !.sessions = ss, !.session_timers = st]
  <1>0. e \in Ends /\ 0 \in Int
    BY DEF Good
  <1>1. Same(e, r) /\ r.timers = e.timers
    BY <1>0 DEF reset_count, Same, Ends
  <1> HIDE DEF r
  <1>2. /\ T \in [TimerNames -> Nat] /\ T["TimeCurrent"] = 0
        /\ T["TimeLastHandshakeStarted"] = e.timers["TimeLastHandshakeStarted"]
    BY <1>0 DEF Ends, TimerNames
  <1>3. ss \in [Slots -> Sessions] /\ st \in [Slots -> Nat]
    BY <1>0, ConstantTypes DEF Ends
  <1>4. \A s \in Slots : ss[s] # NoSession =>
          /\ ss[s] = e.sessions[s] /\ st[s] = e.session_timers[s]
          /\ st[s] <= REJECT_AFTER_TIME
    BY <1>0, TimeAssumption DEF Ends
  <1>5. \A s \in Slots : e.sessions[s] = NoSession => ss[s] = NoSession
    OBVIOUS
  <1> HIDE DEF T
  <1>6. [r EXCEPT !.timers["TimeCurrent"] = 0] = t
    BY <1>1 DEF Same, Ends, T
  <1>7. /\ t \in Ends /\ t.timers = T /\ t.sessions = e.sessions /\ t.session_timers = e.session_timers
        /\ t.state = e.state /\ t.previous = e.previous /\ t.packet_queue = e.packet_queue
    BY <1>1, <1>2 DEF Same, Ends
  <1> HIDE DEF t
  <1>8. update_session_timers(t) = f
    BY <1>7 DEF update_session_timers, Ends
  <1> HIDE DEF ss, st
  <1>9. /\ f \in Ends /\ f.timers = T /\ f.sessions = ss /\ f.session_timers = st
        /\ f.state = e.state /\ f.previous = e.previous /\ f.packet_queue = e.packet_queue
    BY <1>3, <1>7 DEF Ends
  <1> HIDE DEF f
  <1>10. Swept(e) = f
    BY <1>6, <1>8 DEF Swept, r
  <1>11. Emptied(f)
    BY <1>5, <1>9 DEF Good, Emptied, is_expired
  <1>12. Young(f)
    BY <1>4, <1>9 DEF Young
  <1>13. Fresh(e, f, {})
    BY <1>4, <1>9 DEF Fresh
  <1> QED
    BY <1>2, <1>9, <1>10, <1>11, <1>12, <1>13 DEF Good, SameStart

LEMMA ClearAllKeeps ==
  ASSUME NEW e, Good(e)
  PROVE  LET f == clear_all(set_expired(e))
         IN Good(f) /\ is_expired(f) /\ Fresh(e, f, {})
  <1> DEFINE x == set_expired(e)
             c == ClearTimers(x)
             ss == [s \in Slots |-> NoSession]
             f == [c EXCEPT !.sessions = ss, !.packet_queue = <<>>]
  <1>1. Expired \in Handshakes /\ Expired.k = "Expired"
    BY DEF Expired, Idle, Handshakes
  <1>2. x \in Ends /\ x.state = Expired /\ x.previous = Expired
    BY <1>1 DEF Good, set_expired, Ends
  <1> HIDE DEF x
  <1>3. c \in Ends /\ c.state = Expired /\ c.previous = Expired
    BY <1>2, ClearTimersKeeps
  <1> HIDE DEF c
  <1>4. ss \in [Slots -> Sessions] /\ \A s \in Slots : ss[s] = NoSession
    BY ConstantTypes
  <1> HIDE DEF ss
  <1>5. /\ f \in Ends /\ f.state = Expired /\ f.previous = Expired
        /\ f.sessions = ss /\ f.packet_queue = <<>>
    BY <1>3, <1>4, ConstantTypes DEF Ends
  <1>6. clear_all(set_expired(e)) = f
    BY DEF clear_all, f, c, x, ss
  <1> HIDE DEF f
  <1>7. Good(f) /\ is_expired(f) /\ Fresh(e, f, {})
    BY <1>1, <1>4, <1>5 DEF Good, Emptied, Young, Fresh, is_expired
  <1> QED
    BY <1>6, <1>7

LEMMA UpdateKeeps ==
  ASSUME NEW e0, Good(e0), NEW eph \in Int
  PROVE  LET f == update_timers(e0, eph).e
         IN /\ Good(f) /\ Fresh(e0, f, {})
            /\ is_in_progress(e0) /\ is_in_progress(f) =>
                 /\ SameStart(e0, f)
                 /\ f.timers["TimeLastHandshakeStarted"] < REKEY_ATTEMPT_TIME
  <1> DEFINE e == Swept(e0)
             c == IF e.cookie /\ e.timers["TimeCookieReceived"] >= COOKIE_EXPIRATION_TIME
                  THEN [e EXCEPT !.cookie = FALSE] ELSE e
             h == IF Unanswered(c) THEN [c EXCEPT !.want_handshake = FALSE] ELSE c
             k == IF KeepaliveDue(h) THEN [h EXCEPT !.want_keepalive = FALSE] ELSE h
             p == IF PersistentDue(h) THEN timer_tick(k, "TimePersistentKeepalive") ELSE k
             f == update_timers(e0, eph).e
             Holds(g) == /\ Good(g) /\ Fresh(e0, g, {})
                         /\ is_in_progress(e0) /\ is_in_progress(g) =>
                              /\ SameStart(e0, g)
                              /\ g.timers["TimeLastHandshakeStarted"] < REKEY_ATTEMPT_TIME
  <1> SUFFICES Holds(f)
    OBVIOUS
  <1>1. /\ Good(e) /\ Fresh(e0, e, {}) /\ e.state = e0.state
        /\ SameStart(e0, e) /\ e.timers["TimeCurrent"] = 0
    BY SweptKeeps
  <1>2. \/ is_expired(e) /\ f = e
        \/ ~is_expired(e) /\ GiveUp(c) /\ f = clear_all(set_expired(c))
        \/ ~GiveUp(c) /\ is_in_progress(c) /\ f \in {c, format_handshake_initiation(c, TRUE, eph).e}
        \/ /\ ~is_in_progress(c)
           /\ f \in {format_handshake_initiation(h, TRUE, eph).e, encapsulate(p, Empty, eph).e, p}
    BY DEF update_timers, Ret, Swept
  <1> HIDE DEF e, f
  <1>3. Kept(e, c, {}) /\ SameStart(e, c) /\ c.state = e.state
    <2>1. e \in Ends
      BY <1>1 DEF Good
    <2>2. LET g == [e EXCEPT !.cookie = FALSE] IN Same(e, g) /\ SameStart(e, g)
      BY <2>1, CookieKeeps, Zenon
    <2>3. Same(e, c) /\ SameStart(e, c)
      BY <2>1, <2>2 DEF Same, SameStart
    <2> QED
      BY <1>1, <2>3, SameIsKept DEF Kept, Same
  <1> HIDE DEF c
  <1>4. Kept(c, h, {}) /\ h.state = c.state
    <2>1. c \in Ends
      BY <1>3 DEF Kept, Good
    <2>2. LET g == [c EXCEPT !.want_handshake = FALSE] IN Same(c, g) /\ SameStart(c, g)
      BY <2>1, WantHandshakeKeeps, Zenon
    <2>3. Same(c, h) /\ SameStart(c, h)
      BY <2>1, <2>2 DEF Same, SameStart
    <2> QED
      BY <1>3, <2>3, SameIsKept DEF Kept, Same
  <1> HIDE DEF h
  <1>5. Kept(h, p, {}) /\ p.state = h.state
    <2>1. h \in Ends
      BY <1>4 DEF Kept, Good
    <2>2. LET g == [h EXCEPT !.want_keepalive = FALSE] IN Same(h, g) /\ SameStart(h, g)
      BY <2>1, WantKeepaliveKeeps, Zenon
    <2>3. Same(h, k) /\ SameStart(h, k)
      BY <2>1, <2>2 DEF Same, SameStart
    <2> HIDE DEF k
    <2>4. LET g == timer_tick(k, "TimePersistentKeepalive") IN Same(k, g) /\ SameStart(k, g)
      BY <2>3, TickKeeps DEF Same, TimerNames
    <2>5. Same(h, p) /\ SameStart(h, p)
      BY <2>3, <2>4, SameComposes
    <2> QED
      BY <1>4, <2>5, SameIsKept DEF Kept, Same
  <1> HIDE DEF p
  <1>6. Fresh(e0, c, {}) /\ Good(c) /\ SameStart(e0, c) /\ c.state = e0.state
    BY <1>1, <1>3 DEF Kept, Fresh, SameStart
  <1>7. CASE is_expired(e) /\ f = e
    BY <1>1, <1>7 DEF is_expired, is_in_progress
  <1>8. CASE f = clear_all(set_expired(c))
    <2>1. Good(f) /\ is_expired(f) /\ Fresh(c, f, {})
      BY <1>6, <1>8, ClearAllKeeps
    <2> QED
      BY <1>6, <2>1 DEF Fresh, is_expired, is_in_progress
  <1>9. CASE /\ ~GiveUp(c) /\ is_in_progress(c)
             /\ f \in {c, format_handshake_initiation(c, TRUE, eph).e}
    <2>1. Kept(c, format_handshake_initiation(c, TRUE, eph).e, {})
      BY <1>6, GoodIsAlmost, FormatKeeps, Zenon
    <2>2. Kept(c, c, {})
      BY <1>6 DEF Kept, Fresh, Continues
    <2>3. Kept(c, f, {})
      BY <1>9, <2>1, <2>2
    <2>4. c.timers["TimeLastHandshakeStarted"] < REKEY_ATTEMPT_TIME
      <3>1. c.timers["TimeLastHandshakeStarted"] \in Nat
        BY <1>6 DEF Good, Ends, TimerNames
      <3>2. ~(c.timers["TimeLastHandshakeStarted"] >= REKEY_ATTEMPT_TIME)
        BY <1>9 DEF GiveUp
      <3> QED
        BY <3>1, <3>2, TimeAssumption
    <2> QED
      BY <1>6, <1>9, <2>3, <2>4 DEF Kept, Fresh, Continues, SameStart
  <1>10. CASE /\ ~is_in_progress(c)
              /\ f \in {format_handshake_initiation(h, TRUE, eph).e, encapsulate(p, Empty, eph).e, p}
    <2>1. Kept(h, format_handshake_initiation(h, TRUE, eph).e, {})
      <3>1. Almost(h)
        BY <1>4, GoodIsAlmost DEF Kept
      <3> QED
        BY <3>1, FormatKeeps, Zenon
    <2>2. Kept(p, encapsulate(p, Empty, eph).e, {})
      BY <1>5, GoodIsAlmost, EncapsulateKeeps DEF Kept, Packets
    <2>3. Kept(h, f, {})
      BY <1>5, <1>10, <2>1, <2>2, KeptComposes
    <2>4. Kept(c, f, {})
      BY <1>4, <2>3, KeptComposes
    <2> QED
      BY <1>6, <1>10, <2>4 DEF Kept, Fresh, is_in_progress
  <1> QED
    BY <1>2, <1>7, <1>8, <1>9, <1>10
-------------------------------------------------------------------------------
(* The invariant.                                                          *)

\* The invariant of the next state, when the end has become f.
LEMMA InvNext ==
  ASSUME NEW f, tunn' = f, Good(f), age' \in [Slots -> Nat], trying' \in Nat,
         \A s \in Slots : f.sessions[s] # NoSession => age'[s] <= f.session_timers[s],
         IF is_in_progress(f) THEN trying' <= f.timers["TimeLastHandshakeStarted"] ELSE trying' = 0,
         f.timers["TimeCurrent"] = 0 => trying' < REKEY_ATTEMPT_TIME
  PROVE  Inv'
  <1>1. Good(tunn)'
    BY DEF Good, Emptied, Young, is_expired
  <1>2. RetriesCease'
    BY DEF RetriesCease
  <1> QED
    BY <1>1, <1>2 DEF Inv, is_in_progress

LEMMA BecomesKeeps ==
  ASSUME Inv, NEW f, NEW ss, Becomes(f, ss), Good(f), Fresh(tunn, f, ss),
         ss = {} /\ is_in_progress(tunn) /\ is_in_progress(f) =>
           /\ SameStart(tunn, f)
           /\ \/ f.timers["TimeCurrent"] = tunn.timers["TimeCurrent"]
              \/ f.timers["TimeLastHandshakeStarted"] < REKEY_ATTEMPT_TIME
  PROVE  Inv'
  <1>1. /\ tunn' = f
        /\ age' = [s \in Slots |-> IF s \in ss THEN 0 ELSE age[s]]
        /\ trying' = IF is_in_progress(f) /\ is_in_progress(tunn) /\ ss = {} THEN trying ELSE 0
    BY DEF Becomes
  <1>2. f.session_timers \in [Slots -> Nat] /\ f.timers["TimeLastHandshakeStarted"] \in Nat
    BY DEF Good, Ends, TimerNames
  <1>3. age' \in [Slots -> Nat] /\ trying' \in Nat
    BY <1>1 DEF Inv
  <1>4. \A s \in Slots : f.sessions[s] # NoSession => age'[s] <= f.session_timers[s]
    BY <1>1, <1>2 DEF Inv, Fresh
  <1>5. IF is_in_progress(f) THEN trying' <= f.timers["TimeLastHandshakeStarted"] ELSE trying' = 0
    BY <1>1, <1>2 DEF Inv, SameStart
  <1>6. f.timers["TimeCurrent"] = 0 => trying' < REKEY_ATTEMPT_TIME
    BY <1>1, <1>2, TimeAssumption DEF Inv, SameStart, RetriesCease
  <1> QED
    BY <1>1, <1>3, <1>4, <1>5, <1>6, InvNext

LEMMA TimestampKeeps ==
  ASSUME NEW e \in Ends, NEW n \in Int
  PROVE  LET f == [e EXCEPT !.last_handshake_timestamp = n] IN Same(e, f) /\ SameStart(e, f)
  BY DEF Ends, Same, SameStart

\* A handler and the caller's drain after it.
LEMMA ReceivedKeeps ==
  ASSUME Inv, NEW e, NEW ss, Kept(tunn, e, ss), Received(e, ss)
  PROVE  Inv'
  <1> DEFINE d == drain(e, 0).e
             f == [d EXCEPT !.last_handshake_timestamp = 0]
  <1>1. Kept(e, d, {})
    BY DrainKeeps DEF Kept
  <1>2. Kept(tunn, d, ss)
    BY <1>1, KeptComposes
  <1>3. Becomes(f, ss)
    BY DEF Received
  <1> HIDE DEF d
  <1>4. Same(d, f) /\ SameStart(d, f)
    <2>1. d \in Ends
      BY <1>2 DEF Kept, Good
    <2> QED
      BY <2>1, TimestampKeeps
  <1> HIDE DEF f
  <1>5. Kept(d, f, {})
    BY <1>2, <1>4, SameIsKept DEF Kept
  <1>6. Kept(tunn, f, ss)
    BY <1>2, <1>5, KeptComposes
  <1> QED
    BY <1>3, <1>6, BecomesKeeps DEF Kept, Continues, SameStart

LEMMA OlderIsNat == MaxAge \in Nat /\ \A n \in Nat : Older(n) \in Nat
  BY TimeAssumption DEF MaxAge, Older

LEMMA OlderIsMonotonic == \A m, n \in Nat : m <= n => Older(m) <= Older(n)
  BY OlderIsNat DEF Older

LEMMA TimePassesKeeps ==
  ASSUME Inv, TimePasses
  PROVE  Inv'
  <1> DEFINE T == [n \in TimerNames |-> Older(tunn.timers[n])]
             S == [s \in Slots |-> Older(tunn.session_timers[s])]
             h == IF is_in_progress(tunn) THEN [tunn.state EXCEPT !.age = Older(tunn.state.age)]
                  ELSE tunn.state
             f == [tunn EXCEPT !.timers = T, !.session_timers = S, !.last_reset = Older(@), !.state = h]
  <1>0. tunn \in Ends
    BY DEF Inv, Good
  <1>1. tunn' = f
    BY <1>0 DEF TimePasses, Elapse, Ends
  <1>2. T \in [TimerNames -> Nat] /\ S \in [Slots -> Nat]
    BY <1>0, OlderIsNat DEF Ends
  <1>3. h \in Handshakes /\ h.k = tunn.state.k
    <2>1. tunn.state \in Handshakes
      BY <1>0 DEF Ends
    <2> QED
      BY <2>1, OlderIsNat DEF Handshakes
  <1>4. T["TimeCurrent"] = 1
    BY TimeAssumption DEF TimePasses, TimerNames, Older, MaxAge
  <1>5. T["TimeLastHandshakeStarted"] = Older(tunn.timers["TimeLastHandshakeStarted"])
    BY DEF TimerNames
  <1> HIDE DEF T, h
  <1>6. /\ f \in Ends /\ f.timers = T /\ f.session_timers = S /\ f.state = h
        /\ f.previous = tunn.previous /\ f.sessions = tunn.sessions
        /\ f.packet_queue = tunn.packet_queue
    BY <1>0, <1>2, <1>3, OlderIsNat DEF Ends
  <1> HIDE DEF f
  <1>7. Good(f) /\ (is_in_progress(f) <=> is_in_progress(tunn))
    BY <1>3, <1>4, <1>6 DEF Inv, Good, Emptied, Young, is_expired, is_in_progress
  <1>8. age' \in [Slots -> Nat] /\ trying' \in Nat
    BY OlderIsNat DEF TimePasses, Inv
  <1>9. \A s \in Slots : f.sessions[s] # NoSession => age'[s] <= f.session_timers[s]
    <2> SUFFICES ASSUME NEW s \in Slots, tunn.sessions[s] # NoSession
                 PROVE  Older(age[s]) <= Older(tunn.session_timers[s])
      BY <1>6 DEF TimePasses, S
    <2>1. age[s] \in Nat /\ tunn.session_timers[s] \in Nat /\ age[s] <= tunn.session_timers[s]
      BY <1>0 DEF Inv, Ends
    <2> QED
      BY <2>1, OlderIsMonotonic
  <1>10. IF is_in_progress(f) THEN trying' <= f.timers["TimeLastHandshakeStarted"] ELSE trying' = 0
    <2>1. trying \in Nat /\ tunn.timers["TimeLastHandshakeStarted"] \in Nat
      BY <1>0 DEF Inv, Ends, TimerNames
    <2> QED
      BY <1>5, <1>6, <1>7, <2>1, OlderIsMonotonic DEF TimePasses, Inv
  <1> QED
    BY <1>1, <1>4, <1>6, <1>7, <1>8, <1>9, <1>10, InvNext

LEMMA InitKeeps == Init => Inv
  <1> SUFFICES ASSUME Init PROVE Inv
    OBVIOUS
  <1> DEFINE ss == [s \in Slots |-> NoSession]
             T == [n \in TimerNames |-> 0]
             st == [s \in Slots |-> 0]
  <1>1. ss \in [Slots -> Sessions] /\ T \in [TimerNames -> Nat] /\ st \in [Slots -> Nat]
    BY ConstantTypes
  <1>2. new \in Ends
    <2>1. new = [next_index |-> 0, previous |-> Idle, state |-> Idle, last_handshake_timestamp |-> 0,
                 cookie |-> FALSE, cookie_index |-> -1, sessions |-> ss, current |-> 0,
                 packet_queue |-> <<>>, timers |-> T, session_timers |-> st,
                 is_initiator |-> FALSE, want_keepalive |-> FALSE, want_handshake |-> FALSE,
                 count |-> 0, last_reset |-> 0]
      BY DEF new
    <2> HIDE DEF ss, T, st
    <2> QED
      BY <1>1, <2>1, ConstantTypes, SMTT(30) DEF Ends
  <1>3. /\ new.state.k = "None" /\ new.sessions = [s \in Slots |-> NoSession]
        /\ new.timers = [n \in TimerNames |-> 0]
    BY ConstantTypes DEF new
  <1> QED
    BY <1>2, <1>3, TimeAssumption
       DEF Init, Inv, Good, Emptied, Young, RetriesCease, is_expired, is_in_progress

LEMMA StepKeeps == Inv /\ [Next]_vars => Inv'
  <1> SUFFICES ASSUME Inv, [Next]_vars PROVE Inv'
    OBVIOUS
  <1>0. Good(tunn) /\ tunn \in Ends
    BY DEF Inv, Good
  <1>1. CASE TimePasses
    BY <1>1, TimePassesKeeps
  <1>2. CASE UpdateTimers
    <2> DEFINE f == update_timers(tunn, 0).e
    <2>1. /\ Good(f) /\ Fresh(tunn, f, {})
          /\ is_in_progress(tunn) /\ is_in_progress(f) =>
               /\ SameStart(tunn, f)
               /\ f.timers["TimeLastHandshakeStarted"] < REKEY_ATTEMPT_TIME
      BY <1>0, UpdateKeeps
    <2>2. Becomes(f, {})
      BY <1>2 DEF UpdateTimers
    <2> HIDE DEF f
    <2> QED
      BY <2>1, <2>2, BecomesKeeps
  <1>3. CASE HostSends
    <2> DEFINE f == encapsulate(tunn, "packet", 0).e
    <2>1. Kept(tunn, f, {})
      BY <1>0, GoodIsAlmost, EncapsulateKeeps DEF Packets
    <2>2. Becomes(f, {})
      BY <1>3 DEF HostSends
    <2> HIDE DEF f
    <2> QED
      BY <2>1, <2>2, BecomesKeeps DEF Kept, Continues, SameStart
  <1>4. CASE PeerResponds
    <2>1. PICK st \in {tunn.state, tunn.previous} :
            Received(handle_handshake_response(tunn,
                       [sender |-> 0, receiver |-> st.idx, key |-> <<0, 0>>]).e, {st.idx % N_SESSIONS})
      BY <1>4 DEF PeerResponds
    <2> DEFINE m == [sender |-> 0, receiver |-> st.idx, key |-> <<0, 0>>]
    <2>2. m.sender \in Int /\ m.key[2] \in Int /\ m.receiver = st.idx
      OBVIOUS
    <2>3. Received(handle_handshake_response(tunn, m).e, {m.receiver % N_SESSIONS})
      BY <2>1, <2>2
    <2> HIDE DEF m
    <2>4. Kept(tunn, handle_handshake_response(tunn, m).e, {m.receiver % N_SESSIONS})
      BY <1>0, <2>2, HandleResponseKeeps
    <2> QED
      BY <2>3, <2>4, ReceivedKeeps
  <1>5. CASE PeerInitiates
    <2> DEFINE m == [sender |-> 0, eph |-> 1]
    <2>1. m.sender \in Int /\ m.eph \in Int
      OBVIOUS
    <2>2. Received(handle_handshake_init(tunn, m, 0).e, {inc_index(tunn) % N_SESSIONS})
      BY <1>5 DEF PeerInitiates
    <2> HIDE DEF m
    <2>3. Kept(tunn, handle_handshake_init(tunn, m, 0).e, {inc_index(tunn) % N_SESSIONS})
      <3>1. 0 \in Int
        OBVIOUS
      <3> QED
        BY <1>0, <2>1, <3>1, HandleInitKeeps, Zenon
    <2> QED
      BY <2>2, <2>3, ReceivedKeeps
  <1>6. ASSUME NEW pkt, PeerSends(pkt) PROVE Inv'
    <2>1. PICK s \in Slots :
            Received(handle_data(tunn, [receiver |-> tunn.sessions[s].local, pkt |-> pkt]), {})
      BY <1>6 DEF PeerSends
    <2> DEFINE m == [receiver |-> tunn.sessions[s].local, pkt |-> pkt]
    <2>2. m.receiver \in Int
      BY <1>0 DEF Ends, Sessions
    <2>3. Received(handle_data(tunn, m), {})
      BY <2>1
    <2> HIDE DEF m
    <2> QED
      BY <1>0, <2>2, <2>3, HandleDataKeeps, ReceivedKeeps
  <1>7. CASE PeerCookie
    BY <1>0, <1>7, HandleCookieKeeps, ReceivedKeeps DEF PeerCookie
  <1>8. CASE UNCHANGED vars
    BY <1>8 DEF vars, Inv, RetriesCease, Good, Emptied, Young, is_in_progress, is_expired
  <1> QED
    BY <1>1, <1>2, <1>3, <1>4, <1>5, <1>6, <1>7, <1>8 DEF Next

\* The invariant holds of every behaviour, for every length of the timeouts.
THEOREM Invariance == Spec => []Inv
  BY InitKeeps, StepKeeps, PTL DEF Spec

\* No session outlives REJECT_AFTER_TIME, whatever handshakes and traffic come
\* between two calls of update_timers.
THEOREM SessionsExpire == Spec => []NoOldSession
  <1>1. Inv => NoOldSession
    <2> SUFFICES ASSUME Inv, tunn.timers["TimeCurrent"] = 0, NEW s \in Slots,
                        tunn.sessions[s] # NoSession
                 PROVE  age[s] <= REJECT_AFTER_TIME
      BY DEF NoOldSession
    <2>1. age[s] \in Nat /\ tunn.session_timers[s] \in Nat
      BY DEF Inv, Good, Ends
    <2>2. age[s] <= tunn.session_timers[s] /\ tunn.session_timers[s] <= REJECT_AFTER_TIME
      BY DEF Inv, Good, Young
    <2> QED
      BY <2>1, <2>2, TimeAssumption
  <1> QED
    BY <1>1, Invariance, PTL

\* No handshake is retried for REKEY_ATTEMPT_TIME or longer: retransmissions
\* do not restart the timer that gives it up.
THEOREM RetriesAreBounded == Spec => []RetriesCease
  <1>1. Inv => RetriesCease
    BY DEF Inv
  <1> QED
    BY <1>1, Invariance, PTL

\* An end that has given up holds no session and no packet until a handshake
\* starts anew; an answer that comes after giving up opens none.
THEOREM GivenUpIsEmpty == Spec => []ExpiredIsEmpty
  <1>1. Inv => ExpiredIsEmpty
    BY DEF Inv, Good, Emptied, ExpiredIsEmpty
  <1> QED
    BY <1>1, Invariance, PTL
===============================================================================
