--------------------------------- MODULE Tunn ---------------------------------
(***************************************************************************)
(* One end of a WireGuard tunnel (boringtun noise/mod.rs, handshake.rs,    *)
(* timers.rs) as operators on a record: the handshake under way, the ring  *)
(* of sessions, the queue of packets that wait for one, the timers, and    *)
(* the rate limiter of handshake messages (rate_limiter.rs).               *)
(* Every operator returns the new end and the messages it sends.           *)
(*                                                                         *)
(* Keys.  An ephemeral key is a number, fresh at each use; it also stands  *)
(* for the timestamp of the initiation, which a sender never repeats.  A   *)
(* session key is the pair of the two ephemerals of the handshake, and a   *)
(* message opens only under the key it was sealed with.                    *)
(*                                                                         *)
(* Time.  A timer holds how long ago it was set, up to MaxAge; comparing   *)
(* two instants is comparing two ages the other way round.  The age of     *)
(* TimeCurrent is the time since the last update_timers, whose clock       *)
(* reading the handlers use.                                               *)
(***************************************************************************)
EXTENDS Integers, Sequences

CONSTANTS
  N_SESSIONS,            \* slots of the session ring (8)
  INDEXES,               \* values of the cyclic session index (256)
  MAX_QUEUE_DEPTH,       \* packets that may wait for a session (256)
  REKEY_AFTER_TIME, REJECT_AFTER_TIME, REKEY_ATTEMPT_TIME, REKEY_TIMEOUT,
  KEEPALIVE_TIMEOUT, COOKIE_EXPIRATION_TIME, PERSISTENT_KEEPALIVE,
  PEER_HANDSHAKE_RATE_LIMIT,  \* handshake messages taken per period (10)
  RESET_PERIOD           \* of the rate limiter

ASSUME RingAssumption == /\ N_SESSIONS \in Nat \ {0} /\ INDEXES \in Nat \ {0}
                         /\ INDEXES % N_SESSIONS = 0

ASSUME TimeAssumption == REJECT_AFTER_TIME \in Nat /\ REKEY_ATTEMPT_TIME \in Nat \ {0}

MaxAge == 3 * REJECT_AFTER_TIME + 1

Slots == 0 .. N_SESSIONS - 1

\* The packet of a keepalive.
Empty == "empty"

NoSession == [local |-> -1, peer |-> -1, key |-> <<0, 0>>]

\* HandshakeState; InitReceived lasts for part of a handler only.
Idle == [k |-> "None", idx |-> 0, eph |-> 0, age |-> 0]
Expired == [Idle EXCEPT !.k = "Expired"]
InitSent(idx, eph) == [k |-> "InitSent", idx |-> idx, eph |-> eph, age |-> 0]

TimerNames == {"TimeCurrent", "TimeSessionEstablished", "TimeLastHandshakeStarted",
               "TimeLastPacketReceived", "TimeLastPacketSent", "TimeLastDataPacketReceived",
               "TimeLastDataPacketSent", "TimeCookieReceived", "TimePersistentKeepalive"}

new == [next_index |-> 0, previous |-> Idle, state |-> Idle, last_handshake_timestamp |-> 0,
        cookie |-> FALSE, cookie_index |-> -1,
        sessions |-> [s \in Slots |-> NoSession], current |-> 0, packet_queue |-> <<>>,
        timers |-> [n \in TimerNames |-> 0], session_timers |-> [s \in Slots |-> 0],
        is_initiator |-> FALSE, want_keepalive |-> FALSE, want_handshake |-> FALSE,
        count |-> 0, last_reset |-> 0]

\* What a call returns: the end after it and the messages it sends, in order.
Ret(e, out) == [e |-> e, out |-> out]

is_in_progress(e) == e.state.k = "InitSent"
is_expired(e) == e.state.k = "Expired"
CurrentSession(e) == e.sessions[e.current % N_SESSIONS]
inc_index(e) == (e.next_index + 1) % INDEXES
-------------------------------------------------------------------------------
timer_tick(e, n) ==
  LET t == [e EXCEPT !.timers[n] = e.timers["TimeCurrent"]]
  IN CASE n = "TimeLastPacketReceived" -> [t EXCEPT !.want_keepalive = TRUE, !.want_handshake = FALSE]
       [] n = "TimeLastPacketSent" -> [t EXCEPT !.want_keepalive = FALSE, !.want_handshake = TRUE]
       [] OTHER -> t

\* Seeded fault: a session that was just answered is used at once.
SessionEstablishedIsCurrent(e, is_initiator, idx) ==
  [timer_tick(e, "TimeSessionEstablished") EXCEPT
     !.session_timers[idx % N_SESSIONS] = e.timers["TimeCurrent"],
     !.is_initiator = is_initiator, !.current = idx]

timer_tick_session_established(e, is_initiator, idx) ==
  [timer_tick(e, "TimeSessionEstablished") EXCEPT
     !.session_timers[idx % N_SESSIONS] = e.timers["TimeCurrent"],
     !.is_initiator = is_initiator]

\* Timers::clear sets every timer to the present.
ClearTimers(e) == [e EXCEPT !.timers = [n \in TimerNames |-> 0],
                            !.want_keepalive = FALSE, !.want_handshake = FALSE]

\* Seeded fault: giving up keeps the sessions.
clear_all_but_sessions(e) == [ClearTimers(e) EXCEPT !.packet_queue = <<>>]

\* Seeded fault: giving up keeps the packets that wait.
clear_all_but_queue(e) == [ClearTimers(e) EXCEPT !.sessions = [s \in Slots |-> NoSession]]

clear_all(e) == [ClearTimers(e) EXCEPT !.sessions = [s \in Slots |-> NoSession],
                                       !.packet_queue = <<>>]

set_expired(e) == [e EXCEPT !.previous = Expired, !.state = Expired]
-------------------------------------------------------------------------------
\* Handshake::format_handshake_initiation: the handshake under way becomes the
\* previous one, whose answer is still welcome.  append_mac1_and_mac2 keeps
\* the index a cookie reply must name.
Initiation(e, eph) ==
  LET idx == inc_index(e)
  IN Ret([e EXCEPT !.next_index = idx, !.previous = [e.state EXCEPT !.age = 0],
                   !.state = InitSent(idx, eph), !.cookie_index = idx],
         <<[type |-> "init", sender |-> idx, eph |-> eph]>>)

\* Seeded fault: a retransmission counts as a new handshake.
StartingAlways(e) == TRUE

starting_new_handshake(e) == ~is_in_progress(e)

\* The initiation e makes has been sent, by the end that is now i.
Initiated(e, i) ==
  timer_tick(IF starting_new_handshake(e) THEN timer_tick(i, "TimeLastHandshakeStarted") ELSE i,
             "TimeLastPacketSent")

\* Seeded fault: an expired end starts no handshake.
NoInitiationOnceExpired(e, force_resend, eph) ==
  IF is_expired(e) \/ (is_in_progress(e) /\ ~force_resend) THEN Ret(e, <<>>)
  ELSE LET r == Initiation(e, eph) IN Ret(Initiated(e, r.e), r.out)

format_handshake_initiation(e, force_resend, eph) ==
  IF is_in_progress(e) /\ ~force_resend THEN Ret(e, <<>>)
  ELSE LET c == IF is_expired(e) THEN ClearTimers(e) ELSE e
           r == Initiation(c, eph)
       IN Ret(Initiated(e, r.e), r.out)

queue_packet(e, pkt) == IF Len(e.packet_queue) < MAX_QUEUE_DEPTH
                        THEN [e EXCEPT !.packet_queue = Append(@, pkt)] ELSE e

\* Session::format_packet_data.
Data(s, pkt) == [type |-> "data", receiver |-> s.peer, key |-> s.key, pkt |-> pkt]

\* Packets went out on a session; a keepalive is no data.
Sent(e, pkts) ==
  LET t == timer_tick(e, "TimeLastPacketSent")
  IN IF pkts \subseteq {Empty} THEN t ELSE timer_tick(t, "TimeLastDataPacketSent")

encapsulate(e, pkt, eph) ==
  IF CurrentSession(e) # NoSession
  THEN Ret(Sent(e, {pkt}), <<Data(CurrentSession(e), pkt)>>)
  ELSE format_handshake_initiation(queue_packet(e, pkt), FALSE, eph)

\* decapsulate of an empty datagram: send_queued_packet.  Errors are those of
\* buffers that are too small, and the callers' are not.
send_queued_packet(e, eph) ==
  IF e.packet_queue = <<>> THEN Ret(e, <<>>)
  ELSE encapsulate([e EXCEPT !.packet_queue = Tail(@)], Head(e.packet_queue), eph)

\* The caller's loop: drain until nothing comes out.  With a session every
\* packet that waits goes out; without one the first goes to the back of the
\* queue, and once more after the initiation it may have caused.
drain(e, eph) ==
  LET q == e.packet_queue
  IN IF q = <<>> THEN Ret(e, <<>>)
     ELSE IF CurrentSession(e) # NoSession
     THEN Ret([Sent(e, {q[i] : i \in DOMAIN q}) EXCEPT !.packet_queue = <<>>],
              [i \in DOMAIN q |-> Data(CurrentSession(e), q[i])])
     ELSE LET r == send_queued_packet(e, eph)
          IN IF r.out = <<>> THEN r ELSE Ret(send_queued_packet(r.e, eph).e, r.out)
-------------------------------------------------------------------------------
\* Seeded fault: one message too many.
is_under_load_late(e) == e.count > PEER_HANDSHAKE_RATE_LIMIT

\* The RateLimiter of the end.  is_under_load counts and compares; the count
\* does not matter beyond the limit.
is_under_load(e) == e.count >= PEER_HANDSHAKE_RATE_LIMIT
CountOne(e) == [e EXCEPT !.count = IF is_under_load(e) THEN @ ELSE @ + 1]

\* verify_packet lets every data packet and cookie reply pass.  The pump gives
\* it no source address: under load a handshake message is refused and no
\* cookie is made.
Verified(e, m) == m.type = "data" \/ ~is_under_load(e)

reset_count(e) == IF e.last_reset >= RESET_PERIOD
                  THEN [e EXCEPT !.count = 0, !.last_reset = 0] ELSE e
-------------------------------------------------------------------------------
\* Tai64N::after.
after(ts, last) == ts > last

\* The handshake state InitReceived lasts until the response is made.
receive_handshake_initialization(e, m) ==
  [e EXCEPT !.last_handshake_timestamp = m.eph,
            !.previous = [e.state EXCEPT !.age = 0], !.state = Idle]

\* The session both keys of the handshake give, and the answer.
format_handshake_response(e, m, eph) ==
  LET idx == inc_index(e)
      s == [local |-> idx, peer |-> m.sender, key |-> <<m.eph, eph>>]
  IN Ret([e EXCEPT !.next_index = idx, !.cookie_index = idx, !.sessions[idx % N_SESSIONS] = s],
         <<[type |-> "resp", sender |-> idx, receiver |-> m.sender, key |-> s.key]>>)

\* The session is ready, and is not used before the first packet under it.
handle_handshake_init(e, m, eph) ==
  IF ~after(m.eph, e.last_handshake_timestamp) THEN Ret(e, <<>>)
  ELSE LET r == format_handshake_response(receive_handshake_initialization(e, m), m, eph)
           t == timer_tick(timer_tick(r.e, "TimeLastPacketReceived"), "TimeLastPacketSent")
       IN Ret(timer_tick_session_established(t, FALSE, r.e.next_index), r.out)

set_current_session(e, idx) ==
  IF e.current # idx /\ \/ CurrentSession(e) = NoSession
                        \/ e.session_timers[idx % N_SESSIONS] <= e.session_timers[e.current % N_SESSIONS]
  THEN [e EXCEPT !.current = idx] ELSE e

\* The answer opens under the keys of the handshake it answers.
Opens(st, m) == st.eph = m.key[1]

\* Seeded fault: the session takes the index of the latest handshake.
SessionIndexLatest(e, st) == e.next_index

SessionIndex(e, st) == st.idx

\* handle_handshake_response with receive_handshake_response: the handshake
\* under way, or else the one before, whose index the answer names.
handle_handshake_response(e, m) ==
  LET Awaits(st) == st.k = "InitSent" /\ st.idx = m.receiver
      Accept(h, st) ==
        LET idx == SessionIndex(e, st)
            s == [local |-> idx, peer |-> m.sender, key |-> <<st.eph, m.key[2]>>]
            t == timer_tick([h EXCEPT !.sessions[idx % N_SESSIONS] = s], "TimeLastPacketReceived")
        IN Ret(set_current_session(timer_tick_session_established(t, TRUE, idx), idx),
               <<Data(s, Empty)>>)
  IN IF Awaits(e.state)
     THEN IF Opens(e.state, m) THEN Accept([e EXCEPT !.state = Idle], e.state) ELSE Ret(e, <<>>)
     ELSE IF Awaits(e.previous) /\ Opens(e.previous, m)
          THEN Accept([e EXCEPT !.previous = Idle], e.previous) ELSE Ret(e, <<>>)

\* handle_cookie_reply: the reply names the last handshake message sent, if
\* there is one.
handle_cookie_reply(e, m) ==
  IF e.cookie_index = -1 \/ m.receiver # e.cookie_index THEN e
  ELSE timer_tick(timer_tick([e EXCEPT !.cookie = TRUE], "TimeLastPacketReceived"),
                  "TimeCookieReceived")

\* Session::receive_packet_data, but for the counter: the slot holds the
\* session the packet names and the packet opens under its key.
ForSession(e, m) ==
  LET s == e.sessions[m.receiver % N_SESSIONS]
  IN s # NoSession /\ s.local = m.receiver /\ s.key = m.key

\* handle_data, for a packet that opened.
handle_data(e, m) ==
  LET t == timer_tick(set_current_session(e, m.receiver), "TimeLastPacketReceived")
  IN IF m.pkt = Empty THEN t ELSE timer_tick(t, "TimeLastDataPacketReceived")
-------------------------------------------------------------------------------
\* Seeded fault: sessions are kept until they are replaced.
update_session_timers_none(e) == e

update_session_timers(e) ==
  LET old == {s \in Slots : e.session_timers[s] > REJECT_AFTER_TIME}
  IN [e EXCEPT !.sessions = [s \in Slots |-> IF s \in old THEN NoSession ELSE @[s]],
               !.session_timers = [s \in Slots |-> IF s \in old THEN 0 ELSE @[s]]]

GiveUp(e) == \/ e.timers["TimeSessionEstablished"] >= REJECT_AFTER_TIME * 3
             \/ is_in_progress(e) /\ e.timers["TimeLastHandshakeStarted"] >= REKEY_ATTEMPT_TIME

\* The initiator of the session renews it, when it is in use.
Rekey(e) ==
  LET T == e.timers
  IN /\ e.is_initiator
     /\ \/ /\ T["TimeSessionEstablished"] > T["TimeLastDataPacketSent"]
           /\ T["TimeSessionEstablished"] >= REKEY_AFTER_TIME
        \/ /\ T["TimeSessionEstablished"] > T["TimeLastDataPacketReceived"]
           /\ T["TimeSessionEstablished"] >= REJECT_AFTER_TIME - KEEPALIVE_TIMEOUT - REKEY_TIMEOUT

\* Data was sent and nothing came back.
Unanswered(e) ==
  /\ e.timers["TimeLastDataPacketSent"] < e.timers["TimeLastPacketReceived"]
  /\ e.timers["TimeLastPacketReceived"] >= KEEPALIVE_TIMEOUT + REKEY_TIMEOUT
  /\ e.want_handshake

KeepaliveDue(e) ==
  /\ e.timers["TimeLastDataPacketReceived"] < e.timers["TimeLastPacketSent"]
  /\ e.timers["TimeLastPacketSent"] >= KEEPALIVE_TIMEOUT
  /\ e.want_keepalive

PersistentDue(e) == /\ PERSISTENT_KEEPALIVE > 0
                    /\ e.timers["TimePersistentKeepalive"] >= PERSISTENT_KEEPALIVE

update_timers(e0, eph) ==
  LET e == update_session_timers([reset_count(e0) EXCEPT !.timers["TimeCurrent"] = 0])
      c == IF e.cookie /\ e.timers["TimeCookieReceived"] >= COOKIE_EXPIRATION_TIME
           THEN [e EXCEPT !.cookie = FALSE] ELSE e
      h == IF Unanswered(c) THEN [c EXCEPT !.want_handshake = FALSE] ELSE c
      k == IF KeepaliveDue(h) THEN [h EXCEPT !.want_keepalive = FALSE] ELSE h
      p == IF PersistentDue(h) THEN timer_tick(k, "TimePersistentKeepalive") ELSE k
  IN IF is_expired(e) THEN Ret(e, <<>>)
     ELSE IF GiveUp(c) THEN Ret(clear_all(set_expired(c)), <<>>)
     ELSE IF is_in_progress(c)
          THEN IF c.state.age >= REKEY_TIMEOUT THEN format_handshake_initiation(c, TRUE, eph)
               ELSE Ret(c, <<>>)
     ELSE IF Rekey(c) \/ Unanswered(c) THEN format_handshake_initiation(h, TRUE, eph)
     ELSE IF KeepaliveDue(h) \/ PersistentDue(h) THEN encapsulate(p, Empty, eph)
     ELSE Ret(p, <<>>)

\* A unit of time passes.
Older(age) == IF age < MaxAge THEN age + 1 ELSE age
Elapse(e) ==
  [e EXCEPT !.timers = [n \in TimerNames |-> Older(@[n])],
            !.session_timers = [s \in Slots |-> Older(@[s])], !.last_reset = Older(@),
            !.state = IF is_in_progress(e) THEN [e.state EXCEPT !.age = Older(e.state.age)] ELSE @]
===============================================================================
