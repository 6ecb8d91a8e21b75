------------------------------ MODULE TunnTimers ------------------------------
(***************************************************************************)
(* One end of a tunnel over time: when handshakes are retried, when they   *)
(* are given up, when sessions are renewed and when they end               *)
(* (boringtun noise/timers.rs).  The peer and the network are any: a       *)
(* handshake is answered now, late or never, and the peer may initiate and *)
(* send whenever it likes.  Keys and counters are left out.                *)
(*                                                                         *)
(* update_timers runs at least once per unit of time (step_io calls it     *)
(* every 50 ms, the olm client every second).                              *)
(***************************************************************************)
EXTENDS Tunn

CONSTANT
  MaxActs                \* bound: what the peer does besides answering

VARIABLES
  tunn,                  \* the end
  age,                   \* history: the age of the session of each slot
  trying,                \* history: for how long it has been trying to connect
  acts

vars == <<tunn, age, trying, acts>>

Init == tunn = new /\ age = [s \in Slots |-> 0] /\ trying = 0 /\ acts = 0

\* The end becomes e, with new sessions in the slots of ss.
Becomes(e, ss) == \E t \in {e} :
  /\ tunn' = t
  /\ age' = [s \in Slots |-> IF s \in ss THEN 0 ELSE age[s]]
  /\ trying' = IF is_in_progress(t) /\ is_in_progress(tunn) /\ ss = {} THEN trying ELSE 0

TimePasses ==
  /\ tunn.timers["TimeCurrent"] = 0
  /\ tunn' = Elapse(tunn)
  /\ age' = [s \in Slots |-> IF tunn.sessions[s] = NoSession THEN 0 ELSE Older(age[s])]
  /\ trying' = IF is_in_progress(tunn) THEN Older(trying) ELSE trying
  /\ UNCHANGED acts

UpdateTimers == /\ tunn.timers["TimeCurrent"] > 0
                /\ Becomes(update_timers(tunn, 0).e, {}) /\ UNCHANGED acts

\* A packet of the host, or the ping that send_ping sends every second.
HostSends == Becomes(encapsulate(tunn, "packet", 0).e, {}) /\ UNCHANGED acts

\* The caller drains after every datagram.
Received(e, ss) == Becomes([drain(e, 0).e EXCEPT !.last_handshake_timestamp = 0], ss)

\* The peer's answer to the handshake under way, or to the one before.
PeerResponds == \E st \in {tunn.state, tunn.previous} :
  /\ st.k = "InitSent" /\ UNCHANGED acts
  /\ Received(handle_handshake_response(tunn, [sender |-> 0, receiver |-> st.idx, key |-> <<0, 0>>]).e,
              {st.idx % N_SESSIONS})

\* Something the peer does of its own accord.
Acts == acts < MaxActs /\ acts' = acts + 1

PeerInitiates ==
  /\ Acts
  /\ Received(handle_handshake_init(tunn, [sender |-> 0, eph |-> 1], 0).e,
              {inc_index(tunn) % N_SESSIONS})

PeerSends(pkt) == \E s \in Slots :
  /\ Acts /\ tunn.sessions[s] # NoSession
  /\ Received(handle_data(tunn, [receiver |-> tunn.sessions[s].local, pkt |-> pkt]), {})

PeerCookie ==
  /\ Acts
  /\ Received(handle_cookie_reply(tunn, [receiver |-> tunn.cookie_index]), {})

Next == \/ TimePasses \/ UpdateTimers \/ HostSends
        \/ PeerResponds \/ PeerInitiates \/ PeerSends("packet") \/ PeerSends(Empty) \/ PeerCookie

Spec == Init /\ [][Next]_vars

\* Time passes and update_timers is called.
FairSpec == Spec /\ WF_vars(TimePasses) /\ WF_vars(UpdateTimers)

-------------------------------------------------------------------------------
\* No session outlives REJECT_AFTER_TIME: after update_timers the ring holds
\* none that is older, whatever handshakes and traffic came between.
NoOldSession ==
  tunn.timers["TimeCurrent"] = 0 =>
    \A s \in Slots : tunn.sessions[s] # NoSession => age[s] <= REJECT_AFTER_TIME

\* Retries cease: no handshake is under way for more than REKEY_ATTEMPT_TIME.
RetriesCease == tunn.timers["TimeCurrent"] = 0 => trying < REKEY_ATTEMPT_TIME

\* An end that has given up holds no sessions and no packets, so nothing is
\* sent on keys the protocol says are zeroed.
ExpiredIsEmpty == is_expired(tunn) =>
  tunn.packet_queue = <<>> /\ \A s \in Slots : tunn.sessions[s] = NoSession

\* A packet does not wait for ever: a session comes up and it is sent, or the
\* handshake is given up and the queue cleared.
NoPacketWaits == (tunn.packet_queue # <<>>) ~> (tunn.packet_queue = <<>>)

\* A site that pings every second and whose peer can be reached again and again
\* comes back: after every outage, expired or not, a ping starts a handshake.
ComesBack ==
  WF_vars(HostSends) /\ SF_vars(PeerResponds) => []<>(CurrentSession(tunn) # NoSession)
===============================================================================
