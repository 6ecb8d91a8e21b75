----------------------------- MODULE MCTunnTimers -----------------------------
(* TunnTimers on small instances.                                          *)
EXTENDS TunnTimers

\* States that differ only in timers that are not read again before they are
\* set: the cookie's without a cookie, the start of a handshake when none is
\* under way, the age of an empty slot; and a keepalive is due or not.
View ==
  <<[tunn EXCEPT
       !.timers["TimeCookieReceived"] = IF tunn.cookie THEN @ ELSE 0,
       !.timers["TimeLastHandshakeStarted"] = IF is_in_progress(tunn) THEN @ ELSE 0,
       !.timers["TimePersistentKeepalive"] = IF @ > PERSISTENT_KEEPALIVE THEN PERSISTENT_KEEPALIVE ELSE @,
       !.session_timers = [s \in Slots |-> IF tunn.sessions[s] = NoSession THEN 0 ELSE @[s]]],
    age, trying, acts>>
===============================================================================
