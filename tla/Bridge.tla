-------------------------------- MODULE Bridge --------------------------------
(***************************************************************************)
(* One bridged TCP connection: the smoltcp socket, the part of the loop    *)
(* that moves its bytes (shuttle), the two bounded channels, and the task  *)
(* that owns the connection of the operating system (newt/src/proxy.rs).   *)
(*                                                                         *)
(* On a site (newt/src/tunnel.rs, spawn_tcp) the bridge is made when the   *)
(* SYN of the client arrives, so the socket starts in SYN-RECEIVED, where  *)
(* a RST makes it listen again, and the task first connects to the target. *)
(* In the userspace backend of the client (newt/src/olm/userspace.rs,      *)
(* bridge_stream) the socket starts in SYN-SENT and the task has the       *)
(* connection of the local application: "client" is then the remote        *)
(* resource, "target" the application, target_done app_done.               *)
(*                                                                         *)
(* shuttle has no await, so it is one action; the task can be suspended at *)
(* each of its awaits.  The n-th byte of either direction is the number n. *)
(* The client, the target and TCP between them and the program are         *)
(* external and reliable until someone closes or resets, but for one       *)
(* thing: the tunnel loses packets, and smoltcp sends again what was lost  *)
(* when the clock its poll is given has advanced.  drive passes the time;  *)
(* step_io always passes zero, so a site sends again only if the client    *)
(* acknowledges enough that comes after (fast retransmit).                 *)
(***************************************************************************)
EXTENDS Integers, Sequences, SequencesExt, FiniteSetsExt

CONSTANTS
  TCP_RX, TCP_TX,        \* bytes the smoltcp socket buffers (4096)
  CHANNEL,               \* chunks a channel holds (16)
  BUF,                   \* bytes one read from the target takes (8192)
  KERNEL,                \* bytes the target's TCP connection buffers each way
  MaxBytes,              \* bound: bytes each side sends
  MaxLosses              \* bound: packets lost

VARIABLES
  sock,                  \* TCP state of the smoltcp socket
  rx, tx,                \* its buffers
  bridged,               \* the tunnel loop has a Bridge for the socket
  to_target, from_target,\* the channels, sequences of chunks
  pending, target_done,  \* the Bridge
  pc, chunk,             \* the task, and what it is writing or sending
  ended,                 \* how the task ended
  tin, tout,             \* the target's TCP connection, each way
  topen,                 \* the target has not closed it
  csent, cgot,           \* bytes the client sent, and those it got
  tsent, tgot,           \* the same for the target
  dialed,                \* the socket is one of the userspace backend
  lost, losses           \* the packet with the head of tx is lost; losses so far

loop == <<sock, rx, tx, bridged, pending, target_done>>
task == <<pc, chunk, ended>>
channels == <<to_target, from_target>>
stream == <<tin, tout>>
ends == <<topen, csent, cgot, tsent, tgot>>
loss == <<lost, losses>>
vars == <<loop, task, channels, stream, ends, dialed, loss>>

Init ==
  /\ dialed \in BOOLEAN /\ lost = FALSE /\ losses = 0
  /\ sock = (IF dialed THEN "SynSent" ELSE "SynReceived") /\ rx = <<>> /\ tx = <<>>
  /\ bridged = TRUE /\ pending = <<>> /\ target_done = FALSE
  /\ pc = (IF dialed THEN "select" ELSE "connect") /\ chunk = <<>> /\ ended = "no"
  /\ to_target = <<>> /\ from_target = <<>>
  /\ tin = <<>> /\ tout = <<>> /\ topen = TRUE
  /\ csent = 0 /\ cgot = <<>> /\ tsent = 0 /\ tgot = <<>>
-------------------------------------------------------------------------------
\* The receive buffer is a ring: its content is one piece, or two when it
\* wraps, and each call of recv hands out one piece.
Pieces(cut) == IF rx = <<>> THEN <<>>
               ELSE IF cut = Len(rx) THEN <<rx>>
               ELSE <<SubSeq(rx, 1, cut), SubSeq(rx, cut + 1, Len(rx))>>

\* How many pieces the channel takes: none once the task is gone.
Permits == IF pc = "done" THEN 0 ELSE CHANNEL - Len(to_target)

\* Seeded fault: the socket is drained whatever the channel can take.
ToTargetWithoutPermit(cut) ==
  /\ to_target' = to_target \o SubSeq(Pieces(cut), 1, Min({Permits, Len(Pieces(cut))}))
  /\ rx' = <<>>

\* smoltcp -> target: a piece leaves the socket only with a permit for it.
ToTarget(cut) ==
  LET n == Min({Permits, Len(Pieces(cut))})
  IN /\ to_target' = to_target \o SubSeq(Pieces(cut), 1, n)
     /\ rx' = FlattenSeq(SubSeq(Pieces(cut), n + 1, Len(Pieces(cut))))

\* Seeded fault: a new chunk is taken although the last is not flushed.
PulledEagerly == IF from_target # <<>> THEN Head(from_target) ELSE pending

\* The chunk to flush: the pending one or, when there is none, the next.
Pulled == IF pending = <<>> /\ from_target # <<>> THEN Head(from_target) ELSE pending

\* Seeded fault: a channel without sender counts as empty.
DisconnectedIsEmpty == FALSE

\* try_recv: nothing is left and the task is gone.
Disconnected == pending = <<>> /\ from_target = <<>> /\ pc = "done"

Room == IF sock \in {"Established", "CloseWait"} THEN TCP_TX - Len(tx) ELSE 0

Flushed == Min({Room, Len(Pulled)})

\* Seeded fault: the FIN does not wait for the pending bytes.
AfterCloseUnflushed ==
  IF ~(pc = "done") THEN sock
  ELSE CASE sock = "Established" -> "FinWait"
         [] sock = "SynReceived" -> "FinWait"
         [] sock = "CloseWait"   -> "LastAck"
         [] sock \in {"Listen", "SynSent"} -> "Closed"
         [] OTHER                -> sock

\* close(), when the target is done and everything is flushed.
AfterClose ==
  IF ~((target_done \/ Disconnected) /\ Flushed = Len(Pulled)) THEN sock
  ELSE CASE sock = "Established" -> "FinWait"
         [] sock = "SynReceived" -> "FinWait"
         [] sock = "CloseWait"   -> "LastAck"
         [] sock \in {"Listen", "SynSent"} -> "Closed"
         [] OTHER                -> sock

\* shuttle for this connection.
Shuttle ==
  /\ bridged
  /\ \E cut \in 1 .. Max({1, Len(rx)}) : ToTarget(cut)
  /\ from_target' = IF pending = <<>> /\ from_target # <<>> THEN Tail(from_target)
                    ELSE from_target
  /\ target_done' = (target_done \/ Disconnected)
  /\ tx' = tx \o SubSeq(Pulled, 1, Flushed)
  /\ pending' = SubSeq(Pulled, Flushed + 1, Len(Pulled))
  /\ sock' = AfterClose
  /\ bridged' = (sock' # "Closed")
  /\ UNCHANGED <<task, stream, ends, dialed, loss>>
-------------------------------------------------------------------------------
\* The task.  What it holds of the channels goes with it.
TaskEnds(how) == /\ pc' = "done" /\ chunk' = <<>> /\ ended' = how
                 /\ to_target' = <<>>

Connect ==
  /\ pc = "connect"
  /\ \/ pc' = "select" /\ UNCHANGED <<chunk, ended, to_target>>
     \/ TaskEnds("error")
  /\ UNCHANGED <<loop, from_target, stream, ends, dialed, loss>>

TaskRecv ==
  /\ pc = "select" /\ to_target # <<>>
  /\ pc' = "write" /\ chunk' = Head(to_target) /\ to_target' = Tail(to_target)
  /\ UNCHANGED <<loop, ended, from_target, stream, ends, dialed, loss>>

\* Seeded fault: the end of the channel is ignored.
TaskAbandonedNever == FALSE /\ UNCHANGED vars

\* recv gives None: the loop has dropped the sender.
TaskAbandoned ==
  /\ pc = "select" /\ to_target = <<>> /\ ~bridged
  /\ TaskEnds("abandoned")
  /\ UNCHANGED <<loop, from_target, stream, ends, dialed, loss>>

\* write_all, as far as the kernel takes it; it may fail once the target has
\* closed.
TaskWrite ==
  /\ pc = "write"
  /\ \/ /\ topen /\ Len(tin) < KERNEL
        /\ tin' = Append(tin, Head(chunk)) /\ chunk' = Tail(chunk)
        /\ pc' = IF Len(chunk) = 1 THEN "select" ELSE "write"
        /\ UNCHANGED <<ended, to_target>>
     \/ ~topen /\ TaskEnds("error") /\ UNCHANGED tin
  /\ UNCHANGED <<loop, from_target, tout, ends, dialed, loss>>

TaskRead ==
  /\ pc = "select"
  /\ \/ \E n \in 1 .. Min({BUF, Len(tout)}) :
          /\ chunk' = SubSeq(tout, 1, n) /\ tout' = SubSeq(tout, n + 1, Len(tout))
          /\ pc' = "send"
          /\ UNCHANGED <<ended, to_target>>
     \/ tout = <<>> /\ ~topen /\ TaskEnds("eof") /\ UNCHANGED tout
  /\ UNCHANGED <<loop, from_target, tin, ends, dialed, loss>>

TaskSend ==
  /\ pc = "send"
  /\ \/ /\ bridged /\ Len(from_target) < CHANNEL
        /\ from_target' = Append(from_target, chunk)
        /\ pc' = "select" /\ chunk' = <<>>
        /\ UNCHANGED <<ended, to_target>>
     \/ ~bridged /\ TaskEnds("abandoned") /\ UNCHANGED from_target
  /\ UNCHANGED <<loop, stream, ends, dialed, loss>>
-------------------------------------------------------------------------------
\* The client and the target.

ClientSends ==
  /\ sock \in {"Established", "FinWait"} /\ csent < MaxBytes /\ Len(rx) < TCP_RX
  /\ csent' = csent + 1 /\ rx' = Append(rx, csent + 1)
  /\ UNCHANGED <<sock, tx, bridged, pending, target_done, task, channels, stream, topen,
                 cgot, tsent, tgot, dialed, loss>>

ClientReceives ==
  /\ tx # <<>> /\ sock # "Closed" /\ ~lost
  /\ cgot' = Append(cgot, Head(tx)) /\ tx' = Tail(tx)
  /\ UNCHANGED <<sock, rx, bridged, pending, target_done, task, channels, stream, topen,
                 csent, tsent, tgot, dialed, loss>>

\* A packet of the socket is lost.
Loses ==
  /\ tx # <<>> /\ sock # "Closed" /\ ~lost /\ losses < MaxLosses
  /\ lost' = TRUE /\ losses' = losses + 1
  /\ UNCHANGED <<loop, task, channels, stream, ends, dialed>>

Retransmits ==
  /\ lost /\ lost' = FALSE
  /\ UNCHANGED <<loop, task, channels, stream, ends, dialed, losses>>

\* What the client's segments do to the socket: the handshake, its FIN, its
\* acknowledgment of ours, or its RST.
ClientMoves ==
  /\ sock' \in CASE sock = "Listen"      -> {"SynReceived"}
                 [] sock = "SynReceived" -> {"Established", "Listen"}
                 [] sock = "SynSent"     -> {"Established", "Closed"}
                 [] sock = "Established" -> {"CloseWait", "Closed"}
                 [] sock = "CloseWait"   -> {"Closed"}
                 [] sock = "FinWait"     -> {"LastAck", "Closed"}
                 [] sock = "LastAck"     -> IF tx = <<>> THEN {"Closed"} ELSE {}
                 [] sock = "Closed"      -> {}
  /\ UNCHANGED <<rx, tx, bridged, pending, target_done, task, channels, stream, ends, dialed, loss>>

TargetReceives ==
  /\ tin # <<>>
  /\ tgot' = Append(tgot, Head(tin)) /\ tin' = Tail(tin)
  /\ UNCHANGED <<loop, task, channels, tout, topen, csent, cgot, tsent, dialed, loss>>

TargetSends ==
  /\ topen /\ pc \notin {"connect", "done"} /\ tsent < MaxBytes /\ Len(tout) < KERNEL
  /\ tsent' = tsent + 1 /\ tout' = Append(tout, tsent + 1)
  /\ UNCHANGED <<loop, task, channels, tin, topen, csent, cgot, tgot, dialed, loss>>

TargetCloses ==
  /\ topen /\ topen' = FALSE /\ pc # "connect"
  /\ UNCHANGED <<loop, task, channels, stream, csent, cgot, tsent, tgot, dialed, loss>>

Task == Connect \/ TaskRecv \/ TaskAbandoned \/ TaskWrite \/ TaskRead \/ TaskSend

Next == \/ Shuttle \/ Task
        \/ ClientSends \/ ClientReceives \/ ClientMoves \/ Loses \/ Retransmits
        \/ TargetReceives \/ TargetSends \/ TargetCloses

\* Seeded fault: drive polls the stack at instant zero.
ClockStandsStill == FALSE

\* Time advances for the sockets of a stack that is polled with it.
ClockAdvances == dialed

Spec == Init /\ [][Next]_vars

\* step_io runs shuttle at least every 50 ms, drive whenever it has paused or
\* accepted (Forwards); a task that can go on is polled;
\* select! in the task picks at random among its ready arms; both ends read
\* while they are open; a retransmission timer expires if the clock advances.
FairSpec == /\ Spec
            /\ WF_vars(Shuttle) /\ WF_vars(Task) /\ SF_vars(TaskRead)
            /\ WF_vars(ClientReceives) /\ WF_vars(topen /\ TargetReceives)
            /\ WF_vars(ClockAdvances /\ Retransmits)
-------------------------------------------------------------------------------
UpTo(n) == [i \in 1 .. n |-> i]

InTask(p) == IF pc = p THEN chunk ELSE <<>>

\* "a full bridge channel backpressures the TCP window instead of losing
\* data", shuttle: while the task lives, every byte the client sent is at the
\* target or in exactly one place on its way, in order.
NothingLostToTarget ==
  bridged /\ pc # "done" =>
    tgot \o tin \o InTask("write") \o FlattenSeq(to_target) \o rx = UpTo(csent)

\* The same the other way, as long as the task was not cut short by an error:
\* no chunk is dropped, doubled or overtaken between the target, the channel,
\* the pending chunk and the socket.
NothingLostToClient ==
  bridged /\ ended \in {"no", "eof"} =>
    cgot \o tx \o pending \o FlattenSeq(from_target) \o InTask("send") \o tout
      = UpTo(tsent)

\* "target finished and everything is flushed -> send FIN", shuttle: when the
\* target has ended its stream, the client sees the end of it only after the
\* last byte.
FinIsLast ==
  sock \in {"FinWait", "LastAck"} /\ ended = "eof" => cgot \o tx = UpTo(tsent)

\* A site does not send again what was lost, and nothing says it would.
Stalled == lost /\ ~dialed

\* When the target has closed, the client is told: a socket whose handshake is
\* complete gets its FIN or is gone, however full the buffers were and whatever
\* was lost, unless a packet of a site is lost for good.
EndReachesClient ==
  ~topen /\ sock \in {"Established", "CloseWait"} ~>
    sock \in {"FinWait", "LastAck", "Closed"} \/ Stalled

\* "loop dropped sender => connection closed", spawn_tcp: when the socket is
\* gone the task ends, from whichever await it is in, and with it the
\* connection of the operating system: none is left open without a socket.
NoOrphanTask == sock = "Closed" ~> pc = "done"

\* One task serves both directions and awaits in one at a time, with a full
\* channel or a full socket: while both ends read, neither direction stops the
\* other, and what was sent arrives, lost packets included where the clock of
\* the stack advances, unless the connection ends first.
BytesArrive ==
  /\ csent > Len(tgot) ~> csent = Len(tgot) \/ pc = "done" \/ Stalled
  /\ tsent > Len(cgot) ~> \/ tsent = Len(cgot) \/ ended = "error" \/ Stalled
                          \/ sock \notin {"Established", "CloseWait"}
===============================================================================
