-------------------------------- MODULE WsRecv --------------------------------
(***************************************************************************)
(* Receiving control messages over the WebSocket                           *)
(* (newt/src/transport/ws.rs, recv and read_frame), as the session loops   *)
(* use it: recv is an arm of a select!, so the future, with the part of a  *)
(* frame or message it has read, is dropped when another arm is ready      *)
(* while recv waits for bytes.                                             *)
(*                                                                         *)
(* The wire carries units: the two header bytes of a frame, its extended   *)
(* length if it has one, and the bytes of its payload.  What is available  *)
(* is read without a pause; a read that finds nothing waits.  Payloads are *)
(* unmasked, as a server sends them, and a pong never blocks.  The server  *)
(* is external and follows RFC 6455.                                       *)
(***************************************************************************)
EXTENDS Integers, Sequences, SequencesExt

CONSTANTS
  MaxLen,                \* bound: payload bytes of a frame
  EXTENDED,              \* payloads this long need an extended length (126)
  MAX_FRAME,             \* the longest payload read_frame accepts
  MaxFrames,             \* bound: frames the server sends
  MaxDrops,              \* bound: times a waiting recv is dropped
  Whole                  \* messages arrive whole, not cut by the network

VARIABLES
  sent, wire,            \* units under way, and those that have arrived
  frame, units,          \* read_frame: the header, and the units read after it
  msg, msg_is_text,      \* recv: the message so far
  got, pongs,            \* history: what recv returned, and the pings answered
  status,                \* "open", "closed" by the server, "failed" with an error
  cur,                   \* the server: the message it is in the middle of
  frames, texts, pings,  \* frames sent; text messages begun; pings
  size,                  \* the payload bytes of each message
  drops

reader == <<frame, units, msg, msg_is_text, got, pongs, status>>
server == <<cur, frames, texts, pings, size>>
vars == <<sent, wire, reader, server, drops>>

None == [op |-> "none", fin |-> FALSE, len |-> 0, id |-> 0]

Ops == {"cont", "text", "binary", "ping", "pong", "close", "unknown"}
Frames == [op : Ops, fin : BOOLEAN, len : 0 .. MaxLen, id : 0 .. MaxFrames]

\* Units after the header.
Rest(f) == IF f.len >= EXTENDED THEN f.len + 1 ELSE f.len

Encoded(f) == [k \in 1 .. 1 + Rest(f) |-> [head |-> (k = 1), of |-> f]]

\* The payload of a frame that was read: without the extended length.
Payload(f, us) == SubSeq(us, Len(us) - f.len + 1, Len(us))

Init ==
  /\ sent = <<>> /\ wire = <<>>
  /\ frame = None /\ units = <<>> /\ msg = <<>> /\ msg_is_text = FALSE
  /\ got = <<>> /\ pongs = <<>> /\ status = "open"
  /\ cur = None /\ frames = 0 /\ texts = <<>> /\ pings = <<>>
  /\ size = [id \in 1 .. MaxFrames |-> 0]
  /\ drops = 0
-------------------------------------------------------------------------------
\* The bytes of a text parse when they are those of one message of the server,
\* none missing and none of the framing among them.
Parses(text) == /\ text # <<>>
                /\ \A k \in DOMAIN text : ~text[k].head /\ text[k].of.id = text[1].of.id
                /\ text[1].of.id \in ToSet(texts) /\ Len(text) = size[text[1].of.id]

\* Seeded fault: a control frame in the middle of a message starts it over.
MessageClearedByControl(f) == IF f.op \in {"text", "binary", "ping"} THEN <<>> ELSE msg

\* What is left of the message so far when a frame comes in.
MessageBefore(f) == IF f.op \in {"text", "binary"} THEN <<>> ELSE msg

\* Seeded fault: a text frame does not set the kind of the message.
IsTextUnset(f) == f.op # "binary" /\ msg_is_text

IsText(f) == IF f.op = "text" THEN TRUE ELSE IF f.op = "binary" THEN FALSE ELSE msg_is_text

\* Seeded fault: pongs carry no payload.
PongEmpty(f) == Append(pongs, 0)

Pong(f) == Append(pongs, f.id)

\* recv's match on a complete frame.  Returning, it ends the future; the next
\* call starts afresh.
HandleData(f, payload) ==
  LET text == MessageBefore(f) \o payload
  IN IF ~f.fin THEN /\ msg' = text /\ msg_is_text' = IsText(f)
                    /\ UNCHANGED <<got, status>>
     ELSE /\ msg' = <<>>
          /\ IF IsText(f)
             THEN /\ msg_is_text' = FALSE
                  /\ IF Parses(text) THEN got' = Append(got, text[1].of.id) /\ UNCHANGED status
                     ELSE status' = "failed" /\ UNCHANGED got
             ELSE msg_is_text' = IsText(f) /\ UNCHANGED <<got, status>>

Handle(f, payload) ==
  \/ f.op \in {"cont", "text", "binary"} /\ HandleData(f, payload) /\ UNCHANGED pongs
  \/ /\ f.op = "ping" /\ pongs' = Pong(f) /\ msg' = MessageBefore(f)
     /\ UNCHANGED <<msg_is_text, got, status>>
  \/ f.op = "pong" /\ UNCHANGED <<msg, msg_is_text, got, pongs, status>>
  \/ /\ f.op \in {"close", "unknown"}
     /\ status' = IF f.op = "close" THEN "closed" ELSE "failed"
     /\ UNCHANGED <<msg, msg_is_text, got, pongs>>

\* A byte that is no header, read as one, is any header.
HeaderOf(u) == IF u.head THEN {u.of} ELSE [op : Ops, fin : BOOLEAN, len : 0 .. MaxLen, id : {0}]

ReadHeader ==
  /\ status = "open" /\ frame = None /\ wire # <<>>
  /\ wire' = Tail(wire)
  /\ \E f \in HeaderOf(Head(wire)) :
       \/ Rest(f) > 0 /\ frame' = f /\ UNCHANGED <<msg, msg_is_text, got, pongs, status>>
       \/ Rest(f) = 0 /\ UNCHANGED frame /\ Handle(f, <<>>)
  /\ UNCHANGED <<sent, units, server, drops>>

\* "websocket frame too large", known once the extended length is read.
TooLarge(f) == f.len > MAX_FRAME

ReadRest ==
  /\ status = "open" /\ frame # None /\ wire # <<>>
  /\ wire' = Tail(wire)
  /\ LET us == Append(units, Head(wire))
     IN \/ /\ TooLarge(frame) /\ status' = "failed"
           /\ UNCHANGED <<frame, units, msg, msg_is_text, got, pongs>>
        \/ /\ ~TooLarge(frame) /\ Len(us) < Rest(frame) /\ units' = us
           /\ UNCHANGED <<frame, msg, msg_is_text, got, pongs, status>>
        \/ /\ ~TooLarge(frame) /\ Len(us) = Rest(frame) /\ units' = <<>> /\ frame' = None
           /\ Handle(frame, Payload(frame, us))
  /\ UNCHANGED <<sent, server, drops>>

\* Another arm of the select! is ready while recv waits for bytes.
Drop ==
  /\ status = "open" /\ wire = <<>> /\ drops < MaxDrops /\ drops' = drops + 1
  /\ frame' = None /\ units' = <<>> /\ msg' = <<>> /\ msg_is_text' = FALSE
  /\ UNCHANGED <<sent, wire, got, pongs, status, server>>
-------------------------------------------------------------------------------
\* The server sends a frame.
Sends(f) == /\ frames < MaxFrames /\ frames' = frames + 1
            /\ sent' = sent \o Encoded(f)
            /\ size' = IF f.op \in {"text", "binary", "cont"}
                       THEN [size EXCEPT ![f.id] = @ + f.len] ELSE size
            /\ UNCHANGED <<wire, reader, drops>>

\* A text or binary message starts; the first frame of a text is not empty.
ServerStarts(kind) == \E fin \in BOOLEAN, len \in 1 .. MaxLen :
  /\ cur = None
  /\ LET f == [op |-> kind, fin |-> fin, len |-> len, id |-> frames + 1]
     IN Sends(f) /\ cur' = IF fin THEN None ELSE f
  /\ texts' = IF kind = "text" THEN Append(texts, frames + 1) ELSE texts
  /\ UNCHANGED pings

ServerContinues == \E fin \in BOOLEAN, len \in 0 .. MaxLen :
  /\ cur # None
  /\ Sends([op |-> "cont", fin |-> fin, len |-> len, id |-> cur.id])
  /\ cur' = IF fin THEN None ELSE cur
  /\ UNCHANGED <<texts, pings>>

ServerPings == \E len \in {1, EXTENDED} :
  /\ Sends([op |-> "ping", fin |-> TRUE, len |-> len, id |-> frames + 1])
  /\ pings' = Append(pings, frames + 1)
  /\ UNCHANGED <<cur, texts>>

ServerPongs == /\ Sends([op |-> "pong", fin |-> TRUE, len |-> 0, id |-> 0])
               /\ UNCHANGED <<cur, texts, pings>>

ServerCloses == /\ cur = None
                /\ Sends([op |-> "close", fin |-> TRUE, len |-> 0, id |-> 0])
                /\ UNCHANGED <<cur, texts, pings>>

\* Units arrive: all that is under way and ends with a message, or any.
Arrives == \E n \in 1 .. Len(sent) :
  /\ Whole => n = Len(sent) /\ cur = None
  /\ wire' = wire \o SubSeq(sent, 1, n) /\ sent' = SubSeq(sent, n + 1, Len(sent))
  /\ UNCHANGED <<reader, server, drops>>

Next == \/ ReadHeader \/ ReadRest \/ Drop \/ Arrives
        \/ ServerStarts("text") \/ ServerStarts("binary") \/ ServerContinues
        \/ ServerPings \/ ServerPongs \/ ServerCloses

Spec == Init /\ [][Next]_vars
FairSpec == Spec /\ WF_vars(ReadHeader) /\ WF_vars(ReadRest) /\ WF_vars(Arrives)
-------------------------------------------------------------------------------
\* "Receive the next control message", recv: what it returns is the text
\* messages of the server, each once and in order, whatever pings, binary
\* messages and fragments come between, and it fails only on a frame that is
\* too large.
MessagesInOrder == /\ IsPrefix(got, texts)
                   /\ status = "failed" => frame.len > MAX_FRAME

\* "replying to pings": every ping is answered in order with its payload.
PongsInOrder == IsPrefix(pongs, pings)

\* A message the server has finished sending is received in the end.
EventuallyReceived ==
  \A n \in 1 .. MaxFrames :
    (Len(texts) >= n /\ cur = None) ~> (Len(got) >= n \/ status # "open" \/ cur # None)
===============================================================================
