------------------------------ MODULE DebugOut ------------------------------
(***************************************************************************)
(* The debug connection of common/misc/cm_debug_out.c: a TCP connection    *)
(* (common/cm_conn_tcp.c), the handshake and the frames of WebSocket       *)
(* (common/cm_conn_ws.c), and the loop that connects again.                *)
(*                                                                         *)
(* A read of the socket waits 0.4 seconds and then returns 0.  So the      *)
(* reader may give up between any two of the bytes of a frame, and what    *)
(* matters is where it then goes on.  A byte on the connection stands for  *)
(* its place: the message, the frame of the message, the byte of the frame *)
(* (the first one, the length, those of an extended length, the data); or  *)
(* the byte of the response to the handshake.                              *)
(***************************************************************************)
EXTENDS Integers, Sequences

CONSTANTS
  Shapes,       \* the messages: frames that end there, <<[end, ext, ctl], ...>>
  ResponseLen,  \* the bytes of the response to the handshake,
  CodeLen,      \* and those of them up to the status code
  Few,          \* less than so many bytes are no response yet: 10
  MaxLen,       \* the largest int
  MaxMsgs,      \* bound: messages of the server
  MaxFails      \* bound: crashes, broken connections and late answers

\* The length that follows the one of seven bits has so many bytes; it goes into an
\* int, which is negative for some of eight.
Extensions == {0, 2, 8}
Ints(ext)  == (IF ext = 8 THEN -(MaxLen + 1) ELSE 0) .. MaxLen

\* The bytes of a message in the frames before frame k, in that frame, and in all.
Before(shape, k)  == IF k = 1 THEN 0 ELSE shape[k - 1].end
InFrame(shape, k) == shape[k].end - Before(shape, k)
Size(shape)       == shape[Len(shape)].end

ASSUME DebugOutAssumption ==
  /\ MaxLen \in Nat /\ MaxMsgs \in Nat /\ MaxFails \in Nat
  /\ ResponseLen \in Nat /\ CodeLen \in 1 .. ResponseLen /\ Few \in Nat
  /\ \A s \in Shapes : /\ s \in Seq([end : Nat, ext : Extensions, ctl : BOOLEAN])
                        /\ s # <<>>
                        /\ \A k \in 1 .. Len(s) : InFrame(s, k) \in 0 .. MaxLen

VARIABLES
  serving,  \* the server runs
  mode,     \* what it takes the connection for: "http" or "ws"
  asked,    \* it has requests for a handshake to read
  rest,     \* the byte that it writes next, or NoByte
  msgs,     \* the messages it has begun
  fails,    \* the failures so far
  sock,     \* the connection: "none", "up", "fin" (closed), "rst" (broken)
  stream,   \* what has arrived and is not read
  pc,       \* where the program is
  status,   \* dout->conn->status, 0 if there is no conn
  iWSOK,    \* dout->iWSOK
  waitres,  \* the reader is cm_websocket_request_recv
  head,     \* the header that is being read
  need,     \* needread
  data,     \* what this call has read: of the response, or of a message
  length,   \* dout->length
  size,     \* the size of dout->data, 0 if it is NULL
  shrunk,   \* a negative length has been read
  flaw      \* what has gone wrong on this connection: "none", "parted", "lost"

server == <<serving, mode, asked, rest, msgs>>
link   == <<sock, stream>>
buffer == <<length, size, shrunk>>
reader == <<waitres, head, need, data, buffer>>
vars   == <<server, fails, link, pc, status, iWSOK, reader, flaw>>

NoHead == [fin |-> FALSE, ext |-> 0, mask |-> FALSE, n |-> 0]
NoByte == [msg |-> 0, shape |-> <<>>, frame |-> 0, byte |-> 0]

\* The response to the handshake, which is no part of a message.
Reply(k)   == [NoByte EXCEPT !.byte = k]
Response   == [k \in 1 .. ResponseLen |-> Reply(k)]
IsReply(p) == p.frame = 0 /\ p.byte > 0

Init ==
  /\ serving = TRUE /\ mode = "http" /\ asked = FALSE /\ rest = NoByte /\ msgs = 0
  /\ fails = 0
  /\ sock = "none" /\ stream = <<>>
  /\ pc = "none" /\ status = 0 /\ iWSOK = FALSE
  /\ waitres = FALSE /\ head = NoHead /\ need = 0 /\ data = <<>>
  /\ length = 0 /\ size = 0 /\ shrunk = FALSE
  /\ flaw = "none"

Fail == fails < MaxFails /\ fails' = fails + 1
-----------------------------------------------------------------------------
(* The bytes of a message *)

First(m, shape) == [msg |-> m, shape |-> shape, frame |-> 1, byte |-> 1]

\* The bytes of the frame that p is in: those of its header, and all.
HeaderLen(p) == 2 + p.shape[p.frame].ext
FrameLen(p)  == HeaderLen(p) + InFrame(p.shape, p.frame)

NextFrame(p) ==
  IF p.frame < Len(p.shape) THEN [p EXCEPT !.frame = @ + 1, !.byte = 1] ELSE NoByte

After(p) ==
  IF IsReply(p) THEN IF p.byte < ResponseLen THEN Reply(p.byte + 1) ELSE NoByte
  ELSE IF p.byte < FrameLen(p) THEN [p EXCEPT !.byte = @ + 1] ELSE NextFrame(p)

\* What the byte is in its frame, and which byte of data it is in its message.
Kind(p) ==
  CASE IsReply(p) -> "resp"
    [] ~IsReply(p) /\ p.byte = 1 -> "op"
    [] ~IsReply(p) /\ p.byte = 2 -> "len"
    [] ~IsReply(p) /\ p.byte \in 3 .. HeaderLen(p) -> "ext"
    [] ~IsReply(p) /\ p.byte > HeaderLen(p) -> "data"

At(p) == Before(p.shape, p.frame) + p.byte - HeaderLen(p)

\* A control frame may come between the frames of a message, and is final itself.
Control(p) == p.shape[p.frame].ctl
Fin(p)     == Control(p) \/ p.frame = Len(p.shape)
-----------------------------------------------------------------------------
(* The server and the network *)

\* A second request makes no sense on a connection that is WebSocket already.
Answer ==
  /\ sock = "up" /\ asked /\ asked' = FALSE
  /\ \/ /\ mode = "http" /\ mode' = "ws"
        /\ rest' = Reply(1) /\ UNCHANGED sock
     \/ /\ mode = "ws" /\ sock' = "fin" /\ rest' = NoByte /\ UNCHANGED mode
  /\ UNCHANGED <<serving, msgs, fails, stream, pc, status, iWSOK, reader, flaw>>

Push ==
  /\ sock = "up" /\ mode = "ws" /\ rest = NoByte /\ msgs < MaxMsgs
  /\ msgs' = msgs + 1
  /\ \E shape \in Shapes : rest' = First(msgs', shape)
  /\ UNCHANGED <<serving, mode, asked, fails, link, pc, status, iWSOK, reader, flaw>>

Arrive ==
  /\ sock = "up" /\ rest # NoByte
  /\ stream' = Append(stream, rest) /\ rest' = After(rest)
  /\ UNCHANGED <<serving, mode, asked, msgs, fails, sock, pc, status, iWSOK, reader, flaw>>

\* The server ends, or only its connection; the program's kernel learns of it.
ServerEnds ==
  /\ serving /\ Fail
  /\ serving' \in BOOLEAN
  /\ asked' = FALSE /\ rest' = NoByte
  /\ \/ sock = "up" /\ sock' = "fin" /\ UNCHANGED stream
     \/ sock = "up" /\ sock' = "rst" /\ stream' = <<>>
     \/ sock # "up" /\ UNCHANGED link
  /\ UNCHANGED <<mode, msgs, pc, status, iWSOK, reader, flaw>>

ServerStarts ==
  /\ ~serving /\ serving' = TRUE
  /\ UNCHANGED <<mode, asked, rest, msgs, fails, link, pc, status, iWSOK, reader, flaw>>
-----------------------------------------------------------------------------
(* cm_debug_out_init, _deinit, and _run up to the handshake *)

\* Mutant: the status is set before the connection is tried.
CreatedEarly ==
  /\ status' = 1
  /\ \/ serving /\ sock' = "up" /\ mode' = "http" /\ asked' = FALSE /\ rest' = NoByte
     \/ ~serving /\ sock' = "none" /\ UNCHANGED <<mode, asked, rest>>

\* cm_conn_tcp_create_new connects, or leaves conn NULL.
Created ==
  \/ /\ serving /\ sock' = "up" /\ status' = 1
     /\ mode' = "http" /\ asked' = FALSE /\ rest' = NoByte
  \/ /\ ~serving /\ sock' = "none" /\ status' = 0
     /\ UNCHANGED <<mode, asked, rest>>

cm_debug_out_init ==
  /\ pc = "none" /\ pc' = "out"
  /\ Created /\ stream' = <<>>
  /\ UNCHANGED <<serving, msgs, fails, iWSOK, reader, flaw>>

cm_debug_out_deinit ==
  /\ pc = "out" /\ pc' = "freed"
  /\ sock' = "none" /\ stream' = <<>> /\ status' = 0
  /\ length' = 0 /\ size' = 0
  /\ asked' = FALSE /\ rest' = NoByte
  /\ UNCHANGED <<serving, mode, msgs, fails, iWSOK, waitres, head, need, data, shrunk, flaw>>

\* Mutant: iWSOK survives the connection.
ReconnectKeepsOK ==
  /\ pc = "out" /\ status <= 0
  /\ Created /\ stream' = <<>> /\ flaw' = "none"
  /\ pc' = IF status' = 1 THEN "ready" ELSE "out"
  /\ UNCHANGED <<serving, msgs, fails, iWSOK, reader>>

Reconnect ==
  /\ pc = "out" /\ status <= 0
  /\ iWSOK' = FALSE
  /\ Created /\ stream' = <<>> /\ flaw' = "none"
  /\ pc' = IF status' = 1 THEN "ready" ELSE "out"
  /\ UNCHANGED <<serving, msgs, fails, reader>>

StillConnected ==
  /\ pc = "out" /\ status > 0 /\ pc' = "ready"
  /\ UNCHANGED <<server, fails, link, status, iWSOK, reader, flaw>>

\* When the request cannot be sent, the buffer of the response is parsed: it is
\* empty.  Neither this nor an error of send changes the status.
SendHandshake ==
  /\ pc = "ready" /\ ~iWSOK
  /\ \/ sock = "up" /\ asked' = TRUE /\ pc' = "handshake" /\ UNCHANGED sock
     \/ sock = "fin" /\ pc' \in {"handshake", "out"} /\ UNCHANGED <<asked, sock>>
     \/ sock = "rst" /\ pc' = "out" /\ sock' = "fin" /\ UNCHANGED asked
  /\ data' = <<>>
  /\ UNCHANGED <<serving, mode, rest, msgs, fails, stream, status, iWSOK, waitres, head,
                 need, buffer, flaw>>

\* All that is looked at is the status code, 101.
Accepted(d) == Len(d) >= CodeLen /\ \A k \in 1 .. CodeLen : d[k] = Response[k]

\* The frames begin behind the response: what d has more or less of it is missed
\* or taken for a frame.
HandshakeEnds(d) ==
  /\ IF Accepted(d) THEN iWSOK' = TRUE /\ pc' = "ready" ELSE UNCHANGED iWSOK /\ pc' = "out"
  /\ flaw' = IF Accepted(d) /\ d # Response THEN "lost" ELSE flaw

\* cm_conn_tcp_recv takes all there is, frames behind the response included.  Few
\* bytes are not enough, whatever they belong to, and the wait starts again.
TakeResponse ==
  /\ pc = "handshake" /\ stream # <<>>
  /\ stream' = <<>> /\ data' = data \o stream
  /\ IF Len(stream) < Few THEN UNCHANGED <<pc, iWSOK, flaw>> ELSE HandshakeEnds(data')
  /\ UNCHANGED <<server, fails, sock, status, waitres, head, need, buffer>>

\* After 5 seconds.  It does not see that the connection is closed.
NoResponse ==
  /\ pc = "handshake" /\ stream = <<>>
  /\ \/ sock = "up" /\ (asked \/ IsReply(rest)) /\ Fail /\ UNCHANGED <<sock, status>>
     \/ sock = "up" /\ ~(asked \/ IsReply(rest)) /\ UNCHANGED <<fails, sock, status>>
     \/ sock = "fin" /\ UNCHANGED <<fails, sock, status>>
     \/ sock = "rst" /\ sock' = "fin" /\ status' = 0 /\ UNCHANGED fails
  /\ HandshakeEnds(data)
  /\ UNCHANGED <<server, stream, reader>>
-----------------------------------------------------------------------------
(* cm_conn_tcp_recv_simple(conn, buf, &want) *)

\* So many bytes are read.
Reads(want) ==
  LET k == IF want < Len(stream) THEN want ELSE Len(stream)
  IN  IF want = 0 THEN 0 ELSE k

\* Nothing arrives for 0.4 seconds.
Pauses == stream = <<>> /\ sock = "up"

\* A closed connection changes the status, an error does not.
Breaks ==
  /\ stream = <<>> /\ sock \in {"fin", "rst"}
  /\ IF sock = "fin" THEN status' = 0 /\ UNCHANGED sock
                     ELSE sock' = "fin" /\ UNCHANGED status
-----------------------------------------------------------------------------
(* cm_websocket_request_read *)

StartRecv ==
  /\ pc = "ready" /\ iWSOK /\ pc' = "op"
  /\ waitres' = FALSE /\ data' = <<>> /\ head' = NoHead /\ need' = 0
  /\ UNCHANGED <<server, fails, link, status, iWSOK, buffer, flaw>>

\* Bytes that are not a header are taken for some header.  The opcode is not looked
\* at: a control frame is taken for a part of a message, and ends it, until another
\* message begins.
ReadOp ==
  /\ pc = "op" /\ stream # <<>> /\ pc' = "len"
  /\ stream' = Tail(stream)
  /\ LET b == Head(stream)
     IN  /\ \E fin \in BOOLEAN :
              /\ Kind(b) = "op" => fin = Fin(b)
              /\ head' = [NoHead EXCEPT !.fin = fin]
         /\ flaw' = IF flaw = "lost" \/ Kind(b) # "op" THEN flaw
                    ELSE IF Control(b) THEN "parted"
                    ELSE IF b.frame = 1 /\ data = <<>> THEN "none" ELSE flaw
  /\ UNCHANGED <<server, fails, sock, status, iWSOK, waitres, need, data, buffer>>

\* Mutant: what earlier frames have brought is not counted.
GrowForFrame(n) ==
  LET sum == Len(data) + n
  IN  IF ~waitres /\ (size = 0 \/ length < n \/ n < 0)
      THEN size' = IF sum < 0 THEN 0 ELSE sum + 1
      ELSE UNCHANGED size

\* Room for what is read, a byte more, and never less than length says there is.
\* The sum is unsigned: less than 0 is more than can be had, or nothing at all.
Grow(n) ==
  LET sum == Len(data) + n
  IN  IF ~waitres /\ (size = 0 \/ length < sum \/ sum < 0)
      THEN size' = IF sum < 0 THEN 0 ELSE sum + 1
      ELSE UNCHANGED size

\* The block is gone when its length is taken; one of no bytes is as good as NULL.
Crashes(n) ==
  LET sum == Len(data) + n IN ~waitres /\ sum < 0 /\ (sum < -1 \/ size > 0)

StartBody(h) ==
  /\ head' = h /\ need' = (IF h.n > 0 THEN h.n ELSE 0) /\ Grow(h.n)
  /\ shrunk' = (shrunk \/ (~waitres /\ h.n < 0))
  /\ pc' = IF Crashes(h.n) THEN "crashed" ELSE "body"

\* The server masks nothing, as the protocol has it.
LengthRead(h) ==
  \/ h.mask /\ head' = h /\ pc' = "mask" /\ UNCHANGED <<need, size, shrunk>>
  \/ ~h.mask /\ StartBody(h)

ReadLen ==
  /\ pc = "len" /\ stream # <<>> /\ stream' = Tail(stream)
  /\ LET b == Head(stream)
     IN  \E ext \in Extensions, mask \in BOOLEAN, n \in Ints(0) :
           /\ Kind(b) = "len" => /\ ext = b.shape[b.frame].ext /\ ~mask
                                 /\ ext = 0 => n = InFrame(b.shape, b.frame)
           /\ \/ /\ ext > 0 /\ pc' = "ext"
                 /\ head' = [head EXCEPT !.ext = ext, !.mask = mask]
                 /\ UNCHANGED <<need, size, shrunk>>
              \/ ext = 0 /\ LengthRead([head EXCEPT !.mask = mask, !.n = n])
  /\ UNCHANGED <<server, fails, sock, status, iWSOK, waitres, data, length, flaw>>

\* The bytes are those of the extended length of a frame, and all of them.
Whole(bytes) ==
  /\ Len(bytes) = head.ext
  /\ Kind(bytes[1]) = "ext" /\ bytes[1].byte = 3 /\ HeaderLen(bytes[1]) = 2 + head.ext

\* Only some of the bytes may have arrived: the others are taken from the stack.
ReadExt ==
  /\ pc = "ext" /\ stream # <<>>
  /\ LET bytes == SubSeq(stream, 1, Reads(head.ext))
     IN  /\ stream' = SubSeq(stream, Len(bytes) + 1, Len(stream))
         /\ \E n \in Ints(head.ext) :
              /\ Whole(bytes) => n = InFrame(bytes[1].shape, bytes[1].frame)
              /\ LengthRead([head EXCEPT !.n = n])
         /\ flaw' = IF Whole(bytes) THEN flaw ELSE "lost"
  /\ UNCHANGED <<server, fails, sock, status, iWSOK, waitres, data, length>>

\* The key is read, or some of it, and not used.
ReadMask ==
  /\ pc = "mask" /\ stream # <<>>
  /\ stream' = SubSeq(stream, Reads(4) + 1, Len(stream))
  /\ StartBody(head)
  /\ UNCHANGED <<server, fails, sock, status, iWSOK, waitres, data, length, flaw>>

\* cm_websocket_request_recv_ex returns when a header does not come;
\* cm_websocket_request_recv starts with the next one, for 8 seconds.
HeaderPauses ==
  /\ pc \in {"op", "len", "ext", "mask"} /\ Pauses
  /\ pc' \in (IF waitres THEN {"op", "out"} ELSE {"out"})
  /\ flaw' = IF pc # "op" THEN "lost"
             ELSE IF data # <<>> /\ flaw = "none" THEN "parted" ELSE flaw
  /\ UNCHANGED <<server, fails, link, status, iWSOK, reader>>

ReadBreaks ==
  /\ pc \in {"op", "len", "ext", "mask"} \/ (pc = "body" /\ need > 0)
  /\ Breaks /\ pc' = "out"
  /\ UNCHANGED <<server, fails, stream, iWSOK, reader, flaw>>
-----------------------------------------------------------------------------
(* The body: cm_websocket_request_recv_ex and cm_websocket_request_recv *)

ReadBody ==
  /\ pc = "body" /\ need > 0 /\ stream # <<>>
  /\ data' = data \o SubSeq(stream, 1, Reads(need))
  /\ need' = need - Reads(need)
  /\ stream' = SubSeq(stream, Reads(need) + 1, Len(stream))
  /\ UNCHANGED <<server, fails, sock, pc, status, iWSOK, waitres, head, buffer, flaw>>

\* Mutant: a pause ends the frame.
BodyGivesUp ==
  /\ pc = "body" /\ need > 0 /\ Pauses
  /\ need' = 0
  /\ UNCHANGED <<server, fails, link, pc, status, iWSOK, waitres, head, data, buffer, flaw>>

\* recv_ex tries again; recv counts the bytes that have not come as read.
BodyPauses ==
  /\ pc = "body" /\ need > 0 /\ Pauses
  /\ \/ ~waitres /\ UNCHANGED <<need, flaw>>
     \/ waitres /\ need' = 0 /\ flaw' = "lost"
  /\ UNCHANGED <<server, fails, link, pc, status, iWSOK, waitres, head, data, buffer>>

\* The callback is not called for an empty message.
MessageEnds ==
  /\ pc = "body" /\ need = 0 /\ ~waitres /\ head.fin
  /\ length' = Len(data)
  /\ pc' = IF data # <<>> THEN "callback" ELSE "out"
  /\ UNCHANGED <<server, fails, link, status, iWSOK, waitres, head, need, data, size,
                 shrunk, flaw>>

FrameEnds ==
  /\ pc = "body" /\ need = 0 /\ ~waitres /\ ~head.fin /\ pc' = "op"
  /\ UNCHANGED <<server, fails, link, status, iWSOK, reader, flaw>>

\* cm_websocket_request_recv returns the first frame.
ResponseEnds ==
  /\ pc = "body" /\ need = 0 /\ waitres /\ pc' = "response"
  /\ UNCHANGED <<server, fails, link, status, iWSOK, reader, flaw>>
-----------------------------------------------------------------------------
(* The callback, which may call cm_debug_out_request *)

CallbackReturns ==
  /\ pc = "callback" /\ pc' = "out"
  /\ UNCHANGED <<server, fails, link, status, iWSOK, reader, flaw>>

cm_debug_out_request ==
  /\ pc = "callback"
  /\ \/ sock = "up" /\ pc' = "op" /\ UNCHANGED sock
     \/ sock = "fin" /\ pc' \in {"op", "out"} /\ UNCHANGED sock
     \/ sock = "rst" /\ pc' = "out" /\ sock' = "fin"
  /\ waitres' = TRUE /\ data' = <<>> /\ head' = NoHead /\ need' = 0
  /\ UNCHANGED <<server, fails, stream, status, iWSOK, buffer, flaw>>

RequestReturns ==
  /\ pc = "response" /\ pc' = "out"
  /\ flaw' = IF ~head.fin /\ flaw = "none" THEN "parted" ELSE flaw
  /\ UNCHANGED <<server, fails, link, status, iWSOK, reader>>
-----------------------------------------------------------------------------
Client ==
  \/ cm_debug_out_init \/ Reconnect \/ StillConnected
  \/ SendHandshake \/ TakeResponse \/ NoResponse
  \/ StartRecv \/ ReadOp \/ ReadLen \/ ReadExt \/ ReadMask \/ HeaderPauses \/ ReadBreaks
  \/ ReadBody \/ BodyPauses \/ MessageEnds \/ FrameEnds \/ ResponseEnds
  \/ CallbackReturns \/ cm_debug_out_request \/ RequestReturns

Next ==
  \/ Client \/ cm_debug_out_deinit
  \/ Answer \/ Push \/ Arrive \/ ServerEnds \/ ServerStarts

Spec == Init /\ [][Next]_vars

(***************************************************************************)
(* The program goes on calling cm_debug_out_run, a server that has ended   *)
(* starts again and answers a request, and what it has begun to write      *)
(* arrives, or the connection ends.                                        *)
(***************************************************************************)
FairSpec ==
  /\ Spec
  /\ WF_vars(Client) /\ WF_vars(ServerStarts) /\ WF_vars(Answer) /\ WF_vars(Arrive)
-----------------------------------------------------------------------------
(* Properties *)

Modes ==
  /\ serving \in BOOLEAN /\ mode \in {"http", "ws"} /\ asked \in BOOLEAN
  /\ sock \in {"none", "up", "fin", "rst"}
  /\ pc \in {"none", "out", "ready", "handshake", "op", "len", "ext", "mask", "body",
             "callback", "response", "freed", "crashed"}
  /\ iWSOK \in BOOLEAN /\ waitres \in BOOLEAN /\ shrunk \in BOOLEAN
  /\ flaw \in {"none", "parted", "lost"}
  /\ sock = "none" => stream = <<>> /\ rest = NoByte

Counters == msgs \in 0 .. MaxMsgs /\ fails \in 0 .. MaxFails

Heads == [fin : BOOLEAN, ext : Extensions, mask : BOOLEAN, n : Ints(8)]

Lengths ==
  /\ head \in Heads
  /\ need = 0 \/ need \in 1 .. head.n
  /\ length \in Nat /\ size \in Nat

Status == status \in {0, 1} /\ (status = 1 => sock # "none")

\* Types; the status is 1 only while there is a conn.
TypeOK == Modes /\ Counters /\ Lengths /\ Status

\* What has arrived, and the byte that comes next.
Unread == stream \o (IF rest = NoByte THEN <<>> ELSE <<rest>>)

\* Between two frames the reader stands at the first byte of the next one, however
\* the bytes arrive: only a pause inside a header, a response to a request cut short,
\* a handshake that ends before the whole response has come and frames that follow
\* it at once make it lose its place.
InStep ==
  /\ iWSOK /\ flaw # "lost"
  /\ pc \in {"out", "ready", "op", "callback", "response"}
  /\ Unread # <<>>
  => Kind(Head(Unread)) = "op"

\* The bytes read are the first of one message.
Begins(d) ==
  \A k \in DOMAIN d : Kind(d[k]) = "data" /\ d[k].msg = d[1].msg /\ At(d[k]) = k

\* The callback gets a whole message of the server, put together of its frames,
\* unless the reader has lost its place, or a pause, the end of a request or a
\* control frame has parted it: then until the next message begins.
CallbackGetsMessage ==
  /\ pc \in {"callback", "response"} /\ flaw = "none" => Begins(data)
  /\ pc = "callback" /\ flaw = "none" => Len(data) = Size(data[1].shape)

\* Messages arrive as they were sent: the reader keeps its place among the frames,
\* and puts together what belongs together.
MessagesIntact == InStep /\ CallbackGetsMessage

\* What is left to be read fits behind what has been read, whatever the lengths of
\* earlier messages, finished or broken off, have left of the buffer; until a reader
\* that has lost its place takes eight bytes for a length that is negative as an int:
\* realloc then makes the buffer smaller than length says.
BufferHolds ==
  ~shrunk => /\ pc = "body" /\ ~waitres => Len(data) + need < size
             /\ length > 0 => length < size

Connected == sock = "up" /\ mode = "ws" /\ iWSOK

\* The connection was closed during the handshake, by the server's end or because
\* a second request came on it: the status stays 1.
DeadHandshake == sock = "fin" /\ status = 1 /\ ~iWSOK

\* After the last failure the program has a connection that has shaken hands,
\* unless it lost one while shaking hands, of which it never learns, or a negative
\* length has ended it.
ComesBack ==
  <>[]Connected \/ <>[]DeadHandshake \/ <>(pc \in {"freed", "crashed"})

\* "Never block": cm_debug_out_run returns.
NeverBlocks == []<>(pc \in {"out", "freed", "crashed"})
=============================================================================
