--------------------------- MODULE DebugOutProofs ---------------------------
(***************************************************************************)
(* The types of DebugOut, that its buffer holds what is read until a       *)
(* negative length has been, and that the reader keeps its place among the *)
(* frames, for any messages, lengths and failures.                         *)
(***************************************************************************)
EXTENDS DebugOut, WellFoundedInduction, TLAPS

\* What is on its way and what has been read are sequences, of whatever.
Sequenced ==
  /\ \E X : stream \in Seq(X)
  /\ \E X : data \in Seq(X)

\* Nothing of a body is left to be read when a header is.
Between == pc \in {"op", "len", "ext", "mask"} => need = 0

\* What belongs to the buffer
Buffered == Lengths /\ Between /\ BufferHolds

\* Only a server that runs and is connected has something to write.
Written == (sock = "up" => serving) /\ (sock # "up" => rest = NoByte)

BufferInv == TypeOK /\ Written /\ Sequenced /\ Between /\ BufferHolds

LEMMA AppendIsSequence ==
  ASSUME NEW s, \E X : s \in Seq(X), NEW e
  PROVE  \E X : Append(s, e) \in Seq(X)
<1>1. PICK X : s \in Seq(X)
  OBVIOUS
<1>2. s \in Seq(X \cup {e})
  BY <1>1
<1>3. Append(s, e) \in Seq(X \cup {e})
  BY <1>2
<1> QED BY <1>3

LEMMA TailIsSequence ==
  ASSUME NEW s, \E X : s \in Seq(X), s # <<>>
  PROVE  \E X : Tail(s) \in Seq(X)
<1>1. PICK X : s \in Seq(X)
  OBVIOUS
<1>2. Tail(s) \in Seq(X)
  BY <1>1
<1> QED BY <1>2

\* The first k of a sequence, and what is left of it
LEMMA SplitSequence ==
  ASSUME NEW s, \E X : s \in Seq(X), NEW k \in 0 .. Len(s)
  PROVE  /\ Len(s) \in Nat
         /\ Len(SubSeq(s, 1, k)) = k
         /\ \E X : SubSeq(s, 1, k) \in Seq(X)
         /\ \E X : SubSeq(s, k + 1, Len(s)) \in Seq(X)
<1>1. PICK X : s \in Seq(X)
  OBVIOUS
<1>2. Len(s) \in Nat /\ Len(SubSeq(s, 1, k)) = k
  BY <1>1
<1>3. SubSeq(s, 1, k) \in Seq(X) /\ SubSeq(s, k + 1, Len(s)) \in Seq(X)
  BY <1>1
<1> QED BY <1>2, <1>3

LEMMA JoinSequences ==
  ASSUME NEW s, \E X : s \in Seq(X), NEW r, \E X : r \in Seq(X)
  PROVE  /\ Len(s \o r) = Len(s) + Len(r)
         /\ \E X : s \o r \in Seq(X)
<1>1. PICK X : s \in Seq(X)
  OBVIOUS
<1>2. PICK Y : r \in Seq(Y)
  OBVIOUS
<1>3. s \in Seq(X \cup Y) /\ r \in Seq(X \cup Y)
  BY <1>1, <1>2
<1>4. s \o r \in Seq(X \cup Y) /\ Len(s \o r) = Len(s) + Len(r)
  BY <1>3
<1> QED BY <1>4

LEMMA EmptyIsSequence == Len(<<>>) = 0 /\ \E X : <<>> \in Seq(X)
<1>1. <<>> \in Seq({}) /\ Len(<<>>) = 0
  OBVIOUS
<1> QED BY <1>1

LEMMA IntsFacts ==
  /\ \A e \in Extensions : Ints(e) \subseteq Ints(8)
  /\ Ints(8) \subseteq Int /\ 0 \in Ints(8) /\ 0 \in Extensions /\ Ints(0) = 0 .. MaxLen
BY DebugOutAssumption DEF Ints, Extensions

LEMMA HeadFacts ==
  ASSUME NEW fin \in BOOLEAN, NEW h, h = [NoHead EXCEPT !.fin = fin]
  PROVE  h \in Heads /\ h.fin = fin /\ h.n = 0
<1>1. h = [fin |-> fin, ext |-> 0, mask |-> FALSE, n |-> 0]
  BY DEF NoHead
<1>2. 0 \in Ints(8) /\ 0 \in Extensions /\ FALSE \in BOOLEAN
  BY IntsFacts
<1>3. h.fin = fin /\ h.n = 0
  BY <1>1
<1>4. [fin |-> fin, ext |-> 0, mask |-> FALSE, n |-> 0] \in Heads
  BY <1>2, Zenon DEF Heads
<1> QED BY <1>1, <1>3, <1>4

LEMMA NoHeadType == NoHead \in Heads
<1>1. 0 \in Ints(8) /\ 0 \in Extensions
  BY IntsFacts
<1> QED BY <1>1 DEF Heads, NoHead

LEMMA BufferInit == Init => BufferInv
<1> SUFFICES ASSUME Init PROVE BufferInv
  OBVIOUS
<1>1. Modes
  BY DEF Init, Modes
<1>2. Lengths
  <2>1. head \in Heads /\ need = 0
    BY NoHeadType DEF Init
  <2> QED BY <2>1 DEF Init, Lengths
<1>5. Counters
  BY DebugOutAssumption DEF Init, Counters
<1>3. Sequenced
  BY EmptyIsSequence, Zenon DEF Init, Sequenced
<1>4. BufferHolds /\ Status /\ Between /\ Written
  BY DEF Init, BufferHolds, Status, Between, Written
<1> QED BY <1>1, <1>2, <1>3, <1>4, <1>5 DEF BufferInv, TypeOK
-----------------------------------------------------------------------------
(* Steps *)

\* The server, the connection and the handshake leave the reader alone.
Outside ==
  \/ Answer \/ Push \/ Arrive \/ ServerEnds \/ ServerStarts
  \/ cm_debug_out_init \/ cm_debug_out_deinit \/ Reconnect \/ StillConnected
  \/ SendHandshake \/ TakeResponse \/ NoResponse

Header == StartRecv \/ ReadOp \/ HeaderPauses \/ ReadBreaks
Length == ReadLen \/ ReadExt \/ ReadMask
Body == ReadBody \/ BodyPauses \/ MessageEnds \/ FrameEnds \/ ResponseEnds
Callback == CallbackReturns \/ cm_debug_out_request \/ RequestReturns

LEMMA NextParts == Next <=> Outside \/ Header \/ Length \/ Body \/ Callback
  BY DEF Next, Client, Outside, Header, Length, Body, Callback

LEMMA ModesKept ==
  ASSUME Modes, Written, Next
  PROVE  Modes'
<1>1. CASE Answer \/ Push
  BY <1>1 DEF Modes, Answer, Push, reader, buffer, link
<1>2. CASE Arrive
  BY <1>2 DEF Modes, Arrive, reader, buffer
<1>3. CASE ServerEnds
  BY <1>3 DEF Modes, ServerEnds, reader, buffer, link
<1>4. CASE ServerStarts
  BY <1>4 DEF Modes, ServerStarts, reader, buffer, link
<1>5. CASE cm_debug_out_init \/ Reconnect
  <2>1. /\ UNCHANGED <<serving, waitres, shrunk>> /\ stream' = <<>> /\ flaw' \in {flaw, "none"}
        /\ iWSOK' \in {iWSOK, FALSE} /\ pc' \in {"out", "ready"}
    BY <1>5 DEF cm_debug_out_init, Reconnect, reader, buffer
  <2>2. \/ sock' = "up" /\ mode' = "http" /\ asked' = FALSE
        \/ sock' = "none" /\ UNCHANGED <<mode, asked>> /\ rest' = NoByte
    BY <1>5 DEF cm_debug_out_init, Reconnect, Created, Modes, Written
  <2> QED BY <2>1, <2>2 DEF Modes
<1>6. CASE cm_debug_out_deinit
  BY <1>6 DEF Modes, cm_debug_out_deinit
<1>7. CASE StillConnected
  BY <1>7 DEF Modes, StillConnected, server, link, reader, buffer
<1>8. CASE SendHandshake
  BY <1>8 DEF Modes, SendHandshake, buffer
<1>9. CASE TakeResponse \/ NoResponse
  <2>1. /\ UNCHANGED <<server, waitres, shrunk>> /\ stream' = <<>>
        /\ sock' \in {sock, "fin"} /\ (sock = "none" => sock' = "none")
    BY <1>9 DEF TakeResponse, NoResponse, reader, buffer
  <2>2. iWSOK' \in {iWSOK, TRUE} /\ flaw' \in {flaw, "lost"} /\ pc' \in {pc, "ready", "out"}
    BY <1>9 DEF TakeResponse, NoResponse, HandshakeEnds
  <2>3. UNCHANGED <<serving, mode, asked, rest, waitres, shrunk>>
    BY <2>1 DEF server
  <2>4. sock' = "none" => stream' = <<>> /\ rest' = NoByte
    BY <2>1, <2>3 DEF Modes
  <2>5. sock' \in {"none", "up", "fin", "rst"} /\ flaw' \in {"none", "parted", "lost"}
    BY <2>1, <2>2 DEF Modes
  <2>6. pc' \in {"none", "out", "ready", "handshake", "op", "len", "ext", "mask", "body",
                 "callback", "response", "freed", "crashed"}
    BY <2>2 DEF Modes
  <2>7. /\ serving' \in BOOLEAN /\ mode' \in {"http", "ws"} /\ asked' \in BOOLEAN
        /\ iWSOK' \in BOOLEAN /\ waitres' \in BOOLEAN /\ shrunk' \in BOOLEAN
    BY <2>2, <2>3 DEF Modes
  <2> QED BY <2>4, <2>5, <2>6, <2>7 DEF Modes
<1>10. CASE StartRecv
  BY <1>10 DEF Modes, StartRecv, server, link, buffer
<1>11. CASE ReadOp \/ Length
  <2>1. /\ UNCHANGED <<server, sock, status, iWSOK, waitres>> /\ stream # <<>>
        /\ pc' \in {"len", "ext", "mask", "body", "crashed"}
    BY <1>11 DEF ReadOp, Length, ReadLen, ReadExt, ReadMask, LengthRead, StartBody
  <2>2. flaw' \in {flaw, "lost", "parted", "none"}
    BY <1>11 DEF ReadOp, Length, ReadLen, ReadExt, ReadMask
  <2>3. shrunk' \in BOOLEAN
    BY <1>11 DEF Modes, ReadOp, Length, ReadLen, ReadExt, ReadMask, LengthRead, StartBody, buffer
  <2> QED BY <2>1, <2>2, <2>3 DEF Modes, server
<1>12. CASE HeaderPauses
  <2>1. /\ UNCHANGED <<server, sock, stream, status, iWSOK, waitres, shrunk>>
        /\ pc' \in {"op", "out"} /\ flaw' \in {flaw, "lost", "parted"}
    BY <1>12 DEF HeaderPauses, link, reader, buffer
  <2> QED BY <2>1 DEF Modes, server
<1>13. CASE ReadBreaks
  BY <1>13 DEF Modes, ReadBreaks, Breaks, server, reader, buffer
<1>14. CASE Body
  BY <1>14 DEF Modes, Body, ReadBody, BodyPauses, MessageEnds, FrameEnds, ResponseEnds,
               server, link, reader, buffer
<1>15. CASE Callback
  BY <1>15 DEF Modes, Callback, CallbackReturns, cm_debug_out_request, RequestReturns,
               server, link, reader, buffer
<1> QED BY <1>1, <1>2, <1>3, <1>4, <1>5, <1>6, <1>7, <1>8, <1>9, <1>10, <1>11, <1>12,
           <1>13, <1>14, <1>15, NextParts DEF Outside, Header

\* There is room for a body when it starts: length may stand for what an earlier
\* message left, but it is never more than the buffer has, until a negative length.
LEMMA BodyFits ==
  ASSUME Buffered, Sequenced, NEW h \in Heads, StartBody(h), UNCHANGED <<data, length, waitres>>
  PROVE  /\ BufferHolds' /\ size' \in Nat /\ head' \in Heads
         /\ need' = 0 \/ need' \in 1 .. head'.n
<1>1. Len(data) \in Nat /\ h.n \in Int
  BY SplitSequence, IntsFacts DEF Sequenced, Heads
<1>2. length \in Nat /\ size \in Nat
  BY DEF Buffered, Lengths
<1>3. PICK n \in Int : n = h.n
  BY <1>1
<1>4. head' = h /\ need' = (IF n > 0 THEN n ELSE 0) /\ Grow(n)
  BY <1>3 DEF StartBody
<1>5. size' \in Nat
  BY <1>1, <1>2, <1>4 DEF Grow
<1>6. need' = 0 \/ need' \in 1 .. head'.n
  BY <1>3, <1>4
<1>7. ASSUME ~shrunk'
      PROVE  /\ ~waitres => Len(data) + need' < size'
             /\ length > 0 => length < size'
  <2>1. ~shrunk /\ (~waitres => n >= 0)
    <3>1. shrunk' = (shrunk \/ (~waitres /\ n < 0))
      BY <1>3 DEF StartBody
    <3>2. ~(shrunk \/ (~waitres /\ n < 0))
      BY <1>7, <3>1
    <3> QED BY <3>2
  <2>2. length > 0 => length < size
    BY <2>1 DEF Buffered, BufferHolds
  <2>3. CASE waitres
    BY <1>4, <2>2, <2>3 DEF Grow
  <2>4. CASE ~waitres
    <3>1. n >= 0 /\ need' = n /\ Len(data) + n \in Nat
      BY <1>1, <1>4, <2>1, <2>4
    <3>2. CASE size = 0 \/ length < Len(data) + n
      <4>1. size' = Len(data) + n + 1
        BY <1>1, <1>4, <2>4, <3>1, <3>2 DEF Grow
      <4> QED BY <1>1, <1>2, <2>2, <3>1, <3>2, <4>1
    <3>3. CASE ~(size = 0 \/ length < Len(data) + n)
      <4>1. size' = size
        BY <1>1, <1>4, <2>4, <3>1, <3>3 DEF Grow
      <4> QED BY <1>1, <1>2, <2>2, <3>1, <3>3, <4>1
    <3> QED BY <3>2, <3>3
  <2> QED BY <2>3, <2>4
<1>8. BufferHolds'
  BY <1>7 DEF BufferHolds
<1> QED BY <1>4, <1>5, <1>6, <1>8

LEMMA WrittenKept ==
  ASSUME Written, Next
  PROVE  Written'
<1>1. CASE Answer \/ Push \/ Arrive \/ ServerStarts
  BY <1>1 DEF Answer, Push, Arrive, ServerStarts, link, Written
<1>2. CASE ServerEnds
  BY <1>2 DEF ServerEnds, link, Written
<1>3. CASE cm_debug_out_init \/ Reconnect
  BY <1>3 DEF cm_debug_out_init, Reconnect, Created, Written
<1>4. CASE cm_debug_out_deinit \/ StillConnected
  BY <1>4 DEF cm_debug_out_deinit, StillConnected, server, link, Written
<1>5. CASE SendHandshake \/ TakeResponse \/ NoResponse
  BY <1>5 DEF SendHandshake, TakeResponse, NoResponse, server, Written
<1>6. CASE Header
  BY <1>6 DEF Header, StartRecv, ReadOp, HeaderPauses, ReadBreaks, Breaks, server, link, Written
<1>7. CASE Length
  BY <1>7 DEF Length, ReadLen, ReadExt, ReadMask, server, Written
<1>8. CASE Body
  BY <1>8 DEF Body, ReadBody, BodyPauses, MessageEnds, FrameEnds, ResponseEnds, server, link,
              Written
<1>9. CASE Callback
  BY <1>9 DEF Callback, CallbackReturns, cm_debug_out_request, RequestReturns, server, link,
              Written
<1> QED BY <1>1, <1>2, <1>3, <1>4, <1>5, <1>6, <1>7, <1>8, <1>9, NextParts DEF Outside

LEMMA CountersKept ==
  ASSUME Counters, Next
  PROVE  Counters'
<1>1. CASE Push
  BY <1>1, DebugOutAssumption DEF Push, Counters
<1>2. CASE ServerEnds \/ NoResponse
  BY <1>2, DebugOutAssumption DEF ServerEnds, NoResponse, Fail, server, Counters
<1>3. CASE Answer \/ Arrive \/ ServerStarts
  BY <1>3 DEF Answer, Arrive, ServerStarts, Counters
<1>4. CASE cm_debug_out_init \/ cm_debug_out_deinit \/ Reconnect \/ StillConnected
  BY <1>4 DEF cm_debug_out_init, cm_debug_out_deinit, Reconnect, StillConnected, server, Counters
<1>5. CASE SendHandshake \/ TakeResponse \/ Callback
  BY <1>5 DEF SendHandshake, TakeResponse, Callback, CallbackReturns, cm_debug_out_request,
              RequestReturns, server, Counters
<1>6. CASE Header \/ Length
  BY <1>6 DEF Header, StartRecv, ReadOp, HeaderPauses, ReadBreaks, Length, ReadLen, ReadExt,
              ReadMask, server, Counters
<1>7. CASE Body
  BY <1>7 DEF Body, ReadBody, BodyPauses, MessageEnds, FrameEnds, ResponseEnds, server, Counters
<1> QED BY <1>1, <1>2, <1>3, <1>4, <1>5, <1>6, <1>7, NextParts DEF Outside

LEMMA StatusKept ==
  ASSUME Status, Next
  PROVE  Status'
<1>1. CASE Answer \/ Push \/ Arrive \/ ServerStarts
  BY <1>1 DEF Answer, Push, Arrive, ServerStarts, link, Status
<1>2. CASE ServerEnds
  BY <1>2 DEF ServerEnds, link, Status
<1>3. CASE cm_debug_out_init \/ Reconnect
  BY <1>3 DEF cm_debug_out_init, Reconnect, Created, Status
<1>4. CASE cm_debug_out_deinit \/ StillConnected
  BY <1>4 DEF cm_debug_out_deinit, StillConnected, link, Status
<1>5. CASE SendHandshake \/ TakeResponse \/ NoResponse
  BY <1>5 DEF SendHandshake, TakeResponse, NoResponse, Status
<1>6. CASE Header
  BY <1>6 DEF Header, StartRecv, ReadOp, HeaderPauses, ReadBreaks, Breaks, link, Status
<1>7. CASE Length
  BY <1>7 DEF Length, ReadLen, ReadExt, ReadMask, Status
<1>8. CASE Body
  BY <1>8 DEF Body, ReadBody, BodyPauses, MessageEnds, FrameEnds, ResponseEnds, link, Status
<1>9. CASE Callback
  BY <1>9 DEF Callback, CallbackReturns, cm_debug_out_request, RequestReturns, link, Status
<1> QED BY <1>1, <1>2, <1>3, <1>4, <1>5, <1>6, <1>7, <1>8, <1>9, NextParts DEF Outside

LEMMA OutsideKeeps ==
  ASSUME Buffered, Outside
  PROVE  Buffered'
<1>1. CASE cm_debug_out_deinit
  BY <1>1 DEF cm_debug_out_deinit, Buffered, Lengths, Between, BufferHolds
<1>2. CASE Outside /\ ~cm_debug_out_deinit
  <2>1. /\ UNCHANGED <<waitres, head, need, length, size, shrunk>>
        /\ (pc' = pc /\ data' = data) \/ pc' \in {"out", "ready", "handshake"}
    <3>1. CASE Answer \/ Push \/ Arrive \/ ServerEnds \/ ServerStarts
      BY <3>1 DEF Answer, Push, Arrive, ServerEnds, ServerStarts, reader, buffer
    <3>2. CASE cm_debug_out_init \/ Reconnect \/ StillConnected
      BY <3>2 DEF cm_debug_out_init, Reconnect, StillConnected, reader, buffer
    <3>3. CASE SendHandshake \/ TakeResponse \/ NoResponse
      BY <3>3 DEF SendHandshake, TakeResponse, NoResponse, HandshakeEnds, reader, buffer
    <3> QED BY <1>2, <3>1, <3>2, <3>3 DEF Outside
  <2> QED BY <2>1 DEF Buffered, Lengths, Between, BufferHolds
<1> QED BY <1>1, <1>2

LEMMA HeaderKeeps ==
  ASSUME Buffered, Header \/ Callback
  PROVE  Buffered'
<1>1. /\ UNCHANGED <<length, size, shrunk>> /\ pc' # "body"
      /\ \/ need' = 0 /\ head' \in Heads
         \/ /\ UNCHANGED <<need, head>>
            /\ pc' \in {"op", "len", "ext", "mask"} => pc \in {"op", "len", "ext", "mask"}
  <2>1. CASE StartRecv \/ cm_debug_out_request
    BY <2>1, NoHeadType DEF StartRecv, cm_debug_out_request, buffer
  <2>2. CASE ReadOp
    <3>1. PICK fin \in BOOLEAN : head' = [NoHead EXCEPT !.fin = fin]
      BY <2>2 DEF ReadOp
    <3>2. head' \in Heads
      BY <3>1, HeadFacts
    <3>3. need' = 0 /\ UNCHANGED <<length, size, shrunk>> /\ pc' = "len"
      BY <2>2 DEF ReadOp, Buffered, Between, buffer
    <3> QED BY <3>2, <3>3
  <2>3. CASE HeaderPauses \/ ReadBreaks
    BY <2>3 DEF HeaderPauses, ReadBreaks, reader, buffer
  <2>4. CASE CallbackReturns \/ RequestReturns
    BY <2>4 DEF CallbackReturns, RequestReturns, reader, buffer
  <2> QED BY <2>1, <2>2, <2>3, <2>4 DEF Header, Callback
<1>2. head' \in Heads /\ (need' = 0 \/ need' \in 1 .. head'.n)
  BY <1>1 DEF Buffered, Lengths
<1> QED BY <1>1, <1>2 DEF Buffered, Lengths, Between, BufferHolds

\* A header goes on, or its body starts.
LEMMA LengthParts ==
  ASSUME Buffered, Length
  PROVE  \/ /\ pc' \in {"ext", "mask"} /\ head' \in Heads
            /\ UNCHANGED <<need, size, shrunk>>
         \/ \E h \in Heads : StartBody(h)
<1>1. head \in Heads
  BY DEF Buffered, Lengths
<1>2. ASSUME NEW h \in Heads, LengthRead(h)
      PROVE  \/ pc' = "mask" /\ head' \in Heads /\ UNCHANGED <<need, size, shrunk>>
             \/ StartBody(h)
  BY <1>2 DEF LengthRead
<1>3. CASE ReadLen
  <2>1. PICK ext \in Extensions, mask \in BOOLEAN, n \in Ints(0) :
          \/ /\ ext > 0 /\ pc' = "ext"
             /\ head' = [head EXCEPT !.ext = ext, !.mask = mask]
             /\ UNCHANGED <<need, size, shrunk>>
          \/ ext = 0 /\ LengthRead([head EXCEPT !.mask = mask, !.n = n])
    BY <1>3 DEF ReadLen
  <2>2. [head EXCEPT !.ext = ext, !.mask = mask] \in Heads
    BY <1>1 DEF Heads
  <2>3. n \in Ints(8)
    BY IntsFacts
  <2>4. [head EXCEPT !.mask = mask, !.n = n] \in Heads
    BY <1>1, <2>3 DEF Heads
  <2> QED BY <1>2, <2>1, <2>2, <2>4
<1>4. CASE ReadExt
  <2>1. PICK n \in Ints(head.ext) : LengthRead([head EXCEPT !.n = n])
    BY <1>4 DEF ReadExt
  <2>2. n \in Ints(8)
    <3>1. head.ext \in Extensions
      BY <1>1 DEF Heads
    <3> QED BY <3>1, IntsFacts
  <2>3. [head EXCEPT !.n = n] \in Heads
    BY <1>1, <2>2 DEF Heads
  <2> QED BY <1>2, <2>1, <2>3
<1>5. CASE ReadMask
  BY <1>1, <1>5 DEF ReadMask
<1> QED BY <1>3, <1>4, <1>5 DEF Length

LEMMA LengthKeeps ==
  ASSUME Buffered, Sequenced, Length
  PROVE  Buffered'
<1>1. UNCHANGED <<length, data, waitres>> /\ pc \in {"len", "ext", "mask"}
  BY DEF Length, ReadLen, ReadExt, ReadMask
<1>2. ASSUME NEW h \in Heads, StartBody(h)
      PROVE  Buffered'
  <2>1. pc' \in {"body", "crashed"}
    BY <1>2 DEF StartBody
  <2> QED BY <1>1, <1>2, <2>1, BodyFits DEF Buffered, Lengths, Between
<1>3. CASE pc' \in {"ext", "mask"} /\ head' \in Heads /\ UNCHANGED <<need, size, shrunk>>
  BY <1>1, <1>3 DEF Buffered, Lengths, Between, BufferHolds
<1> QED BY <1>2, <1>3, LengthParts

\* What is read of a body leaves the sum of what has come and what has not.
LEMMA BodyKeeps ==
  ASSUME Buffered, Sequenced, Body
  PROVE  Buffered'
<1>1. CASE ReadBody
  <2>1. /\ UNCHANGED <<pc, waitres, head, length, size, shrunk>> /\ pc = "body"
        /\ data' = data \o SubSeq(stream, 1, Reads(need)) /\ need' = need - Reads(need)
    BY <1>1 DEF ReadBody, buffer
  <2>2. need \in Nat /\ Len(stream) \in Nat /\ Len(data) \in Nat /\ head.n \in Int
    BY IntsFacts, SplitSequence DEF Buffered, Lengths, Sequenced, Heads
  <2>3. Reads(need) \in 0 .. Len(stream) /\ Reads(need) \in 0 .. need
    BY <2>2 DEF Reads
  <2>4. /\ Len(SubSeq(stream, 1, Reads(need))) = Reads(need)
        /\ \E X : SubSeq(stream, 1, Reads(need)) \in Seq(X)
    BY <2>3, SplitSequence DEF Sequenced
  <2>5. Len(data') = Len(data) + Reads(need)
    BY <2>1, <2>4, JoinSequences DEF Sequenced
  <2>6. need' = 0 \/ need' \in 1 .. head'.n
    BY <2>1, <2>2, <2>3 DEF Buffered, Lengths
  <2>7. Len(data') + need' = Len(data) + need
    BY <2>1, <2>2, <2>3, <2>5
  <2> QED BY <2>1, <2>6, <2>7 DEF Buffered, Lengths, Between, BufferHolds
<1>2. CASE BodyPauses
  <2>1. /\ UNCHANGED <<pc, waitres, head, data, length, size, shrunk>> /\ pc = "body"
        /\ need' = need \/ (waitres /\ need' = 0)
    BY <1>2 DEF BodyPauses, buffer
  <2>2. need' = 0 \/ need' \in 1 .. head'.n
    BY <2>1 DEF Buffered, Lengths
  <2> QED BY <2>1, <2>2 DEF Buffered, Lengths, Between, BufferHolds
<1>3. CASE MessageEnds
  <2>1. /\ UNCHANGED <<head, need, data, size, shrunk>> /\ pc' \in {"callback", "out"}
        /\ length' = Len(data) /\ pc = "body" /\ ~waitres /\ need = 0
    BY <1>3 DEF MessageEnds
  <2>2. Len(data) \in Nat
    BY SplitSequence DEF Sequenced
  <2> QED BY <2>1, <2>2 DEF Buffered, Lengths, Between, BufferHolds
<1>4. CASE FrameEnds \/ ResponseEnds
  <2>1. /\ UNCHANGED <<waitres, head, need, data, length, size, shrunk>>
        /\ need = 0 /\ pc' \in {"op", "response"}
    BY <1>4 DEF FrameEnds, ResponseEnds, reader, buffer
  <2> QED BY <2>1 DEF Buffered, Lengths, Between, BufferHolds
<1> QED BY <1>1, <1>2, <1>3, <1>4 DEF Body

LEMMA SequencedKept ==
  ASSUME Buffered, Sequenced, Next
  PROVE  Sequenced'
<1> USE DEF Sequenced
<1>1. CASE Arrive
  <2>1. stream' = Append(stream, rest) /\ data' = data
    BY <1>1 DEF Arrive, reader
  <2> QED BY <2>1, AppendIsSequence
<1>2. CASE Outside /\ ~Arrive
  <2>1. data' \in {data, <<>>, data \o stream}
    BY <1>2 DEF Outside, Answer, Push, ServerEnds, ServerStarts, cm_debug_out_init,
       cm_debug_out_deinit, Reconnect, StillConnected, SendHandshake, TakeResponse,
       NoResponse, reader
  <2>2. stream' \in {stream, <<>>}
    <3>1. CASE Answer \/ Push \/ ServerEnds \/ ServerStarts
      BY <3>1 DEF Answer, Push, ServerEnds, ServerStarts, link
    <3>2. CASE Outside /\ ~(Arrive \/ Answer \/ Push \/ ServerEnds \/ ServerStarts)
      BY <3>2 DEF Outside, cm_debug_out_init, cm_debug_out_deinit, Reconnect, StillConnected,
         SendHandshake, TakeResponse, NoResponse, link
    <3> QED BY <1>2, <3>1, <3>2
  <2>3. \E X : data' \in Seq(X)
    <3>1. CASE data' = data \/ data' = <<>>
      BY <3>1, EmptyIsSequence
    <3>2. CASE data' = data \o stream
      BY <3>2, JoinSequences
    <3> QED BY <2>1, <3>1, <3>2
  <2>4. \E X : stream' \in Seq(X)
    BY <2>2, EmptyIsSequence
  <2> QED BY <2>3, <2>4
<1>3. CASE Header \/ Callback
  <2>1. data' \in {data, <<>>}
    BY <1>3 DEF Header, StartRecv, ReadOp, HeaderPauses, ReadBreaks, Callback,
       CallbackReturns, cm_debug_out_request, RequestReturns, reader
  <2>2. stream' = stream \/ (stream # <<>> /\ stream' = Tail(stream))
    BY <1>3 DEF Header, StartRecv, ReadOp, HeaderPauses, ReadBreaks, Callback,
       CallbackReturns, cm_debug_out_request, RequestReturns, link
  <2> QED BY <2>1, <2>2, EmptyIsSequence, TailIsSequence
<1>4. CASE ReadLen
  BY <1>4, TailIsSequence DEF ReadLen
<1>5. CASE ReadExt \/ ReadMask
  <2>1. PICK want \in {head.ext, 4} :
          stream' = SubSeq(stream, Len(SubSeq(stream, 1, Reads(want))) + 1, Len(stream))
            \/ stream' = SubSeq(stream, Reads(want) + 1, Len(stream))
    BY <1>5 DEF ReadExt, ReadMask
  <2>2. want \in Nat /\ Len(stream) \in Nat
    BY SplitSequence DEF Buffered, Lengths, Heads, Extensions
  <2>3. PICK k \in 0 .. Len(stream) : k = Reads(want)
    BY <2>2 DEF Reads
  <2>4. Len(SubSeq(stream, 1, k)) = k /\ \E X : SubSeq(stream, k + 1, Len(stream)) \in Seq(X)
    BY SplitSequence
  <2>5. data' = data
    BY <1>5 DEF ReadExt, ReadMask
  <2> QED BY <2>1, <2>3, <2>4, <2>5
<1>6. CASE ReadBody
  <2>1. need \in Nat /\ Len(stream) \in Nat
    BY IntsFacts, SplitSequence DEF Buffered, Lengths, Heads
  <2>2. Reads(need) \in 0 .. Len(stream)
    BY <2>1 DEF Reads
  <2>3. /\ \E X : SubSeq(stream, 1, Reads(need)) \in Seq(X)
        /\ \E X : SubSeq(stream, Reads(need) + 1, Len(stream)) \in Seq(X)
    BY <2>2, SplitSequence
  <2>4. \E X : data' \in Seq(X)
    BY <1>6, <2>3, JoinSequences DEF ReadBody
  <2> QED BY <1>6, <2>3, <2>4 DEF ReadBody
<1>7. CASE BodyPauses \/ MessageEnds \/ FrameEnds \/ ResponseEnds
  BY <1>7 DEF BodyPauses, MessageEnds, FrameEnds, ResponseEnds, link, reader
<1> QED BY <1>1, <1>2, <1>3, <1>4, <1>5, <1>6, <1>7, NextParts DEF Length, Body
-----------------------------------------------------------------------------
LEMMA BufferInvariant == Spec => []BufferInv
<1>1. BufferInv /\ [Next]_vars => BufferInv'
  <2> SUFFICES ASSUME BufferInv, [Next]_vars PROVE BufferInv'
    OBVIOUS
  <2>1. CASE Next
    <3>1. Modes' /\ Counters' /\ Status' /\ Written'
      BY <2>1, ModesKept, CountersKept, StatusKept, WrittenKept DEF BufferInv, TypeOK
    <3>2. Buffered /\ Sequenced
      BY DEF BufferInv, TypeOK, Buffered
    <3>3. Buffered' /\ Sequenced'
      BY <2>1, <3>2, NextParts, OutsideKeeps, HeaderKeeps, LengthKeeps, BodyKeeps,
         SequencedKept
    <3> QED BY <3>1, <3>3 DEF BufferInv, TypeOK, Buffered
  <2>2. CASE UNCHANGED vars
    BY <2>2 DEF vars, server, link, reader, buffer, BufferInv, TypeOK, Modes, Counters, Lengths,
                Status, Written, Sequenced, Between, BufferHolds
  <2> QED BY <2>1, <2>2
<1> QED BY <1>1, BufferInit, PTL DEF Spec

\* Every variable of the debug connection keeps its type; the status is 1 only
\* while there is a conn, whatever connects, breaks or times out.
THEOREM TypeCorrect == Spec => []TypeOK
<1>1. BufferInv => TypeOK
  BY DEF BufferInv
<1> QED BY <1>1, BufferInvariant, PTL

\* A body always fits behind what has been read, though the buffer grows only when
\* length is too small, and length is what an earlier message has left: for every
\* length, of one, two or eight bytes, until a reader that has lost its place reads
\* one that is negative as an int.
THEOREM BufferSound == Spec => []BufferHolds
<1>1. BufferInv => BufferHolds
  BY DEF BufferInv
<1> QED BY <1>1, BufferInvariant, PTL
-----------------------------------------------------------------------------
(***************************************************************************)
(* Messages arrive as they were sent.  MessagesIntact says where the       *)
(* reader stands between two frames; inside one it has to stand there too. *)
(***************************************************************************)

\* Where a byte of a message may be.
Place ==
  {p \in [msg : Nat, shape : Shapes, frame : Nat, byte : Nat] :
     p.frame \in 1 .. Len(p.shape) /\ p.byte \in 1 .. FrameLen(p)}

\* The byte p may come where q is due; after a message, any message may begin.
Enters(q, p) == IF q = NoByte THEN p.frame = 1 /\ p.byte = 1 ELSE p = q

\* The bytes of s follow each other, from where q is due; and what is due then.
Follow(q, s) ==
  /\ s \in Seq(Place)
  /\ \A i \in 1 .. Len(s) : Enters(IF i = 1 THEN q ELSE After(s[i - 1]), s[i])

Due(q, s) == IF s = <<>> THEN q ELSE After(s[Len(s)])

\* What the reader is to read goes on at q.
On(q) ==
  /\ Follow(q, stream)
  /\ sock = "up" =>
       rest = Due(q, stream) \/ (rest \in Place /\ Enters(Due(q, stream), rest))

\* Of the frame of p, so many bytes are still to be read.
Ahead(p, n) == IF n = 0 THEN NextFrame(p) ELSE [p EXCEPT !.byte = FrameLen(p) - n + 1]

\* What this call has read are the first c bytes of the message of p.
Gathered(p, c) ==
  /\ Len(data) = c
  /\ \A j \in 1 .. c : /\ data[j] \in Place /\ data[j].msg = p.msg /\ data[j].shape = p.shape
                       /\ Kind(data[j]) = "data" /\ At(data[j]) = j

\* A frame is due, or a message; and nothing of one has been read, or it is in data.
Starts(q) == q = NoByte \/ (q \in Place /\ q.byte = 1)
Fresh(q)  == q = NoByte \/ Before(q.shape, q.frame) = 0
Kept(q)   == IF q = NoByte THEN data = <<>> ELSE Gathered(q, Before(q.shape, q.frame))

\* The reader stands between two messages or frames,
Outer ==
  /\ pc \in {"out", "ready"}
  /\ \E q \in Place \cup {NoByte} : Starts(q) /\ On(q) /\ (flaw = "none" => Fresh(q))

AtFrame ==
  /\ pc = "op"
  /\ \E q \in Place \cup {NoByte} : Starts(q) /\ On(q) /\ (flaw = "none" => Kept(q))

\* in the header of one,
InHeader ==
  /\ pc \in {"len", "ext"}
  /\ \E p \in Place :
       /\ p.byte = (IF pc = "len" THEN 2 ELSE 3) /\ p.byte =< HeaderLen(p)
       /\ On(p) /\ head.fin = Fin(p) /\ (flaw = "none" => ~Control(p) /\ Kept(p))
       /\ pc = "ext" => ~head.mask /\ HeaderLen(p) = 2 + head.ext

\* in its body,
InBody ==
  /\ pc = "body"
  /\ \E p \in Place :
       /\ need =< InFrame(p.shape, p.frame) /\ head.fin = Fin(p) /\ On(Ahead(p, need))
       /\ flaw = "none" => ~Control(p)
       /\ flaw = "none" =>
            Gathered(p, Before(p.shape, p.frame) + InFrame(p.shape, p.frame) - need)

\* or at the end of a message, or of the frame that answers a request.
AtEnd ==
  \/ /\ pc = "callback"
     /\ \E q \in Place \cup {NoByte} : Starts(q) /\ On(q) /\ (flaw = "none" => q = NoByte)
     /\ flaw = "none" => data # <<>> /\ \E p \in Place : Gathered(p, Size(p.shape))
  \/ /\ pc = "response"
     /\ \E q \in Place \cup {NoByte} :
          Starts(q) /\ On(q) /\ (flaw = "none" /\ head.fin => q = NoByte)
     /\ flaw = "none" => \E p \in Place : Gathered(p, Len(data))

\* The connection is closed, and all of it is read.
Dead == sock # "up" /\ stream = <<>> /\ pc \in {"out", "ready", "op", "freed"}

\* The last byte of the response has come, and a message follows, or nothing yet.
Ends(d) == d # <<>> /\ d[Len(d)] = Reply(ResponseLen)
Begun   == rest = NoByte \/ (rest \in Place /\ Enters(NoByte, rest))

\* The server answers before it writes, and writes all of its response first.
Greeted ==
  sock = "up" =>
    \/ /\ mode = "http" /\ stream = <<>> /\ rest = NoByte
       /\ pc = "handshake" => data = <<>>
    \/ /\ mode = "ws"
       /\ Ends(stream) => Begun
       /\ stream = <<>> /\ pc = "handshake" /\ Ends(data) => Begun

\* After the handshake the server takes the connection for a WebSocket.
Placed == sock = "up" => mode = "ws"

Standing == Outer \/ AtFrame \/ InHeader \/ InBody \/ AtEnd \/ Dead

\* Frames are read after the handshake.
Shaken ==
  /\ pc \in {"none", "handshake"} => ~iWSOK
  /\ pc \in {"op", "len", "ext", "mask", "body", "callback", "response"} => iWSOK

PlaceInv == Shaken /\ (flaw # "lost" => IF iWSOK THEN Placed /\ Standing ELSE Greeted)

LEMMA ElementOfSeq ==
  ASSUME NEW X, NEW s \in Seq(X), NEW k \in 1 .. Len(s)
  PROVE  s[k] \in X
OBVIOUS

LEMMA FrameOfShape ==
  ASSUME NEW s \in Shapes, NEW k \in 1 .. Len(s)
  PROVE  s[k].end \in Nat /\ s[k].ext \in Extensions /\ s[k].ctl \in BOOLEAN
<1>1. s \in Seq([end : Nat, ext : Extensions, ctl : BOOLEAN])
  BY DebugOutAssumption
<1>2. s[k] \in [end : Nat, ext : Extensions, ctl : BOOLEAN]
  BY <1>1, ElementOfSeq, Zenon
<1> QED BY <1>2

LEMMA ShapeFacts ==
  ASSUME NEW s \in Shapes, NEW k \in 1 .. Len(s)
  PROVE  /\ Len(s) \in Nat /\ s[k].end \in Nat /\ s[k].ext \in Extensions
         /\ Before(s, k) \in Nat /\ InFrame(s, k) \in 0 .. MaxLen /\ InFrame(s, k) \in Nat
         /\ s[k].end = Before(s, k) + InFrame(s, k)
<1>1. /\ s \in Seq([end : Nat, ext : Extensions, ctl : BOOLEAN])
      /\ InFrame(s, k) \in 0 .. MaxLen /\ MaxLen \in Nat
  BY DebugOutAssumption
<1>2. Len(s) \in Nat /\ s[k].end \in Nat /\ s[k].ext \in Extensions
  BY <1>1, FrameOfShape
<1>3. Before(s, k) \in Nat
  <2>1. CASE k = 1
    BY <2>1 DEF Before
  <2>2. CASE k # 1
    <3>1. k - 1 \in 1 .. Len(s)
      BY <1>2, <2>2
    <3>2. s[k - 1].end \in Nat
      BY <3>1, FrameOfShape
    <3> QED BY <2>2, <3>2 DEF Before
  <2> QED BY <2>1, <2>2
<1>4. InFrame(s, k) = s[k].end - Before(s, k)
  BY DEF InFrame
<1> QED BY <1>1, <1>2, <1>3, <1>4

LEMMA PlaceFacts ==
  ASSUME NEW p \in Place
  PROVE  /\ p.msg \in Nat /\ p.shape \in Shapes
         /\ p.frame \in 1 .. Len(p.shape) /\ p.frame \in Nat /\ Len(p.shape) \in Nat
         /\ p.byte \in Nat /\ p.byte >= 1 /\ p.byte =< FrameLen(p)
         /\ HeaderLen(p) \in {2, 4, 10}
         /\ InFrame(p.shape, p.frame) \in Nat /\ Before(p.shape, p.frame) \in Nat
         /\ FrameLen(p) = HeaderLen(p) + InFrame(p.shape, p.frame)
         /\ p # NoByte /\ ~IsReply(p)
         /\ p = [msg |-> p.msg, shape |-> p.shape, frame |-> p.frame, byte |-> p.byte]
<1>1. /\ p.msg \in Nat /\ p.shape \in Shapes /\ p.frame \in Nat /\ p.byte \in Nat
      /\ p.frame \in 1 .. Len(p.shape) /\ p.byte \in 1 .. FrameLen(p)
      /\ p = [msg |-> p.msg, shape |-> p.shape, frame |-> p.frame, byte |-> p.byte]
  BY DEF Place
<1>2. /\ Len(p.shape) \in Nat /\ InFrame(p.shape, p.frame) \in Nat
      /\ Before(p.shape, p.frame) \in Nat
  BY <1>1, ShapeFacts
<1>3. HeaderLen(p) \in {2, 4, 10} /\ FrameLen(p) = HeaderLen(p) + InFrame(p.shape, p.frame)
  <2>1. p.shape[p.frame].ext \in {0, 2, 8}
    BY <1>1, ShapeFacts DEF Extensions
  <2> QED BY <2>1 DEF HeaderLen, FrameLen
<1>4. p.byte >= 1 /\ p.byte =< FrameLen(p)
  BY <1>1, <1>2, <1>3
<1>5. p # NoByte /\ ~IsReply(p)
  <2>1. p.frame # 0
    BY <1>1, <1>2
  <2> QED BY <2>1 DEF NoByte, IsReply
<1> QED BY <1>1, <1>2, <1>3, <1>4, <1>5

LEMMA KindFacts ==
  ASSUME NEW p \in Place
  PROVE  /\ p.byte = 1 => Kind(p) = "op"
         /\ p.byte = 2 => Kind(p) = "len"
         /\ p.byte > 2 /\ p.byte =< HeaderLen(p) => Kind(p) = "ext"
         /\ p.byte > HeaderLen(p) => Kind(p) = "data"
<1>1. ~IsReply(p) /\ p.byte \in Nat /\ HeaderLen(p) \in {2, 4, 10}
  BY PlaceFacts
<1>2. p.byte = 1 => Kind(p) = "op"
  BY <1>1 DEF Kind
<1>3. p.byte = 2 => Kind(p) = "len"
  BY <1>1 DEF Kind
<1>4. ASSUME p.byte > 2, p.byte =< HeaderLen(p)
      PROVE  Kind(p) = "ext"
  <2>1. p.byte # 1 /\ p.byte # 2 /\ p.byte \in 3 .. HeaderLen(p) /\ ~(p.byte > HeaderLen(p))
    BY <1>1, <1>4
  <2> QED BY <1>1, <2>1 DEF Kind
<1>5. ASSUME p.byte > HeaderLen(p)
      PROVE  Kind(p) = "data"
  <2>1. p.byte # 1 /\ p.byte # 2 /\ p.byte \notin 3 .. HeaderLen(p)
    BY <1>1, <1>5
  <2> QED BY <1>1, <1>5, <2>1 DEF Kind
<1> QED BY <1>2, <1>3, <1>4, <1>5

LEMMA AfterPlace ==
  ASSUME NEW p \in Place
  PROVE  After(p) = IF p.byte < FrameLen(p) THEN [p EXCEPT !.byte = p.byte + 1] ELSE NextFrame(p)
<1>1. ~IsReply(p)
  BY PlaceFacts
<1> QED BY <1>1 DEF After

\* Another byte of the same frame
LEMMA SameFrame ==
  ASSUME NEW p \in Place, NEW b \in 1 .. FrameLen(p), NEW q, q = [p EXCEPT !.byte = b]
  PROVE  /\ q \in Place /\ q.byte = b
         /\ q.msg = p.msg /\ q.shape = p.shape /\ q.frame = p.frame
         /\ HeaderLen(q) = HeaderLen(p) /\ FrameLen(q) = FrameLen(p)
         /\ NextFrame(q) = NextFrame(p)
<1>1. /\ p.msg \in Nat /\ p.shape \in Shapes /\ p.frame \in Nat /\ p.frame \in 1 .. Len(p.shape)
      /\ FrameLen(p) \in Nat
      /\ p = [msg |-> p.msg, shape |-> p.shape, frame |-> p.frame, byte |-> p.byte]
  BY PlaceFacts
<1>2. q = [msg |-> p.msg, shape |-> p.shape, frame |-> p.frame, byte |-> b]
  BY <1>1
<1>3. q.byte = b /\ q.msg = p.msg /\ q.shape = p.shape /\ q.frame = p.frame
  BY <1>2
<1>4. HeaderLen(q) = HeaderLen(p) /\ FrameLen(q) = FrameLen(p)
  BY <1>3 DEF HeaderLen, FrameLen
<1>5. b \in Nat
  BY <1>1
<1>6. q \in Place
  BY <1>1, <1>2, <1>3, <1>4, <1>5 DEF Place
<1>7. NextFrame(q) = NextFrame(p)
  BY <1>1, <1>2, <1>3 DEF NextFrame
<1> QED BY <1>3, <1>4, <1>6, <1>7

\* A frame that ends is followed by the next one, or by no byte of this message.
LEMMA NextFrameFacts ==
  ASSUME NEW p \in Place, NEW q, q = NextFrame(p)
  PROVE  /\ q = NoByte \/ (q \in Place /\ q.byte = 1)
         /\ ~Fin(p) => /\ q \in Place /\ q.byte = 1 /\ q.msg = p.msg /\ q.shape = p.shape
                       /\ Before(q.shape, q.frame)
                            = Before(p.shape, p.frame) + InFrame(p.shape, p.frame)
         /\ Fin(p) /\ ~Control(p) =>
              /\ q = NoByte
              /\ Before(p.shape, p.frame) + InFrame(p.shape, p.frame) = Size(p.shape)
<1>1. /\ p.msg \in Nat /\ p.shape \in Shapes /\ p.frame \in Nat /\ p.frame \in 1 .. Len(p.shape)
      /\ Len(p.shape) \in Nat
      /\ p = [msg |-> p.msg, shape |-> p.shape, frame |-> p.frame, byte |-> p.byte]
  BY PlaceFacts
<1>2. p.shape[p.frame].end = Before(p.shape, p.frame) + InFrame(p.shape, p.frame)
  BY <1>1, ShapeFacts
<1>3. CASE p.frame = Len(p.shape)
  <2>1. q = NoByte /\ Fin(p)
    BY <1>1, <1>3 DEF NextFrame, Fin
  <2> QED BY <1>2, <1>3, <2>1 DEF Size
<1>4. CASE p.frame # Len(p.shape)
  <2>1. p.frame < Len(p.shape)
    BY <1>1, <1>4
  <2>2. q = [msg |-> p.msg, shape |-> p.shape, frame |-> p.frame + 1, byte |-> 1]
    BY <1>1, <2>1 DEF NextFrame
  <2>3. q.msg = p.msg /\ q.shape = p.shape /\ q.frame = p.frame + 1 /\ q.byte = 1
    BY <2>2
  <2>4. p.frame + 1 \in 1 .. Len(p.shape) /\ p.frame + 1 \in Nat /\ p.frame + 1 # 1
    BY <1>1, <2>1
  <2>5. Before(q.shape, q.frame) = p.shape[p.frame].end
    <3>1. (p.frame + 1) - 1 = p.frame
      BY <1>1
    <3> QED BY <2>3, <2>4, <3>1 DEF Before
  <2>6. InFrame(p.shape, p.frame + 1) \in Nat
    BY <1>1, <2>4, ShapeFacts
  <2>7. FrameLen(q) \in Nat /\ 1 =< FrameLen(q)
    <3>1. p.shape[p.frame + 1].ext \in {0, 2, 8}
      BY <1>1, <2>4, ShapeFacts DEF Extensions
    <3>2. HeaderLen(q) \in {2, 4, 10} /\ FrameLen(q) = HeaderLen(q) + InFrame(p.shape, p.frame + 1)
      BY <2>3, <3>1 DEF FrameLen, HeaderLen
    <3> QED BY <2>6, <3>2
  <2>8. 1 \in 1 .. FrameLen(q)
    BY <2>7
  <2>9. q \in Place
    BY <1>1, <2>2, <2>3, <2>4, <2>8 DEF Place
  <2>10. Fin(p) => Control(p)
    BY <1>4 DEF Fin
  <2> QED BY <1>2, <2>3, <2>5, <2>9, <2>10
<1> QED BY <1>3, <1>4

LEMMA AfterFacts ==
  ASSUME NEW p \in Place
  PROVE  After(p) \in Place \cup {NoByte}
<1>1. p.byte \in Nat /\ p.byte >= 1 /\ FrameLen(p) \in Nat
  BY PlaceFacts
<1>2. CASE p.byte < FrameLen(p)
  <2>1. p.byte + 1 \in 1 .. FrameLen(p)
    BY <1>1, <1>2
  <2>2. [p EXCEPT !.byte = p.byte + 1] \in Place
    BY <2>1, SameFrame
  <2> QED BY <1>2, <2>2, AfterPlace
<1>3. CASE ~(p.byte < FrameLen(p))
  BY <1>3, NextFrameFacts, AfterPlace
<1> QED BY <1>2, <1>3

\* The bytes of data that are still to be read of the frame of p, one after the other.
LEMMA AheadFacts ==
  ASSUME NEW p \in Place, NEW n \in Nat, n > 0, n =< InFrame(p.shape, p.frame),
         NEW q, q = Ahead(p, n)
  PROVE  /\ q \in Place /\ q.msg = p.msg /\ q.shape = p.shape /\ Kind(q) = "data"
         /\ At(q) = Before(p.shape, p.frame) + InFrame(p.shape, p.frame) - n + 1
         /\ After(q) = Ahead(p, n - 1)
<1>1. /\ HeaderLen(p) \in {2, 4, 10} /\ InFrame(p.shape, p.frame) \in Nat
      /\ Before(p.shape, p.frame) \in Nat
      /\ FrameLen(p) = HeaderLen(p) + InFrame(p.shape, p.frame)
      /\ p = [msg |-> p.msg, shape |-> p.shape, frame |-> p.frame, byte |-> p.byte]
  BY PlaceFacts
<1>2. FrameLen(p) - n + 1 \in 1 .. FrameLen(p) /\ FrameLen(p) - n + 1 > HeaderLen(p)
  BY <1>1
<1>3. q = [p EXCEPT !.byte = FrameLen(p) - n + 1]
  BY DEF Ahead
<1>4. /\ q \in Place /\ q.byte = FrameLen(p) - n + 1
      /\ q.msg = p.msg /\ q.shape = p.shape /\ q.frame = p.frame
      /\ HeaderLen(q) = HeaderLen(p) /\ FrameLen(q) = FrameLen(p)
      /\ NextFrame(q) = NextFrame(p)
  BY <1>2, <1>3, SameFrame
<1>5. Kind(q) = "data"
  BY <1>2, <1>4, KindFacts
<1>6. At(q) = Before(p.shape, p.frame) + InFrame(p.shape, p.frame) - n + 1
  <2>1. At(q) = Before(p.shape, p.frame) + (FrameLen(p) - n + 1) - HeaderLen(p)
    BY <1>4 DEF At
  <2> QED BY <1>1, <2>1
<1>7. After(q) = Ahead(p, n - 1)
  <2>1. CASE n = 1
    <3>1. ~(q.byte < FrameLen(q)) /\ n - 1 = 0
      BY <1>1, <1>4, <2>1
    <3> QED BY <1>4, <3>1, AfterPlace DEF Ahead
  <2>2. CASE n # 1
    <3>1. q.byte < FrameLen(q) /\ n - 1 # 0
      BY <1>1, <1>4, <2>2
    <3>2. (FrameLen(p) - n + 1) + 1 = FrameLen(p) - (n - 1) + 1
      BY <1>1
    <3>3. After(q) = [p EXCEPT !.byte = (FrameLen(p) - n + 1) + 1]
      BY <1>1, <1>3, <1>4, <3>1, AfterPlace
    <3> QED BY <3>1, <3>2, <3>3 DEF Ahead
  <2> QED BY <2>1, <2>2
<1> QED BY <1>4, <1>5, <1>6, <1>7

\* The header of a frame is followed by its data, if it has any.
LEMMA HeaderEnds ==
  ASSUME NEW p \in Place, p.byte = HeaderLen(p)
  PROVE  After(p) = Ahead(p, InFrame(p.shape, p.frame))
<1>1. /\ HeaderLen(p) \in {2, 4, 10} /\ InFrame(p.shape, p.frame) \in Nat
      /\ FrameLen(p) = HeaderLen(p) + InFrame(p.shape, p.frame)
  BY PlaceFacts
<1>2. CASE InFrame(p.shape, p.frame) = 0
  BY <1>1, <1>2, AfterPlace DEF Ahead
<1>3. CASE InFrame(p.shape, p.frame) # 0
  <2>1. p.byte < FrameLen(p) /\ FrameLen(p) - InFrame(p.shape, p.frame) + 1 = p.byte + 1
    BY <1>1, <1>3
  <2> QED BY <1>3, <2>1, AfterPlace DEF Ahead
<1> QED BY <1>2, <1>3

LEMMA AheadPlace ==
  ASSUME NEW p \in Place, NEW n \in Nat, n =< InFrame(p.shape, p.frame)
  PROVE  Ahead(p, n) \in Place \cup {NoByte}
<1>1. CASE n = 0
  BY <1>1, NextFrameFacts DEF Ahead
<1>2. CASE n # 0
  BY <1>2, AheadFacts
<1> QED BY <1>1, <1>2
-----------------------------------------------------------------------------
(* What arrives and what is read *)

LEMMA FirstOfSeq ==
  ASSUME NEW X, NEW s \in Seq(X), s # <<>>
  PROVE  1 \in 1 .. Len(s) /\ Len(s) \in 1 .. Len(s)
OBVIOUS

LEMMA FollowEmpty ==
  ASSUME NEW q
  PROVE  Follow(q, <<>>) /\ Due(q, <<>>) = q
<1>1. <<>> \in Seq(Place) /\ Len(<<>>) = 0
  OBVIOUS
<1> QED BY <1>1 DEF Follow, Due

LEMMA DuePlace ==
  ASSUME NEW q \in Place \cup {NoByte}, NEW s, Follow(q, s)
  PROVE  Due(q, s) \in Place \cup {NoByte}
<1>1. s \in Seq(Place) /\ (s # <<>> => Len(s) \in 1 .. Len(s))
  BY FirstOfSeq DEF Follow
<1>2. s # <<>> => s[Len(s)] \in Place
  BY <1>1, ElementOfSeq
<1> QED BY <1>2, AfterFacts DEF Due

LEMMA FollowAppend ==
  ASSUME NEW q, NEW s, Follow(q, s), NEW e \in Place, Enters(Due(q, s), e),
         NEW t, t = Append(s, e)
  PROVE  Follow(q, t) /\ Due(q, t) = After(e)
<1>1. s \in Seq(Place) /\ Len(s) \in Nat
  BY DEF Follow
<1>2. /\ t \in Seq(Place) /\ Len(t) = Len(s) + 1 /\ t # <<>> /\ t[Len(s) + 1] = e
      /\ \A i \in 1 .. Len(s) : t[i] = s[i]
  BY <1>1
<1>3. Due(q, t) = After(e)
  BY <1>2 DEF Due
<1>4. ASSUME NEW i \in 1 .. Len(t)
      PROVE  Enters(IF i = 1 THEN q ELSE After(t[i - 1]), t[i])
  <2>1. CASE i \in 1 .. Len(s)
    <3>1. i # 1 => i - 1 \in 1 .. Len(s)
      BY <1>1, <2>1
    <3>2. t[i] = s[i] /\ (i # 1 => t[i - 1] = s[i - 1])
      BY <1>2, <2>1, <3>1
    <3>3. Enters(IF i = 1 THEN q ELSE After(s[i - 1]), s[i])
      BY <2>1 DEF Follow
    <3> QED BY <3>2, <3>3
  <2>2. CASE i = Len(s) + 1
    <3>1. t[i] = e
      BY <1>2, <2>2
    <3>2. CASE s = <<>>
      <4>1. i = 1
        BY <2>2, <3>2
      <4> QED BY <3>1, <3>2, <4>1 DEF Due
    <3>3. CASE s # <<>>
      <4>1. i # 1 /\ i - 1 = Len(s) /\ Len(s) \in 1 .. Len(s)
        BY <1>1, <2>2, <3>3
      <4>2. t[i - 1] = s[Len(s)]
        BY <1>2, <4>1
      <4> QED BY <3>1, <3>3, <4>1, <4>2 DEF Due
    <3> QED BY <3>2, <3>3
  <2>3. i \in 1 .. Len(s) \/ i = Len(s) + 1
    BY <1>1, <1>2
  <2> QED BY <2>1, <2>2, <2>3
<1> QED BY <1>2, <1>3, <1>4 DEF Follow

LEMMA FollowRest ==
  ASSUME NEW q, NEW s, Follow(q, s), NEW k \in 1 .. Len(s)
  PROVE  /\ Follow(After(s[k]), SubSeq(s, k + 1, Len(s)))
         /\ Due(After(s[k]), SubSeq(s, k + 1, Len(s))) = Due(q, s)
<1> SUFFICES ASSUME NEW t, t = SubSeq(s, k + 1, Len(s)), NEW w, w = After(s[k])
             PROVE  Follow(w, t) /\ Due(w, t) = Due(q, s)
  OBVIOUS
<1>1. s \in Seq(Place) /\ Len(s) \in Nat /\ k \in Nat /\ k =< Len(s) /\ k >= 1
  BY DEF Follow
<1>2. t \in Seq(Place) /\ Len(t) = Len(s) - k
  BY <1>1
<1>3. \A i \in 1 .. Len(s) - k : t[i] = s[k + i]
  BY <1>1
<1>4. ASSUME NEW i \in 1 .. Len(t)
      PROVE  Enters(IF i = 1 THEN w ELSE After(t[i - 1]), t[i])
  <2>1. k + i \in 1 .. Len(s) /\ k + i # 1 /\ (k + i) - 1 = k + (i - 1)
    BY <1>1, <1>2
  <2>2. Enters(IF k + i = 1 THEN q ELSE After(s[(k + i) - 1]), s[k + i])
    BY <2>1 DEF Follow
  <2>3. Enters(After(s[k + (i - 1)]), t[i])
    BY <1>2, <1>3, <2>1, <2>2
  <2>4. CASE i = 1
    <3>1. k + (i - 1) = k
      BY <1>1, <2>4
    <3> QED BY <2>3, <2>4, <3>1
  <2>5. CASE i # 1
    <3>1. i - 1 \in 1 .. Len(s) - k
      BY <1>1, <1>2, <2>5
    <3>2. t[i - 1] = s[k + (i - 1)]
      BY <1>3, <3>1
    <3> QED BY <2>3, <2>5, <3>2
  <2> QED BY <2>4, <2>5
<1>5. Due(w, t) = Due(q, s)
  <2>1. s # <<>>
    BY <1>1
  <2>2. CASE t = <<>>
    <3>1. Len(t) = 0
      BY <2>2, EmptyIsSequence, Zenon
    <3>2. k = Len(s)
      BY <1>1, <1>2, <3>1
    <3> QED BY <2>1, <2>2, <3>2 DEF Due
  <2>3. CASE t # <<>>
    <3>1. Len(s) - k \in 1 .. Len(s) - k /\ k + (Len(s) - k) = Len(s)
      BY <1>1, <1>2, <2>3
    <3>2. t[Len(t)] = s[Len(s)]
      BY <1>2, <1>3, <3>1
    <3> QED BY <2>1, <2>3, <3>2 DEF Due
  <2> QED BY <2>2, <2>3
<1> QED BY <1>2, <1>4, <1>5 DEF Follow

LEMMA FirstPlace ==
  ASSUME NEW m \in Nat, NEW shape \in Shapes
  PROVE  First(m, shape) \in Place /\ Enters(NoByte, First(m, shape))
<1> DEFINE q == First(m, shape)
<1>1. /\ q.msg = m /\ q.shape = shape /\ q.frame = 1 /\ q.byte = 1
      /\ q \in [msg : Nat, shape : Shapes, frame : Nat, byte : Nat]
  BY DEF First
<1>2. shape \in Seq([end : Nat, ext : Extensions, ctl : BOOLEAN]) /\ shape # <<>>
  BY DebugOutAssumption
<1>3. 1 \in 1 .. Len(shape)
  BY <1>2, FirstOfSeq
<1>4. InFrame(shape, 1) \in Nat
  BY <1>3, ShapeFacts
<1>5. 1 \in 1 .. FrameLen(q)
  <2>1. shape[1].ext \in {0, 2, 8}
    BY <1>3, ShapeFacts DEF Extensions
  <2>2. HeaderLen(q) \in {2, 4, 10} /\ FrameLen(q) = HeaderLen(q) + InFrame(shape, 1)
    BY <1>1, <2>1 DEF FrameLen, HeaderLen
  <2> QED BY <1>4, <2>2
<1> QED BY <1>1, <1>3, <1>5 DEF Place, Enters

LEMMA OnArrive ==
  ASSUME NEW q \in Place \cup {NoByte}, On(q), Arrive
  PROVE  On(q)'
<1>1. /\ sock = "up" /\ sock' = "up" /\ rest # NoByte
      /\ stream' = Append(stream, rest) /\ rest' = After(rest)
  BY DEF Arrive
<1>2. Follow(q, stream) /\ Due(q, stream) \in Place \cup {NoByte}
  BY DuePlace DEF On
<1>3. rest \in Place /\ Enters(Due(q, stream), rest)
  BY <1>1, <1>2 DEF On, Enters
<1>4. Follow(q, stream') /\ Due(q, stream') = After(rest)
  BY <1>1, <1>2, <1>3, FollowAppend
<1> QED BY <1>1, <1>4 DEF On

LEMMA OnPush ==
  ASSUME NEW q, On(q), Push, msgs \in Nat
  PROVE  On(q)'
<1>1. PICK shape \in Shapes : rest' = First(msgs + 1, shape)
  BY DEF Push
<1>2. sock = "up" /\ rest = NoByte /\ UNCHANGED <<sock, stream>>
  BY DEF Push, link
<1>3. rest' \in Place /\ Enters(NoByte, rest')
  BY <1>1, FirstPlace
<1>4. rest \notin Place
  BY <1>2, PlaceFacts
<1>5. Due(q, stream) = NoByte
  BY <1>2, <1>4 DEF On
<1> QED BY <1>2, <1>3, <1>5 DEF On

\* A connection that ends keeps what has arrived, or loses it.
LEMMA OnEnds ==
  ASSUME NEW q, On(q), sock' # "up", stream' \in {stream, <<>>}
  PROVE  On(q)'
<1>1. Follow(q, stream')
  BY FollowEmpty DEF On
<1> QED BY <1>1 DEF On

LEMMA OnRead ==
  ASSUME NEW q, On(q), NEW k \in 1 .. Len(stream),
         stream' = SubSeq(stream, k + 1, Len(stream)), UNCHANGED <<sock, rest>>,
         NEW w, w = After(stream[k])
  PROVE  On(w)'
<1>1. Follow(w, stream') /\ Due(w, stream') = Due(q, stream)
  <2>1. Follow(q, stream)
    BY DEF On
  <2>2. /\ Follow(After(stream[k]), SubSeq(stream, k + 1, Len(stream)))
        /\ Due(After(stream[k]), SubSeq(stream, k + 1, Len(stream))) = Due(q, stream)
    BY <2>1, FollowRest
  <2> QED BY <2>2
<1> QED BY <1>1 DEF On

\* The first byte that is read is the one that is due.
LEMMA OnHead ==
  ASSUME NEW q, On(q), stream # <<>>
  PROVE  /\ stream \in Seq(Place) /\ Len(stream) \in Nat /\ 1 \in 1 .. Len(stream)
         /\ stream[1] \in Place /\ Head(stream) = stream[1]
         /\ Tail(stream) = SubSeq(stream, 2, Len(stream)) /\ Enters(q, stream[1])
<1>1. stream \in Seq(Place)
  BY DEF On, Follow
<1>2. Len(stream) \in Nat /\ 1 \in 1 .. Len(stream)
  BY <1>1
<1>3. stream[1] \in Place
  BY <1>1, <1>2, ElementOfSeq
<1>4. Head(stream) = stream[1] /\ Tail(stream) = SubSeq(stream, 2, Len(stream))
  BY <1>1, <1>2
<1>5. Enters(q, stream[1])
  <2>1. Enters(IF 1 = 1 THEN q ELSE After(stream[1 - 1]), stream[1])
    BY <1>2 DEF On, Follow
  <2> QED BY <2>1
<1> QED BY <1>1, <1>2, <1>3, <1>4, <1>5
-----------------------------------------------------------------------------
(* The server, the connection and the handshake *)

Serves == Answer \/ Push \/ Arrive \/ ServerEnds \/ ServerStarts

\* Only a new connection mends a place that is lost, and undoes the handshake.
LEMMA LostStays ==
  ASSUME Next, ~Reconnect
  PROVE  /\ flaw = "lost" => flaw' = "lost"
         /\ iWSOK' = iWSOK \/ ((TakeResponse \/ NoResponse) /\ iWSOK' = TRUE)
<1>1. CASE Serves \/ cm_debug_out_init \/ cm_debug_out_deinit \/ StillConnected
  BY <1>1 DEF Serves, Answer, Push, Arrive, ServerEnds, ServerStarts, cm_debug_out_init,
     cm_debug_out_deinit, StillConnected
<1>2. CASE SendHandshake \/ TakeResponse \/ NoResponse
  BY <1>2 DEF SendHandshake, TakeResponse, NoResponse, HandshakeEnds
<1>3. CASE Header \/ Length
  BY <1>3 DEF Header, StartRecv, ReadOp, HeaderPauses, ReadBreaks, Length, ReadLen, ReadExt,
     ReadMask
<1>4. CASE Body
  BY <1>4 DEF Body, ReadBody, BodyPauses, MessageEnds, FrameEnds, ResponseEnds
<1>5. CASE Callback
  BY <1>5 DEF Callback, CallbackReturns, cm_debug_out_request, RequestReturns
<1> QED BY <1>1, <1>2, <1>3, <1>4, <1>5, NextParts DEF Outside, Serves

LEMMA ShakenKept ==
  ASSUME Shaken, Modes, Next
  PROVE  Shaken'
<1>1. CASE Serves
  BY <1>1 DEF Serves, Answer, Push, Arrive, ServerEnds, ServerStarts, Shaken
<1>2. CASE Outside /\ ~Serves
  <2>1. CASE cm_debug_out_init \/ cm_debug_out_deinit \/ Reconnect \/ StillConnected
    BY <2>1 DEF cm_debug_out_init, cm_debug_out_deinit, Reconnect, StillConnected, Shaken
  <2>2. CASE SendHandshake \/ TakeResponse \/ NoResponse
    BY <2>2 DEF SendHandshake, TakeResponse, NoResponse, HandshakeEnds, Shaken
  <2> QED BY <1>2, <2>1, <2>2 DEF Outside, Serves
<1>3. CASE Header
  BY <1>3 DEF Header, StartRecv, ReadOp, HeaderPauses, ReadBreaks, Shaken
<1>4. CASE Length
  <2>1. pc \in {"len", "ext", "mask"} /\ iWSOK' = iWSOK
    BY <1>4 DEF Length, ReadLen, ReadExt, ReadMask
  <2>2. pc' \in {"ext", "mask", "body", "crashed"}
    BY <1>4 DEF Length, ReadLen, ReadExt, ReadMask, LengthRead, StartBody
  <2> QED BY <2>1, <2>2 DEF Shaken
<1>5. CASE Body
  BY <1>5 DEF Body, ReadBody, BodyPauses, MessageEnds, FrameEnds, ResponseEnds, Shaken
<1>6. CASE Callback
  BY <1>6 DEF Callback, CallbackReturns, cm_debug_out_request, RequestReturns, Shaken
<1> QED BY <1>1, <1>2, <1>3, <1>4, <1>5, <1>6, NextParts

\* A new connection has shaken no hands, and nothing has come.
LEMMA NewConnection ==
  ASSUME Created, stream' = <<>>, pc' # "handshake"
  PROVE  Greeted'
BY DEF Created, Greeted

\* What ends with the response still does without what came before its last part.
LEMMA EndsJoined ==
  ASSUME NEW d, \E X : d \in Seq(X), NEW t, \E X : t \in Seq(X), t # <<>>, Ends(d \o t)
  PROVE  Ends(t)
<1>1. PICK X, Y : d \in Seq(X) /\ t \in Seq(Y)
  OBVIOUS
<1>2. PICK Z : d \in Seq(Z) /\ t \in Seq(Z)
  <2>1. d \in Seq(X \cup Y) /\ t \in Seq(X \cup Y)
    BY <1>1
  <2> QED BY <2>1
<1>3. Len(d \o t) = Len(d) + Len(t) /\ (d \o t)[Len(d) + Len(t)] = t[Len(t)]
  BY <1>2
<1> QED BY <1>3 DEF Ends

LEMMA EmptyEnds == ~Ends(<<>>)
BY DEF Ends

LEMMA ResponseFacts ==
  Ends(Response) /\ Response # <<>> /\ IsReply(Reply(ResponseLen)) /\ After(Reply(ResponseLen)) = NoByte
<1>1. ResponseLen \in Nat /\ ResponseLen >= 1
  BY DebugOutAssumption
<1>2. Response \in Seq({Reply(k) : k \in 1 .. ResponseLen}) /\ Len(Response) = ResponseLen
  BY <1>1 DEF Response
<1>3. Response # <<>> /\ Response[Len(Response)] = Reply(ResponseLen)
  BY <1>1, <1>2 DEF Response
<1>4. Reply(ResponseLen).frame = 0 /\ Reply(ResponseLen).byte = ResponseLen
  BY DEF Reply, NoByte
<1>5. IsReply(Reply(ResponseLen))
  BY <1>1, <1>4 DEF IsReply
<1>6. After(Reply(ResponseLen)) = NoByte
  BY <1>1, <1>4, <1>5 DEF After
<1> QED BY <1>3, <1>5, <1>6 DEF Ends

\* Before the handshake is over, only the response makes the server write.
LEMMA GreetedKept ==
  ASSUME BufferInv, Greeted, Outside, ~iWSOK'
  PROVE  Greeted'
<1>1. \E X : stream \in Seq(X)
  BY DEF BufferInv, Sequenced
<1>2. msgs \in Nat
  BY DebugOutAssumption DEF BufferInv, TypeOK, Counters
<1>3. CASE Answer
  <2>1. /\ sock = "up" /\ UNCHANGED <<stream, data, pc>>
        /\ sock' = "up" => mode = "http" /\ mode' = "ws"
    BY <1>3 DEF Answer, reader
  <2>2. sock' = "up" => stream' = <<>> /\ (pc' = "handshake" => data' = <<>>)
    BY <2>1 DEF Greeted
  <2>3. sock' = "up" => ~Ends(stream)' /\ (pc' = "handshake" => ~Ends(data)')
    BY <2>2 DEF Ends
  <2> QED BY <2>1, <2>3 DEF Greeted
<1>4. CASE Push
  <2>1. PICK shape \in Shapes : rest' = First(msgs + 1, shape)
    BY <1>4 DEF Push
  <2>2. rest' \in Place /\ Enters(NoByte, rest')
    BY <1>2, <2>1, FirstPlace
  <2>3. sock = "up" /\ mode = "ws" /\ UNCHANGED <<sock, mode, stream>>
    BY <1>4 DEF Push, link
  <2> QED BY <2>2, <2>3 DEF Greeted, Begun
<1>5. CASE Arrive
  <2>1. /\ sock = "up" /\ rest # NoByte /\ UNCHANGED <<sock, mode>>
        /\ stream' = Append(stream, rest) /\ rest' = After(rest)
    BY <1>5 DEF Arrive
  <2>2. mode = "ws"
    BY <2>1 DEF Greeted
  <2>3. stream' # <<>> /\ stream'[Len(stream')] = rest
    <3>1. PICK X : stream \in Seq(X)
      BY <1>1
    <3>2. stream \in Seq(X \cup {rest})
      BY <3>1
    <3>3. /\ Len(Append(stream, rest)) = Len(stream) + 1 /\ Append(stream, rest) # <<>>
          /\ Append(stream, rest)[Len(stream) + 1] = rest
      BY <3>2
    <3> QED BY <2>1, <3>3
  <2>4. Ends(stream)' => Begun'
    <3>1. Ends(stream)' => rest = Reply(ResponseLen)
      BY <2>3 DEF Ends
    <3> QED BY <2>1, <3>1, ResponseFacts DEF Begun
  <2> QED BY <2>1, <2>2, <2>3, <2>4 DEF Greeted
<1>6. CASE ServerEnds \/ ServerStarts
  BY <1>6 DEF ServerEnds, ServerStarts, link, reader, Greeted, Ends, Begun, BufferInv, Written
<1>7. CASE cm_debug_out_init \/ Reconnect
  BY <1>7, NewConnection DEF cm_debug_out_init, Reconnect
<1>8. CASE cm_debug_out_deinit \/ StillConnected
  BY <1>8 DEF cm_debug_out_deinit, StillConnected, server, link, Greeted, Ends, Begun
<1>9. CASE SendHandshake
  <2>1. UNCHANGED <<mode, rest, stream>> /\ data' = <<>> /\ (sock' = "up" => sock = "up")
    BY <1>9 DEF SendHandshake
  <2>2. ~Ends(data)'
    BY <2>1 DEF Ends
  <2> QED BY <2>1, <2>2 DEF Greeted, Ends, Begun
<1>10. CASE TakeResponse \/ NoResponse
  <2>1. /\ UNCHANGED <<mode, rest>> /\ stream' = <<>> /\ (sock' = "up" => sock = "up")
        /\ pc' \in {"handshake", "out"}
        /\ pc' = "handshake" => stream # <<>> /\ data' = data \o stream
    BY <1>10 DEF TakeResponse, NoResponse, HandshakeEnds, server
  <2>2. ~Ends(stream)'
    BY <2>1 DEF Ends
  <2>3. CASE pc' = "out"
    BY <2>1, <2>2, <2>3 DEF Greeted
  <2>4. CASE pc' = "handshake"
    <3>1. Ends(data)' => Ends(stream)
      <4>1. Ends(data)' => Ends(data \o stream)
        BY <2>1, <2>4 DEF Ends
      <4>2. \E X : data \in Seq(X)
        BY DEF BufferInv, Sequenced
      <4> QED BY <1>1, <2>1, <2>4, <4>1, <4>2, EndsJoined
    <3> QED BY <2>1, <2>2, <2>4, <3>1 DEF Greeted, Begun
  <2> QED BY <2>1, <2>3, <2>4
<1> QED BY <1>3, <1>4, <1>5, <1>6, <1>7, <1>8, <1>9, <1>10 DEF Outside

\* When the response has come and no more, what comes next is the first byte of a
\* message.
LEMMA HandshakeStands ==
  ASSUME BufferInv, Greeted, TakeResponse \/ NoResponse, ~iWSOK, iWSOK', flaw' # "lost"
  PROVE  Placed' /\ Standing'
<1>1. /\ pc = "handshake" /\ pc' = "ready" /\ stream' = <<>> /\ UNCHANGED <<mode, rest>>
      /\ sock' = "up" => sock = "up"
  BY DEF TakeResponse, NoResponse, HandshakeEnds, server
<1>2. sock' = "up" => mode = "ws" /\ Begun
  <2>1. CASE TakeResponse
    <3>1. stream # <<>> /\ data \o stream = Response
      BY <2>1 DEF TakeResponse, HandshakeEnds
    <3>2. Ends(stream)
      <4>1. (\E X : data \in Seq(X)) /\ (\E X : stream \in Seq(X))
        BY DEF BufferInv, Sequenced
      <4>2. Ends(data \o stream)
        BY <3>1, ResponseFacts
      <4> QED BY <3>1, <4>1, <4>2, EndsJoined
    <3> QED BY <1>1, <3>1, <3>2 DEF Greeted
  <2>2. CASE NoResponse
    <3>1. stream = <<>> /\ data = Response
      BY <2>2 DEF NoResponse, HandshakeEnds
    <3>2. data # <<>> /\ Ends(data)
      BY <3>1, ResponseFacts
    <3> QED BY <1>1, <3>1, <3>2 DEF Greeted
  <2> QED BY <2>1, <2>2
<1>3. Follow(NoByte, stream') /\ Due(NoByte, stream') = NoByte
  BY <1>1, FollowEmpty
<1>4. On(NoByte)'
  BY <1>1, <1>2, <1>3 DEF On, Begun
<1>5. Outer'
  <2>1. Starts(NoByte) /\ Fresh(NoByte)
    BY DEF Starts, Fresh
  <2> QED BY <1>1, <1>4, <2>1 DEF Outer
<1> QED BY <1>1, <1>2, <1>5 DEF Placed, Standing

\* The server writes on from where it is, and what it leaves unfinished is the last.
LEMMA OnServed ==
  ASSUME NEW q \in Place \cup {NoByte}, On(q), BufferInv, Placed, Serves
  PROVE  On(q)'
<1>1. CASE Answer
  <2>1. sock' # "up" /\ stream' = stream
    BY <1>1 DEF Answer, Placed
  <2> QED BY <2>1, OnEnds
<1>2. CASE Push
  <2>1. msgs \in Nat
    BY DebugOutAssumption DEF BufferInv, TypeOK, Counters
  <2> QED BY <1>2, <2>1, OnPush
<1>3. CASE Arrive
  BY <1>3, OnArrive
<1>4. CASE ServerEnds
  <2>1. sock' # "up" /\ stream' \in {stream, <<>>}
    BY <1>4 DEF ServerEnds, link
  <2> QED BY <2>1, OnEnds
<1>5. CASE ServerStarts
  BY <1>5 DEF ServerStarts, link, On
<1> QED BY <1>1, <1>2, <1>3, <1>4, <1>5 DEF Serves

LEMMA NeedFacts ==
  ASSUME BufferInv
  PROVE  need \in Nat
BY IntsFacts DEF BufferInv, TypeOK, Lengths, Heads

LEMMA ServesStands ==
  ASSUME BufferInv, Placed, Standing, Serves
  PROVE  Placed' /\ Standing'
<1>1. UNCHANGED <<pc, flaw, head, need, data>>
  BY DEF Serves, Answer, Push, Arrive, ServerEnds, ServerStarts, reader
<1>2. Placed' /\ (Dead => Dead')
  BY DEF Serves, Answer, Push, Arrive, ServerEnds, ServerStarts, link, Placed, Dead
<1>3. \A q \in Place \cup {NoByte} : On(q) => On(q)'
  BY OnServed
<1>4. \A p, c : Gathered(p, c) => Gathered(p, c)'
  BY <1>1 DEF Gathered
<1>5. CASE Outer
  <2>1. PICK q \in Place \cup {NoByte} : Starts(q) /\ On(q) /\ (flaw = "none" => Fresh(q))
    BY <1>5 DEF Outer
  <2>2. On(q)'
    BY <1>3, <2>1
  <2> QED BY <1>1, <1>2, <1>5, <2>1, <2>2 DEF Outer, Standing
<1>6. CASE AtFrame
  <2>1. PICK q \in Place \cup {NoByte} : Starts(q) /\ On(q) /\ (flaw = "none" => Kept(q))
    BY <1>6 DEF AtFrame
  <2>2. On(q)' /\ (Kept(q) => Kept(q)')
    BY <1>1, <1>3, <1>4, <2>1 DEF Kept
  <2> QED BY <1>1, <1>2, <1>6, <2>1, <2>2 DEF AtFrame, Standing
<1>7. CASE InHeader
  <2>1. PICK p \in Place :
          /\ p.byte = (IF pc = "len" THEN 2 ELSE 3) /\ p.byte =< HeaderLen(p)
          /\ On(p) /\ head.fin = Fin(p) /\ (flaw = "none" => ~Control(p) /\ Kept(p))
          /\ pc = "ext" => ~head.mask /\ HeaderLen(p) = 2 + head.ext
    BY <1>7 DEF InHeader
  <2>2. On(p)' /\ (Kept(p) => Kept(p)')
    BY <1>1, <1>3, <1>4, <2>1 DEF Kept
  <2> QED BY <1>1, <1>2, <1>7, <2>1, <2>2 DEF InHeader, Standing
<1>8. CASE InBody
  <2>1. PICK p \in Place :
          /\ need =< InFrame(p.shape, p.frame) /\ head.fin = Fin(p) /\ On(Ahead(p, need))
          /\ flaw = "none" => ~Control(p)
          /\ flaw = "none" =>
               Gathered(p, Before(p.shape, p.frame) + InFrame(p.shape, p.frame) - need)
    BY <1>8 DEF InBody
  <2>2. PICK q : q = Ahead(p, need)
    OBVIOUS
  <2>3. need \in Nat
    BY NeedFacts
  <2>4. q \in Place \cup {NoByte}
    BY <2>1, <2>2, <2>3, AheadPlace
  <2>5. On(q)' /\ q = Ahead(p, need')
    BY <1>1, <1>3, <2>1, <2>2, <2>4
  <2>6. On(Ahead(p, need))'
    BY <2>5 DEF On
  <2>7. flaw' = "none" =>
          Gathered(p, Before(p.shape, p.frame) + InFrame(p.shape, p.frame) - need)'
    BY <1>1, <2>1 DEF Gathered
  <2>8. /\ need' =< InFrame(p.shape, p.frame) /\ head'.fin = Fin(p)
        /\ pc' = "body" /\ (flaw' = "none" => ~Control(p))
    BY <1>1, <1>8, <2>1 DEF InBody
  <2> QED BY <1>2, <2>6, <2>7, <2>8 DEF InBody, Standing
<1>9. CASE AtEnd /\ pc = "callback"
  <2>1. PICK q \in Place \cup {NoByte} : Starts(q) /\ On(q) /\ (flaw = "none" => q = NoByte)
    BY <1>9 DEF AtEnd
  <2>2. flaw = "none" => data # <<>> /\ \E p \in Place : Gathered(p, Size(p.shape))
    BY <1>9 DEF AtEnd
  <2>3. On(q)'
    BY <1>3, <2>1
  <2>4. flaw' = "none" => data' # <<>> /\ \E p \in Place : Gathered(p, Size(p.shape))'
    BY <1>1, <1>4, <2>2
  <2> QED BY <1>1, <1>2, <1>9, <2>1, <2>3, <2>4 DEF AtEnd, Standing
<1>10. CASE AtEnd /\ pc = "response"
  <2>1. PICK q \in Place \cup {NoByte} :
          Starts(q) /\ On(q) /\ (flaw = "none" /\ head.fin => q = NoByte)
    BY <1>10 DEF AtEnd
  <2>2. flaw = "none" => \E p \in Place : Gathered(p, Len(data))
    BY <1>10 DEF AtEnd
  <2>3. On(q)'
    BY <1>3, <2>1
  <2>4. flaw' = "none" => \E p \in Place : Gathered(p, Len(data))'
    BY <1>1, <2>2 DEF Gathered
  <2> QED BY <1>1, <1>2, <1>10, <2>1, <2>3, <2>4 DEF AtEnd, Standing
<1> QED BY <1>2, <1>5, <1>6, <1>7, <1>8, <1>9, <1>10 DEF Standing, AtEnd
-----------------------------------------------------------------------------
(* The header of a frame *)

LEMMA GatheredSame ==
  ASSUME NEW p, NEW q, q.msg = p.msg, q.shape = p.shape, NEW c, Gathered(p, c), data' = data
  PROVE  Gathered(q, c)'
BY DEF Gathered

LEMMA GatheredNone ==
  ASSUME NEW q, data' = <<>>
  PROVE  Gathered(q, 0)'
<1>1. Len(data') = 0 /\ 1 .. 0 = {}
  BY EmptyIsSequence
<1> QED BY <1>1 DEF Gathered

\* What is due is read, byte by byte.
LEMMA OnTail ==
  ASSUME NEW q, On(q), stream # <<>>, stream' = Tail(stream), UNCHANGED <<sock, rest>>,
         NEW e, e = stream[1], NEW w, w = After(e)
  PROVE  e \in Place /\ Head(stream) = e /\ Enters(q, e) /\ On(w)'
<1>1. /\ Len(stream) \in Nat /\ 1 \in 1 .. Len(stream) /\ stream[1] \in Place
      /\ Head(stream) = stream[1] /\ Tail(stream) = SubSeq(stream, 2, Len(stream))
      /\ Enters(q, stream[1])
  BY OnHead
<1>2. stream' = SubSeq(stream, 1 + 1, Len(stream))
  BY <1>1
<1>3. On(w)'
  BY <1>1, <1>2, OnRead
<1> QED BY <1>1, <1>3

LEMMA StartRecvStands ==
  ASSUME Standing, StartRecv
  PROVE  Standing'
<1>1. /\ pc = "ready" /\ pc' = "op" /\ data' = <<>>
      /\ UNCHANGED <<sock, stream, rest, flaw>>
  BY DEF StartRecv, server, link
<1>2. CASE Dead
  BY <1>1, <1>2 DEF Dead, Standing
<1>3. CASE Outer
  <2>1. PICK q \in Place \cup {NoByte} : Starts(q) /\ On(q) /\ (flaw = "none" => Fresh(q))
    BY <1>3 DEF Outer
  <2>2. On(q)'
    BY <1>1, <2>1 DEF On
  <2>3. ASSUME Fresh(q) PROVE Kept(q)'
    BY <1>1, <2>3, GatheredNone DEF Fresh, Kept
  <2> QED BY <1>1, <2>1, <2>2, <2>3 DEF AtFrame, Standing
<1> QED BY <1>1, <1>2, <1>3 DEF Standing, AtFrame, InHeader, InBody, AtEnd

LEMMA ReadOpStands ==
  ASSUME Standing, ReadOp, flaw' # "lost"
  PROVE  Standing'
<1>1. /\ pc = "op" /\ pc' = "len" /\ stream # <<>> /\ stream' = Tail(stream)
      /\ UNCHANGED <<sock, rest, data>>
  BY DEF ReadOp, server
<1>2. AtFrame
  BY <1>1 DEF Standing, Outer, InHeader, InBody, AtEnd, Dead
<1>3. PICK q \in Place \cup {NoByte} : Starts(q) /\ On(q) /\ (flaw = "none" => Kept(q))
  BY <1>2 DEF AtFrame
<1>4. PICK e, p : e = stream[1] /\ p = After(e)
  OBVIOUS
<1>5. e \in Place /\ Head(stream) = e /\ Enters(q, e) /\ On(p)'
  BY <1>1, <1>3, <1>4, OnTail
<1>6. e.byte = 1
  BY <1>3, <1>5 DEF Enters, Starts
<1>7. 1 < FrameLen(e) /\ 2 \in 1 .. FrameLen(e) /\ 2 =< HeaderLen(e)
  <2>1. PICK h \in {2, 4, 10}, n \in Nat :
          h = HeaderLen(e) /\ n = InFrame(e.shape, e.frame) /\ FrameLen(e) = h + n
    BY <1>5, PlaceFacts
  <2> QED BY <2>1
<1>8. p = [e EXCEPT !.byte = 2]
  BY <1>4, <1>5, <1>6, <1>7, AfterPlace
<1>9. /\ p \in Place /\ p.byte = 2 /\ p.msg = e.msg /\ p.shape = e.shape /\ p.frame = e.frame
      /\ HeaderLen(p) = HeaderLen(e)
  BY <1>5, <1>7, <1>8, SameFrame
<1>10. /\ head'.fin = Fin(p)
       /\ flaw' = "none" => ~Control(e) /\ ((e.frame = 1 /\ data = <<>>) \/ flaw = "none")
  <2>1. Kind(e) = "op"
    BY <1>5, <1>6, KindFacts
  <2>2. PICK fin \in BOOLEAN : /\ Kind(e) = "op" => fin = Fin(e)
                               /\ head' = [NoHead EXCEPT !.fin = fin]
    BY <1>5 DEF ReadOp
  <2>3. head'.fin = Fin(e)
    BY <2>1, <2>2, HeadFacts
  <2>4. flaw' = IF flaw = "lost" \/ Kind(e) # "op" THEN flaw
                ELSE IF Control(e) THEN "parted"
                ELSE IF e.frame = 1 /\ data = <<>> THEN "none" ELSE flaw
    BY <1>5 DEF ReadOp
  <2>5. Fin(e) = Fin(p)
    BY <1>9 DEF Fin, Control
  <2> QED BY <2>1, <2>3, <2>4, <2>5
<1>11. ASSUME Kept(q)
       PROVE  Kept(p)'
  <2>1. p # NoByte
    BY <1>9, PlaceFacts
  <2>2. CASE q = NoByte
    <3>1. data' = <<>> /\ e.frame = 1
      BY <1>1, <1>5, <1>11, <2>2 DEF Kept, Enters
    <3>2. Before(p.shape, p.frame) = 0
      BY <1>9, <3>1 DEF Before
    <3> QED BY <2>1, <3>1, <3>2, GatheredNone DEF Kept
  <2>3. CASE q # NoByte
    <3>1. e = q /\ Gathered(e, Before(e.shape, e.frame))
      BY <1>5, <1>11, <2>3 DEF Kept, Enters
    <3>2. Gathered(p, Before(p.shape, p.frame))'
      BY <1>1, <1>9, <3>1, GatheredSame
    <3> QED BY <2>1, <3>2 DEF Kept
  <2> QED BY <2>2, <2>3
<1>12. ASSUME e.frame = 1, data = <<>>
       PROVE  Kept(p)'
  <2>1. p # NoByte
    BY <1>9, PlaceFacts
  <2>2. Before(p.shape, p.frame) = 0
    BY <1>9, <1>12 DEF Before
  <2>3. Gathered(p, 0)'
    BY <1>1, <1>12, GatheredNone
  <2> QED BY <2>1, <2>2, <2>3 DEF Kept
<1>13. InHeader'
  <2>1. flaw' = "none" => ~Control(p) /\ Kept(p)'
    <3>1. Control(p) = Control(e)
      BY <1>9 DEF Control
    <3> QED BY <1>3, <1>10, <1>11, <1>12, <3>1
  <2>2. p.byte =< HeaderLen(p)
    BY <1>7, <1>9
  <2> QED BY <1>1, <1>5, <1>9, <1>10, <2>1, <2>2 DEF InHeader
<1> QED BY <1>13 DEF Standing

\* A body starts where the header ends.
LEMMA StartBodyStands ==
  ASSUME NEW p \in Place, p.byte = HeaderLen(p), NEW w, w = After(p), On(w)', Sequenced,
         NEW h, StartBody(h), h.n = InFrame(p.shape, p.frame), h.fin = Fin(p),
         flaw' = "none" => ~Control(p),
         flaw' = "none" => Gathered(p, Before(p.shape, p.frame))'
  PROVE  InBody'
<1>1. InFrame(p.shape, p.frame) \in Nat /\ Before(p.shape, p.frame) \in Nat
  BY PlaceFacts
<1>2. pc' = "body" /\ need' = InFrame(p.shape, p.frame) /\ head'.fin = Fin(p)
  <2>1. PICK n : n = h.n
    OBVIOUS
  <2>2. n \in Nat /\ Len(data) \in Nat
    BY <1>1, <2>1, SplitSequence DEF Sequenced
  <2>3. ~Crashes(n)
    BY <2>2 DEF Crashes
  <2>4. pc' = "body" /\ head' = h /\ need' = (IF n > 0 THEN n ELSE 0)
    BY <2>1, <2>3 DEF StartBody
  <2>5. need' = n
    BY <2>2, <2>4
  <2> QED BY <2>1, <2>4, <2>5
<1>3. w = Ahead(p, need')
  BY <1>2, HeaderEnds
<1>4. On(Ahead(p, need))'
  BY <1>3 DEF On
<1>5. Before(p.shape, p.frame) + InFrame(p.shape, p.frame) - need' = Before(p.shape, p.frame)
  BY <1>1, <1>2
<1>6. flaw' = "none" =>
        Gathered(p, Before(p.shape, p.frame) + InFrame(p.shape, p.frame) - need)'
  BY <1>5 DEF Gathered
<1>7. need' =< InFrame(p.shape, p.frame)
  BY <1>1, <1>2
<1> QED BY <1>2, <1>4, <1>6, <1>7 DEF InBody

LEMMA ReadLenStands ==
  ASSUME BufferInv, Standing, ReadLen
  PROVE  Standing'
<1>1. /\ pc = "len" /\ stream # <<>> /\ stream' = Tail(stream)
      /\ UNCHANGED <<sock, rest, flaw, data>>
  BY DEF ReadLen, server
<1>2. InHeader
  BY <1>1 DEF Standing, Outer, AtFrame, InBody, AtEnd, Dead
<1>3. PICK p \in Place :
        /\ p.byte = 2 /\ p.byte =< HeaderLen(p)
        /\ On(p) /\ head.fin = Fin(p) /\ (flaw = "none" => ~Control(p) /\ Kept(p))
  BY <1>1, <1>2 DEF InHeader
<1>4. /\ p # NoByte /\ HeaderLen(p) \in {2, 4, 10} /\ FrameLen(p) >= HeaderLen(p)
      /\ FrameLen(p) \in Nat
  BY PlaceFacts
<1>5. PICK e, w : e = stream[1] /\ w = After(e)
  OBVIOUS
<1>6. e = p /\ Head(stream) = p /\ On(w)'
  BY <1>1, <1>3, <1>4, <1>5, OnTail DEF Enters
<1>7. Kind(p) = "len"
  BY <1>3, KindFacts
<1>8. head \in Heads /\ Sequenced
  BY DEF BufferInv, TypeOK, Lengths
<1>9. HeaderLen(p) = 2 + p.shape[p.frame].ext
  BY DEF HeaderLen
<1>10. PICK ext \in Extensions, n \in Ints(0) :
         /\ ext = p.shape[p.frame].ext
         /\ ext = 0 => n = InFrame(p.shape, p.frame)
         /\ \/ ext > 0 /\ pc' = "ext" /\ head' = [head EXCEPT !.ext = ext, !.mask = FALSE]
            \/ ext = 0 /\ LengthRead([head EXCEPT !.mask = FALSE, !.n = n])
  <2>1. PICK ext \in Extensions, mask \in BOOLEAN, n \in Ints(0) :
           /\ Kind(p) = "len" => /\ ext = p.shape[p.frame].ext /\ ~mask
                                 /\ ext = 0 => n = InFrame(p.shape, p.frame)
           /\ \/ /\ ext > 0 /\ pc' = "ext"
                 /\ head' = [head EXCEPT !.ext = ext, !.mask = mask]
              \/ ext = 0 /\ LengthRead([head EXCEPT !.mask = mask, !.n = n])
    BY <1>6 DEF ReadLen
  <2>2. mask = FALSE
    BY <1>7, <2>1
  <2> QED BY <1>7, <2>1, <2>2
<1>11. flaw = "none" => Gathered(p, Before(p.shape, p.frame))
  BY <1>3, <1>4 DEF Kept
<1>12. CASE ext = 0
  <2>1. PICK h : h = [head EXCEPT !.mask = FALSE, !.n = n]
    OBVIOUS
  <2>2. h.fin = Fin(p) /\ ~h.mask /\ h.n = InFrame(p.shape, p.frame)
    BY <1>3, <1>8, <1>10, <1>12, <2>1 DEF Heads
  <2>3. StartBody(h)
    <3>1. LengthRead(h)
      BY <1>10, <1>12, <2>1
    <3> QED BY <2>2, <3>1 DEF LengthRead
  <2>4. p.byte = HeaderLen(p)
    BY <1>3, <1>9, <1>10, <1>12
  <2>5. flaw' = "none" => Gathered(p, Before(p.shape, p.frame))'
    BY <1>1, <1>11, GatheredSame
  <2>6. InBody'
    BY <1>1, <1>3, <1>5, <1>6, <1>8, <2>2, <2>3, <2>4, <2>5, StartBodyStands
  <2> QED BY <2>6 DEF Standing
<1>13. CASE ext # 0
  <2>1. /\ pc' = "ext" /\ head'.fin = Fin(p) /\ head'.ext = ext /\ ~head'.mask
        /\ ext \in {2, 8}
    BY <1>3, <1>8, <1>10, <1>13 DEF Heads, Extensions
  <2>2. p.byte < FrameLen(p) /\ p.byte + 1 = 3 /\ 3 \in 1 .. FrameLen(p) /\ 3 =< HeaderLen(p)
    BY <1>3, <1>4, <1>9, <1>10, <2>1
  <2>3. w = [p EXCEPT !.byte = 3]
    BY <1>5, <1>6, <2>2, AfterPlace
  <2>4. /\ w \in Place /\ w.byte = 3 /\ w.msg = p.msg /\ w.shape = p.shape
        /\ w.frame = p.frame /\ HeaderLen(w) = HeaderLen(p)
    BY <2>2, <2>3, SameFrame
  <2>5. w # NoByte
    BY <2>4, PlaceFacts
  <2>6. flaw' = "none" => ~Control(w) /\ Kept(w)'
    <3>1. flaw' = "none" => Gathered(w, Before(w.shape, w.frame))'
      BY <1>1, <1>11, <2>4, GatheredSame
    <3>2. Control(w) = Control(p)
      BY <2>4 DEF Control
    <3> QED BY <1>1, <1>3, <2>5, <3>1, <3>2 DEF Kept
  <2>7. head'.fin = Fin(w)
    BY <2>1, <2>4 DEF Fin, Control
  <2>8. w.byte =< HeaderLen(w) /\ HeaderLen(w) = 2 + head'.ext
    BY <1>9, <1>10, <2>1, <2>2, <2>4
  <2> QED BY <1>6, <2>1, <2>4, <2>6, <2>7, <2>8 DEF InHeader, Standing
<1> QED BY <1>12, <1>13

\* A set of natural numbers that is not empty has a least one.
LEMMA LeastNumber ==
  ASSUME NEW S, S \subseteq Nat, S # {}
  PROVE  \E x \in S : \A y \in S : ~(y < x)
<1> DEFINE R == {p \in Nat \X Nat : p[1] < p[2]}
<1>1. IsWellFoundedOn(R, Nat)
  BY NatLessThanWellFounded DEF OpToRel
<1>2. \A a, b \in Nat : a < b => <<a, b>> \in R
  OBVIOUS
<1> HIDE DEF R
<1>3. \E x \in S : \A y \in S : ~(<<y, x>> \in R)
  BY <1>1, WFMin
<1> QED BY <1>2, <1>3

LEMMA FirstOfPart ==
  ASSUME NEW X, NEW s \in Seq(X), NEW k \in 1 .. Len(s)
  PROVE  SubSeq(s, 1, k)[1] = s[1]
OBVIOUS

\* The bytes of an extended length, one after the other
LEMMA HeaderBytes ==
  ASSUME NEW p \in Place, p.byte = 3, NEW s, Follow(p, s), NEW k \in 1 .. Len(s),
         k + 2 =< HeaderLen(p)
  PROVE  \A i \in 1 .. k : s[i] = [p EXCEPT !.byte = i + 2]
<1>1. /\ Len(s) \in Nat /\ k \in Nat /\ HeaderLen(p) \in {2, 4, 10}
      /\ FrameLen(p) \in Nat /\ HeaderLen(p) =< FrameLen(p) /\ p # NoByte
      /\ p = [p EXCEPT !.byte = 3]
  <2>1. s \in Seq(Place)
    BY DEF Follow
  <2>2. Len(s) \in Nat /\ k \in Nat
    BY <2>1
  <2>3. p = [msg |-> p.msg, shape |-> p.shape, frame |-> p.frame, byte |-> p.byte]
    BY PlaceFacts
  <2>4. p = [p EXCEPT !.byte = 3]
    BY <2>3
  <2> QED BY <2>2, <2>4, PlaceFacts
<1>2. ASSUME NEW i \in 1 .. k, \A j \in 1 .. k : j < i => s[j] = [p EXCEPT !.byte = j + 2]
      PROVE  s[i] = [p EXCEPT !.byte = i + 2]
  <2>1. i \in 1 .. Len(s) /\ i + 2 \in 1 .. FrameLen(p)
    BY <1>1
  <2>2. Enters(IF i = 1 THEN p ELSE After(s[i - 1]), s[i])
    BY <2>1 DEF Follow
  <2>3. CASE i = 1
    <3>1. i + 2 = 3
      BY <2>3
    <3>2. s[i] = p
      BY <1>1, <2>2, <2>3 DEF Enters
    <3> QED BY <1>1, <3>1, <3>2
  <2>4. CASE i # 1
    <3>1. /\ i - 1 \in 1 .. k /\ i - 1 < i /\ (i - 1) + 2 = i + 1 /\ (i + 1) + 1 = i + 2
          /\ i + 1 \in 1 .. FrameLen(p) /\ i + 1 < FrameLen(p)
      BY <1>1, <2>1, <2>4
    <3>2. PICK q : q = [p EXCEPT !.byte = i + 1]
      OBVIOUS
    <3>3. s[i - 1] = q
      BY <1>2, <3>1, <3>2
    <3>4. q \in Place /\ q.byte = i + 1 /\ FrameLen(q) = FrameLen(p)
      BY <3>1, <3>2, SameFrame
    <3>5. After(q) = [q EXCEPT !.byte = i + 2]
      BY <3>1, <3>4, AfterPlace
    <3>6. After(q) = [p EXCEPT !.byte = i + 2]
      BY <3>2, <3>5
    <3>7. [p EXCEPT !.byte = i + 2] # NoByte
      BY <2>1, SameFrame, PlaceFacts
    <3> QED BY <2>2, <2>4, <3>3, <3>6, <3>7 DEF Enters
  <2> QED BY <2>3, <2>4
<1>3. SUFFICES ASSUME \E i \in 1 .. k : s[i] # [p EXCEPT !.byte = i + 2]
               PROVE  FALSE
  OBVIOUS
<1>4. PICK S : S = {i \in 1 .. k : s[i] # [p EXCEPT !.byte = i + 2]}
  OBVIOUS
<1>5. S \subseteq Nat /\ S # {}
  BY <1>1, <1>3, <1>4
<1>6. PICK i \in S : \A j \in S : ~(j < i)
  BY <1>5, LeastNumber
<1>7. \A j \in 1 .. k : j < i => s[j] = [p EXCEPT !.byte = j + 2]
  BY <1>4, <1>6
<1> QED BY <1>2, <1>4, <1>6, <1>7

\* When all bytes of the extended length have come, the body starts.
LEMMA ReadExtStands ==
  ASSUME BufferInv, Standing, ReadExt, flaw' # "lost"
  PROVE  Standing'
<1>1. pc = "ext" /\ stream # <<>> /\ UNCHANGED <<sock, rest, data>>
  BY DEF ReadExt, server
<1>2. InHeader
  BY <1>1 DEF Standing, Outer, AtFrame, InBody, AtEnd, Dead
<1>3. PICK p \in Place :
        /\ p.byte = 3 /\ p.byte =< HeaderLen(p)
        /\ On(p) /\ head.fin = Fin(p) /\ (flaw = "none" => ~Control(p) /\ Kept(p))
        /\ ~head.mask /\ HeaderLen(p) = 2 + head.ext
  BY <1>1, <1>2 DEF InHeader
<1>4. head \in Heads /\ Sequenced
  BY DEF BufferInv, TypeOK, Lengths
<1>5. PICK k : k = head.ext
  OBVIOUS
<1>6. /\ k \in {2, 8} /\ HeaderLen(p) = 2 + k /\ p # NoByte
      /\ FrameLen(p) \in Nat /\ HeaderLen(p) =< FrameLen(p)
  BY <1>3, <1>4, <1>5, PlaceFacts DEF Heads, Extensions
<1>7. stream \in Seq(Place) /\ Len(stream) \in Nat /\ Follow(p, stream)
  BY <1>3 DEF On, Follow
<1>8. Reads(k) \in 0 .. Len(stream)
  BY <1>6, <1>7 DEF Reads
<1>9. PICK bytes : bytes = SubSeq(stream, 1, Reads(k))
  OBVIOUS
<1>10. Len(bytes) = Reads(k)
  BY <1>7, <1>8, <1>9
<1>11. /\ stream' = SubSeq(stream, Len(bytes) + 1, Len(stream))
       /\ Whole(bytes) /\ flaw' = flaw
       /\ LengthRead([head EXCEPT !.n = InFrame(bytes[1].shape, bytes[1].frame)])
  BY <1>5, <1>9 DEF ReadExt
<1>12. Reads(k) = k /\ k \in 1 .. Len(stream) /\ 1 \in 1 .. Len(stream)
  <2>1. Reads(k) = k
    BY <1>5, <1>10, <1>11 DEF Whole
  <2>2. PICK l \in Nat : l = Len(stream)
    BY <1>7
  <2>3. k \in 0 .. l
    BY <1>8, <2>1, <2>2
  <2>4. k \in 1 .. l /\ 1 \in 1 .. l
    BY <1>6, <2>2, <2>3
  <2> QED BY <2>1, <2>2, <2>4
<1>13. bytes[1] = p
  <2>1. bytes[1] = stream[1]
    <3>1. bytes = SubSeq(stream, 1, k)
      BY <1>9, <1>12
    <3> QED BY <1>7, <1>12, <3>1, FirstOfPart
  <2>2. stream[1] = p
    BY <1>1, <1>3, <1>6, OnHead DEF Enters
  <2> QED BY <2>1, <2>2
<1>14. PICK q, w : q = stream[k] /\ w = After(q)
  OBVIOUS
<1>15. q = [p EXCEPT !.byte = k + 2]
  <2>1. \A i \in 1 .. k : stream[i] = [p EXCEPT !.byte = i + 2]
    <3>1. k + 2 =< HeaderLen(p)
      BY <1>6
    <3> QED BY <1>3, <1>7, <1>12, <3>1, HeaderBytes
  <2>2. k \in 1 .. k
    BY <1>6
  <2> QED BY <1>14, <2>1, <2>2
<1>16. /\ q \in Place /\ q.byte = HeaderLen(q) /\ q.msg = p.msg /\ q.shape = p.shape
       /\ q.frame = p.frame
  <2>1. k + 2 \in 1 .. FrameLen(p) /\ k + 2 = HeaderLen(p)
    BY <1>6
  <2> QED BY <1>15, <2>1, SameFrame
<1>17. On(w)'
  <2>1. stream' = SubSeq(stream, k + 1, Len(stream))
    BY <1>10, <1>11, <1>12
  <2> QED BY <1>1, <1>3, <1>12, <1>14, <2>1, OnRead
<1>18. PICK h : h = [head EXCEPT !.n = InFrame(q.shape, q.frame)]
  OBVIOUS
<1>19. h.fin = Fin(q) /\ ~h.mask /\ h.n = InFrame(q.shape, q.frame)
  <2>1. Fin(q) = Fin(p)
    BY <1>16 DEF Fin, Control
  <2> QED BY <1>3, <1>4, <1>18, <2>1 DEF Heads
<1>20. StartBody(h)
  <2>1. LengthRead(h)
    BY <1>11, <1>13, <1>16, <1>18
  <2> QED BY <1>19, <2>1 DEF LengthRead
<1>21. flaw' = "none" => ~Control(q)
  BY <1>3, <1>11, <1>16 DEF Control
<1>22. flaw' = "none" => Gathered(q, Before(q.shape, q.frame))'
  <2>1. flaw = "none" => Gathered(p, Before(p.shape, p.frame))
    BY <1>3, <1>6 DEF Kept
  <2> QED BY <1>1, <1>11, <1>16, <2>1, GatheredSame
<1>23. InBody'
  BY <1>4, <1>14, <1>16, <1>17, <1>19, <1>20, <1>21, <1>22, StartBodyStands
<1> QED BY <1>23 DEF Standing

\* A pause before a frame loses no byte; it parts the message if some of it is read.
LEMMA HeaderPausesStands ==
  ASSUME Standing, HeaderPauses, flaw' # "lost"
  PROVE  Standing'
<1>1. /\ pc \in {"op", "len", "ext", "mask"} /\ sock = "up" /\ UNCHANGED <<sock, stream, rest, data>>
      /\ pc' \in {"op", "out"}
      /\ flaw' = IF pc # "op" THEN "lost"
                 ELSE IF data # <<>> /\ flaw = "none" THEN "parted" ELSE flaw
  BY DEF HeaderPauses, Pauses, server, link, reader
<1>2. pc = "op"
  BY <1>1
<1>3. AtFrame
  BY <1>1, <1>2 DEF Standing, Outer, InHeader, InBody, AtEnd, Dead
<1>4. PICK q \in Place \cup {NoByte} : Starts(q) /\ On(q) /\ (flaw = "none" => Kept(q))
  BY <1>3 DEF AtFrame
<1>5. On(q)'
  BY <1>1, <1>4 DEF On
<1>6. flaw' = "none" => flaw = "none" /\ data = <<>>
  BY <1>1, <1>2
<1>7. CASE pc' = "op"
  <2>1. flaw' = "none" => Kept(q)'
    BY <1>1, <1>4, <1>6, GatheredSame DEF Kept
  <2> QED BY <1>4, <1>5, <1>7, <2>1 DEF AtFrame, Standing
<1>8. CASE pc' = "out"
  <2>1. flaw' = "none" => Fresh(q)
    <3>1. SUFFICES ASSUME flaw' = "none", q # NoByte
                   PROVE  Before(q.shape, q.frame) = 0
      BY DEF Fresh
    <3>2. Len(data) = Before(q.shape, q.frame) /\ data = <<>>
      BY <1>4, <1>6, <3>1 DEF Kept, Gathered
    <3> QED BY <3>2, EmptyIsSequence, Zenon
  <2> QED BY <1>4, <1>5, <1>8, <2>1 DEF Outer, Standing
<1> QED BY <1>1, <1>7, <1>8

LEMMA ReadBreaksStands ==
  ASSUME ReadBreaks
  PROVE  Standing'
<1>1. pc' = "out" /\ stream' = <<>> /\ sock' = "fin"
  BY DEF ReadBreaks, Breaks
<1> QED BY <1>1 DEF Dead, Standing
-----------------------------------------------------------------------------
(* The body of a frame *)

LEMMA BodyBytes ==
  ASSUME NEW p \in Place, NEW n \in Nat, n > 0, n =< InFrame(p.shape, p.frame),
         NEW s, Follow(Ahead(p, n), s), NEW k \in 1 .. Len(s), k =< n
  PROVE  \A i \in 1 .. k : s[i] = Ahead(p, n - i + 1)
<1>1. Len(s) \in Nat /\ k \in Nat
  BY DEF Follow
<1>2. ASSUME NEW i \in 1 .. k, \A j \in 1 .. k : j < i => s[j] = Ahead(p, n - j + 1)
      PROVE  s[i] = Ahead(p, n - i + 1)
  <2>1. i \in 1 .. Len(s) /\ n - i + 1 \in Nat /\ n - i + 1 > 0 /\ n - i + 1 =< n
    BY <1>1
  <2>2. Enters(IF i = 1 THEN Ahead(p, n) ELSE After(s[i - 1]), s[i])
    BY <2>1 DEF Follow
  <2>3. InFrame(p.shape, p.frame) \in Nat
    BY PlaceFacts
  <2>4. Ahead(p, n - i + 1) # NoByte
    <3>1. n - i + 1 =< InFrame(p.shape, p.frame)
      BY <2>1, <2>3
    <3> QED BY <2>1, <3>1, AheadFacts, PlaceFacts
  <2>5. CASE i = 1
    <3>1. n - i + 1 = n
      BY <2>5
    <3> QED BY <2>2, <2>4, <2>5, <3>1 DEF Enters
  <2>6. CASE i # 1
    <3>1. /\ i - 1 \in 1 .. k /\ i - 1 < i
          /\ n - (i - 1) + 1 \in Nat /\ n - (i - 1) + 1 > 0
          /\ n - (i - 1) + 1 =< InFrame(p.shape, p.frame)
          /\ (n - (i - 1) + 1) - 1 = n - i + 1
      BY <1>1, <2>1, <2>3, <2>6
    <3>2. s[i - 1] = Ahead(p, n - (i - 1) + 1)
      BY <1>2, <3>1
    <3>3. After(s[i - 1]) = Ahead(p, n - i + 1)
      BY <3>1, <3>2, AheadFacts
    <3> QED BY <2>2, <2>4, <2>6, <3>3 DEF Enters
  <2> QED BY <2>5, <2>6
<1>3. SUFFICES ASSUME \E i \in 1 .. k : s[i] # Ahead(p, n - i + 1)
               PROVE  FALSE
  OBVIOUS
<1>4. PICK S : S = {i \in 1 .. k : s[i] # Ahead(p, n - i + 1)}
  OBVIOUS
<1>5. S \subseteq Nat /\ S # {}
  BY <1>1, <1>3, <1>4
<1>6. PICK i \in S : \A j \in S : ~(j < i)
  BY <1>5, LeastNumber
<1>7. \A j \in 1 .. k : j < i => s[j] = Ahead(p, n - j + 1)
  BY <1>4, <1>6
<1> QED BY <1>2, <1>4, <1>6, <1>7

LEMMA PartElements ==
  ASSUME NEW X, NEW s \in Seq(X), NEW k \in 1 .. Len(s)
  PROVE  /\ SubSeq(s, 1, k) \in Seq(X) /\ Len(SubSeq(s, 1, k)) = k
         /\ \A i \in 1 .. k : SubSeq(s, 1, k)[i] = s[i]
OBVIOUS

LEMMA JoinElements ==
  ASSUME NEW X, NEW s \in Seq(X), NEW t \in Seq(X), NEW j \in 1 .. Len(s) + Len(t)
  PROVE  /\ j \in 1 .. Len(s) => (s \o t)[j] = s[j]
         /\ j \notin 1 .. Len(s) => j - Len(s) \in 1 .. Len(t) /\ (s \o t)[j] = t[j - Len(s)]
OBVIOUS

LEMMA CountBack ==
  ASSUME NEW b \in Nat, NEW m \in Nat, NEW n \in Nat, NEW i \in Nat, i >= 1, i =< n, n =< m
  PROVE  /\ n - i + 1 \in Nat /\ n - i + 1 > 0 /\ n - i + 1 =< m
         /\ b + m - (n - i + 1) + 1 = (b + m - n) + i
OBVIOUS

LEMMA AheadOf ==
  ASSUME NEW p \in Place, NEW n \in Nat, n =< InFrame(p.shape, p.frame),
         NEW i \in Nat, i >= 1, i =< n, NEW q, q = Ahead(p, n - i + 1)
  PROVE  /\ q \in Place /\ q.msg = p.msg /\ q.shape = p.shape /\ Kind(q) = "data"
         /\ At(q) = (Before(p.shape, p.frame) + InFrame(p.shape, p.frame) - n) + i
<1>1. InFrame(p.shape, p.frame) \in Nat /\ Before(p.shape, p.frame) \in Nat
  BY PlaceFacts
<1>2. /\ n - i + 1 \in Nat /\ n - i + 1 > 0 /\ n - i + 1 =< InFrame(p.shape, p.frame)
      /\ Before(p.shape, p.frame) + InFrame(p.shape, p.frame) - (n - i + 1) + 1
           = (Before(p.shape, p.frame) + InFrame(p.shape, p.frame) - n) + i
  BY <1>1, CountBack
<1> QED BY <1>2, AheadFacts

\* What is read of a body is put behind what has been read of the message.
LEMMA GatheredMore ==
  ASSUME NEW p \in Place, NEW n \in Nat, n > 0, n =< InFrame(p.shape, p.frame),
         Follow(Ahead(p, n), stream), NEW k \in 1 .. Len(stream), k =< n,
         Sequenced, data' = data \o SubSeq(stream, 1, k),
         Gathered(p, Before(p.shape, p.frame) + InFrame(p.shape, p.frame) - n)
  PROVE  Gathered(p, Before(p.shape, p.frame) + InFrame(p.shape, p.frame) - (n - k))'
<1>1. /\ stream \in Seq(Place) /\ Before(p.shape, p.frame) \in Nat
      /\ InFrame(p.shape, p.frame) \in Nat
  BY PlaceFacts DEF Follow
<1>2. PICK c : c = Before(p.shape, p.frame) + InFrame(p.shape, p.frame) - n
  OBVIOUS
<1>3. /\ c \in Nat /\ k \in Nat
      /\ Before(p.shape, p.frame) + InFrame(p.shape, p.frame) - (n - k) = c + k
  <2>1. PICK l : l = Len(stream)
    OBVIOUS
  <2>2. l \in Nat /\ k \in 1 .. l
    BY <1>1, <2>1
  <2> QED BY <1>1, <1>2, <2>2
<1>4. PICK t : t = SubSeq(stream, 1, k)
  OBVIOUS
<1>5. /\ t \in Seq(Place) /\ Len(t) = k /\ \A i \in 1 .. k : t[i] = stream[i]
  BY <1>1, <1>4, PartElements
<1>6. \A i \in 1 .. k : stream[i] = Ahead(p, n - i + 1)
  BY BodyBytes
<1>7. PICK X : data \in Seq(X) /\ t \in Seq(X)
  <2>1. PICK Y : data \in Seq(Y)
    BY DEF Sequenced
  <2>2. data \in Seq(Y \cup Place) /\ t \in Seq(Y \cup Place)
    BY <1>5, <2>1
  <2> QED BY <2>2
<1>8. /\ Len(data) = c
      /\ \A j \in 1 .. c : /\ data[j] \in Place /\ data[j].msg = p.msg /\ data[j].shape = p.shape
                           /\ Kind(data[j]) = "data" /\ At(data[j]) = j
  BY <1>2 DEF Gathered
<1>9. data' = data \o t /\ Len(data') = c + k
  <2>1. data' = data \o t
    BY <1>4
  <2>2. Len(data \o t) = Len(data) + Len(t)
    BY <1>7, JoinSequences
  <2> QED BY <1>5, <1>8, <2>1, <2>2
<1>10. ASSUME NEW j \in 1 .. c + k
       PROVE  /\ data'[j] \in Place /\ data'[j].msg = p.msg /\ data'[j].shape = p.shape
              /\ Kind(data'[j]) = "data" /\ At(data'[j]) = j
  <2>1. j \in 1 .. Len(data) + Len(t)
    BY <1>5, <1>8
  <2>2. CASE j \in 1 .. c
    <3>1. data'[j] = data[j]
      BY <1>7, <1>8, <1>9, <2>1, <2>2, JoinElements
    <3> QED BY <1>8, <2>2, <3>1
  <2>3. CASE j \notin 1 .. c
    <3>1. j - c \in 1 .. k /\ data'[j] = t[j - c]
      <4>1. j \notin 1 .. Len(data)
        BY <1>8, <2>3
      <4>2. j - Len(data) \in 1 .. Len(t) /\ (data \o t)[j] = t[j - Len(data)]
        BY <1>7, <2>1, <4>1, JoinElements
      <4> QED BY <1>5, <1>8, <1>9, <4>2
    <3>2. PICK i : i = j - c
      OBVIOUS
    <3>3. i \in 1 .. k /\ i \in Nat /\ i >= 1 /\ i =< k /\ j = c + i
      BY <1>3, <3>1, <3>2
    <3>4. data'[j] = Ahead(p, n - i + 1)
      BY <1>5, <1>6, <3>1, <3>2, <3>3
    <3>5. i =< n
      BY <1>3, <3>3
    <3>6. /\ data'[j] \in Place /\ data'[j].msg = p.msg /\ data'[j].shape = p.shape
          /\ Kind(data'[j]) = "data"
          /\ At(data'[j]) = (Before(p.shape, p.frame) + InFrame(p.shape, p.frame) - n) + i
      <4>1. PICK q : q = data'[j]
        OBVIOUS
      <4>2. q = Ahead(p, n - i + 1)
        BY <3>4, <4>1
      <4>3. /\ q \in Place /\ q.msg = p.msg /\ q.shape = p.shape /\ Kind(q) = "data"
            /\ At(q) = (Before(p.shape, p.frame) + InFrame(p.shape, p.frame) - n) + i
        BY <3>3, <3>5, <4>2, AheadOf
      <4> QED BY <4>1, <4>3
    <3> QED BY <1>2, <3>3, <3>6
  <2> QED BY <2>2, <2>3
<1>11. Gathered(p, c + k)'
  BY <1>9, <1>10 DEF Gathered
<1> QED BY <1>3, <1>11

LEMMA ReadBodyStands ==
  ASSUME BufferInv, Standing, ReadBody
  PROVE  Standing'
<1>1. /\ pc = "body" /\ pc' = "body" /\ stream # <<>> /\ UNCHANGED <<sock, rest, flaw, head>>
      /\ data' = data \o SubSeq(stream, 1, Reads(need)) /\ need' = need - Reads(need)
      /\ stream' = SubSeq(stream, Reads(need) + 1, Len(stream))
  BY DEF ReadBody, server
<1>2. need \in Nat /\ need > 0
  BY NeedFacts DEF ReadBody
<1>3. InBody
  BY <1>1 DEF Standing, Outer, AtFrame, InHeader, AtEnd, Dead
<1>4. PICK p \in Place :
        /\ need =< InFrame(p.shape, p.frame) /\ head.fin = Fin(p) /\ On(Ahead(p, need))
        /\ flaw = "none" => ~Control(p)
        /\ flaw = "none" =>
             Gathered(p, Before(p.shape, p.frame) + InFrame(p.shape, p.frame) - need)
  BY <1>3 DEF InBody
<1>5. Follow(Ahead(p, need), stream) /\ stream \in Seq(Place)
  BY <1>4 DEF On, Follow
<1>6. PICK k : k = Reads(need)
  OBVIOUS
<1>7. k \in 1 .. Len(stream) /\ k =< need /\ k \in Nat /\ k >= 1
  <2>1. Len(stream) \in Nat /\ Len(stream) >= 1
    BY <1>1, <1>5
  <2> QED BY <1>2, <1>6, <2>1 DEF Reads
<1>8. PICK q, w : q = Ahead(p, need) /\ w = After(stream[k])
  OBVIOUS
<1>9. On(w)'
  <2>1. On(q) /\ stream' = SubSeq(stream, k + 1, Len(stream))
    BY <1>1, <1>4, <1>6, <1>8
  <2> QED BY <1>1, <1>7, <1>8, <2>1, OnRead
<1>10. w = Ahead(p, need')
  <2>1. k \in 1 .. k
    BY <1>7
  <2>2. stream[k] = Ahead(p, need - k + 1)
    BY <1>2, <1>4, <1>5, <1>7, <2>1, BodyBytes
  <2>3. /\ InFrame(p.shape, p.frame) \in Nat
        /\ need - k + 1 \in Nat /\ need - k + 1 > 0 /\ need - k + 1 =< InFrame(p.shape, p.frame)
        /\ (need - k + 1) - 1 = need'
    BY <1>1, <1>2, <1>4, <1>6, <1>7, PlaceFacts
  <2> QED BY <1>8, <2>2, <2>3, AheadFacts
<1>11. On(Ahead(p, need))'
  BY <1>9, <1>10 DEF On
<1>12. flaw' = "none" =>
         Gathered(p, Before(p.shape, p.frame) + InFrame(p.shape, p.frame) - need)'
  <2>1. PICK n : n = need
    OBVIOUS
  <2>2. ASSUME flaw = "none"
        PROVE  Gathered(p, Before(p.shape, p.frame) + InFrame(p.shape, p.frame) - (n - k))'
    <3>1. /\ Gathered(p, Before(p.shape, p.frame) + InFrame(p.shape, p.frame) - n)
          /\ Follow(Ahead(p, n), stream) /\ data' = data \o SubSeq(stream, 1, k) /\ Sequenced
          /\ n \in Nat /\ n > 0 /\ n =< InFrame(p.shape, p.frame) /\ k =< n
      BY <1>1, <1>2, <1>4, <1>5, <1>6, <1>7, <2>1, <2>2 DEF BufferInv
    <3> QED BY <1>7, <3>1, GatheredMore
  <2>3. need' = n - k
    BY <1>1, <1>6, <2>1
  <2> QED BY <1>1, <2>2, <2>3 DEF Gathered
<1>13. need' =< InFrame(p.shape, p.frame)
  <2>1. InFrame(p.shape, p.frame) \in Nat
    BY PlaceFacts
  <2> QED BY <1>1, <1>2, <1>4, <1>6, <1>7, <2>1
<1>14. InBody'
  BY <1>1, <1>4, <1>11, <1>12, <1>13 DEF InBody
<1> QED BY <1>14 DEF Standing

LEMMA BodyPausesStands ==
  ASSUME Standing, BodyPauses, flaw' # "lost"
  PROVE  Standing'
<1>1. pc = "body" /\ UNCHANGED <<pc, sock, stream, rest, flaw, head, need, data>>
  BY DEF BodyPauses, server, link
<1>2. InBody
  BY <1>1 DEF Standing, Outer, AtFrame, InHeader, AtEnd, Dead
<1>3. InBody'
  BY <1>1, <1>2 DEF InBody, On, Gathered
<1> QED BY <1>3 DEF Standing

\* At the end of a body the next frame is due, and all of this one is read.
LEMMA BodyRead ==
  ASSUME BufferInv, Standing, pc = "body", need = 0
  PROVE  \E p \in Place : \E q \in Place \cup {NoByte} :
            /\ q = NextFrame(p) /\ Starts(q) /\ On(q) /\ head.fin = Fin(p)
            /\ flaw = "none" => ~Control(p)
            /\ flaw = "none" =>
                 Gathered(p, Before(p.shape, p.frame) + InFrame(p.shape, p.frame))
<1>1. InBody
  BY DEF Standing, Outer, AtFrame, InHeader, AtEnd, Dead
<1>2. PICK p \in Place :
        /\ head.fin = Fin(p) /\ On(Ahead(p, 0))
        /\ flaw = "none" => ~Control(p)
        /\ flaw = "none" =>
             Gathered(p, Before(p.shape, p.frame) + InFrame(p.shape, p.frame) - 0)
  BY <1>1 DEF InBody
<1>3. PICK q : q = NextFrame(p)
  OBVIOUS
<1>4. q \in Place \cup {NoByte} /\ Starts(q)
  BY <1>3, NextFrameFacts DEF Starts
<1>5. On(q)
  BY <1>2, <1>3 DEF Ahead
<1>6. Before(p.shape, p.frame) + InFrame(p.shape, p.frame) - 0
        = Before(p.shape, p.frame) + InFrame(p.shape, p.frame)
  BY PlaceFacts
<1> QED BY <1>2, <1>3, <1>4, <1>5, <1>6

LEMMA BodyEndsStands ==
  ASSUME BufferInv, Standing, MessageEnds \/ FrameEnds \/ ResponseEnds
  PROVE  Standing'
<1>1. /\ pc = "body" /\ need = 0 /\ UNCHANGED <<sock, stream, rest, flaw, head, data>>
  BY DEF MessageEnds, FrameEnds, ResponseEnds, server, link, reader
<1>2. PICK p \in Place, q \in Place \cup {NoByte} :
        /\ q = NextFrame(p) /\ Starts(q) /\ On(q) /\ head.fin = Fin(p)
        /\ flaw = "none" => ~Control(p)
        /\ flaw = "none" =>
             Gathered(p, Before(p.shape, p.frame) + InFrame(p.shape, p.frame))
  BY <1>1, BodyRead
<1>3. On(q)'
  BY <1>1, <1>2 DEF On
<1>4. PICK c : c = Before(p.shape, p.frame) + InFrame(p.shape, p.frame)
  OBVIOUS
<1>5. flaw' = "none" => Gathered(p, c)'
  BY <1>1, <1>2, <1>4, GatheredSame
<1>6. CASE MessageEnds
  <2>1. head.fin /\ pc' = IF data # <<>> THEN "callback" ELSE "out"
    BY <1>6 DEF MessageEnds
  <2>2. flaw' = "none" => q = NoByte /\ c = Size(p.shape)
    <3>1. Fin(p) /\ (flaw' = "none" => ~Control(p))
      BY <1>1, <1>2, <2>1
    <3> QED BY <1>2, <1>4, <3>1, NextFrameFacts
  <2>3. CASE data # <<>>
    <3>1. flaw' = "none" => data' # <<>> /\ \E x \in Place : Gathered(x, Size(x.shape))'
      BY <1>1, <1>5, <2>2, <2>3
    <3> QED BY <1>2, <1>3, <2>1, <2>2, <2>3, <3>1 DEF AtEnd, Standing
  <2>4. CASE data = <<>>
    BY <1>2, <1>3, <2>1, <2>2, <2>4 DEF Outer, Fresh, Standing
  <2> QED BY <2>3, <2>4
<1>7. CASE FrameEnds
  <2>1. ~head.fin /\ pc' = "op"
    BY <1>7 DEF FrameEnds
  <2>2. q \in Place /\ q.msg = p.msg /\ q.shape = p.shape /\ Before(q.shape, q.frame) = c
    <3>1. ~Fin(p)
      BY <1>2, <2>1
    <3> QED BY <1>2, <1>4, <3>1, NextFrameFacts
  <2>3. flaw' = "none" => Kept(q)'
    <3>1. flaw = "none" => Gathered(p, c)
      BY <1>2, <1>4
    <3>2. flaw' = "none" => Gathered(q, c)'
      BY <1>1, <2>2, <3>1, GatheredSame
    <3>3. q # NoByte
      BY <2>2, PlaceFacts
    <3> QED BY <2>2, <3>2, <3>3 DEF Kept
  <2> QED BY <1>2, <1>3, <2>1, <2>3 DEF AtFrame, Standing
<1>8. CASE ResponseEnds
  <2>1. pc' = "response"
    BY <1>8 DEF ResponseEnds
  <2>2. flaw' = "none" /\ head'.fin => q = NoByte
    BY <1>1, <1>2, NextFrameFacts
  <2>3. flaw' = "none" => \E x \in Place : Gathered(x, Len(data))'
    <3>1. Gathered(p, c)' => Gathered(p, Len(data))'
      BY DEF Gathered
    <3> QED BY <1>5, <3>1
  <2> QED BY <1>2, <1>3, <2>1, <2>2, <2>3 DEF AtEnd, Standing
<1> QED BY <1>6, <1>7, <1>8
-----------------------------------------------------------------------------
(* What is outside the frames *)

LEMMA CallbackStands ==
  ASSUME Standing, CallbackReturns \/ cm_debug_out_request
  PROVE  Standing'
<1>1. /\ pc = "callback" /\ UNCHANGED <<stream, rest, flaw>>
      /\ sock' = sock \/ sock' # "up"
      /\ pc' = "out" \/ (pc' = "op" /\ data' = <<>>)
  BY DEF CallbackReturns, cm_debug_out_request, server, link
<1>2. PICK q \in Place \cup {NoByte} : Starts(q) /\ On(q) /\ (flaw = "none" => q = NoByte)
  BY <1>1 DEF Standing, Outer, AtFrame, InHeader, InBody, AtEnd, Dead
<1>3. On(q)'
  BY <1>1, <1>2 DEF On
<1>4. CASE pc' = "out"
  BY <1>1, <1>2, <1>3, <1>4 DEF Outer, Fresh, Standing
<1>5. CASE pc' = "op" /\ data' = <<>>
  <2>1. Kept(NoByte)'
    BY <1>5 DEF Kept
  <2>2. flaw' = "none" => Kept(q)'
    BY <1>1, <1>2, <2>1
  <2> QED BY <1>2, <1>3, <1>5, <2>2 DEF AtFrame, Standing
<1> QED BY <1>1, <1>4, <1>5

\* A request that gets the first of several frames for its response parts a message.
LEMMA RequestReturnsStands ==
  ASSUME Standing, RequestReturns
  PROVE  Standing'
<1>1. /\ pc = "response" /\ pc' = "out" /\ UNCHANGED <<sock, stream, rest>>
      /\ flaw' = "none" => flaw = "none" /\ head.fin
  BY DEF RequestReturns, server, link
<1>2. PICK q \in Place \cup {NoByte} :
        Starts(q) /\ On(q) /\ (flaw = "none" /\ head.fin => q = NoByte)
  BY <1>1 DEF Standing, Outer, AtFrame, InHeader, InBody, AtEnd, Dead
<1>3. On(q)' /\ (flaw' = "none" => Fresh(q))
  BY <1>1, <1>2 DEF On, Fresh
<1> QED BY <1>1, <1>2, <1>3 DEF Outer, Standing

LEMMA OuterStands ==
  ASSUME Standing, StillConnected \/ cm_debug_out_deinit
  PROVE  Standing'
<1>1. CASE StillConnected
  <2>1. pc = "out" /\ pc' = "ready" /\ UNCHANGED <<sock, stream, rest, flaw>>
    BY <1>1 DEF StillConnected, server, link
  <2>2. CASE Dead
    BY <2>1, <2>2 DEF Dead, Standing
  <2>3. CASE Outer
    <3>1. PICK q \in Place \cup {NoByte} : Starts(q) /\ On(q) /\ (flaw = "none" => Fresh(q))
      BY <2>3 DEF Outer
    <3>2. On(q)'
      BY <2>1, <3>1 DEF On
    <3> QED BY <2>1, <3>1, <3>2 DEF Outer, Standing
  <2> QED BY <2>1, <2>2, <2>3 DEF Standing, AtFrame, InHeader, InBody, AtEnd
<1>2. CASE cm_debug_out_deinit
  BY <1>2 DEF cm_debug_out_deinit, Dead, Standing
<1> QED BY <1>1, <1>2

\* The reader keeps its place, whatever it does.
LEMMA StandingKept ==
  ASSUME BufferInv, Shaken, iWSOK, Placed, Standing, Next, ~Reconnect, flaw' # "lost"
  PROVE  Placed' /\ Standing'
<1>1. CASE Serves
  BY <1>1, ServesStands
<1>2. CASE StillConnected \/ cm_debug_out_deinit
  BY <1>2, OuterStands DEF StillConnected, cm_debug_out_deinit, server, link, Placed
<1>3. CASE Header
  <2>1. Placed'
    BY <1>3 DEF Header, StartRecv, ReadOp, HeaderPauses, ReadBreaks, Breaks, server, link, Placed
  <2> QED BY <1>3, <2>1, StartRecvStands, ReadOpStands, HeaderPausesStands, ReadBreaksStands
          DEF Header
<1>4. CASE Length
  <2>1. Placed'
    BY <1>4 DEF Length, ReadLen, ReadExt, ReadMask, server, Placed
  <2>2. ~ReadMask
    BY DEF ReadMask, Standing, Outer, AtFrame, InHeader, InBody, AtEnd, Dead
  <2> QED BY <1>4, <2>1, <2>2, ReadLenStands, ReadExtStands DEF Length
<1>5. CASE Body
  <2>1. Placed'
    BY <1>5 DEF Body, ReadBody, BodyPauses, MessageEnds, FrameEnds, ResponseEnds, server, link,
                Placed
  <2> QED BY <1>5, <2>1, ReadBodyStands, BodyPausesStands, BodyEndsStands DEF Body
<1>6. CASE Callback
  <2>1. Placed'
    BY <1>6 DEF Callback, CallbackReturns, cm_debug_out_request, RequestReturns, server, link,
                Placed
  <2> QED BY <1>6, <2>1, CallbackStands, RequestReturnsStands DEF Callback
<1>7. ~(cm_debug_out_init \/ SendHandshake \/ TakeResponse \/ NoResponse)
  BY DEF cm_debug_out_init, SendHandshake, TakeResponse, NoResponse, Shaken
<1> QED BY <1>1, <1>2, <1>3, <1>4, <1>5, <1>6, <1>7, NextParts DEF Outside, Serves

LEMMA PlaceInit == Init => PlaceInv
  BY DEF Init, PlaceInv, Shaken, Greeted

LEMMA PlaceStep ==
  ASSUME BufferInv, PlaceInv, Next
  PROVE  PlaceInv'
<1>1. Shaken'
  BY ShakenKept DEF BufferInv, TypeOK, PlaceInv
<1>2. CASE Reconnect
  <2>1. ~iWSOK' /\ Greeted'
    BY <1>2, NewConnection DEF Reconnect
  <2> QED BY <1>1, <2>1 DEF PlaceInv
<1>3. ASSUME ~Reconnect, flaw' # "lost"
      PROVE  IF iWSOK' THEN Placed' /\ Standing' ELSE Greeted'
  <2>1. /\ flaw # "lost"
        /\ iWSOK' = iWSOK \/ ((TakeResponse \/ NoResponse) /\ iWSOK' = TRUE)
    BY <1>3, LostStays
  <2>2. CASE iWSOK
    <3>1. iWSOK'
      BY <2>1, <2>2
    <3>2. Placed' /\ Standing'
      BY <1>3, <2>1, <2>2, StandingKept DEF PlaceInv
    <3> QED BY <3>1, <3>2
  <2>3. CASE ~iWSOK
    <3>1. Greeted
      BY <2>1, <2>3 DEF PlaceInv
    <3>2. CASE iWSOK'
      BY <1>3, <2>1, <2>3, <3>1, <3>2, HandshakeStands
    <3>3. CASE ~iWSOK'
      <4>1. Outside
        <5>1. pc \notin {"op", "len", "ext", "mask", "body", "callback", "response"}
          BY <2>3 DEF PlaceInv, Shaken
        <5>2. ~StartRecv
          BY <2>3 DEF StartRecv
        <5>3. ~Header /\ ~Length
          <6>1. ~ReadOp /\ ~ReadLen /\ ~ReadExt /\ ~ReadMask
            BY <5>1 DEF ReadOp, ReadLen, ReadExt, ReadMask
          <6>2. ~HeaderPauses /\ ~ReadBreaks
            BY <5>1 DEF HeaderPauses, ReadBreaks
          <6> QED BY <5>2, <6>1, <6>2 DEF Header, Length
        <5>4. ~Body /\ ~Callback
          BY <5>1 DEF Body, ReadBody, BodyPauses, MessageEnds, FrameEnds, ResponseEnds,
             Callback, CallbackReturns, cm_debug_out_request, RequestReturns
        <5> QED BY <5>3, <5>4, NextParts
      <4>2. Greeted'
        BY <3>1, <3>3, <4>1, GreetedKept
      <4> QED BY <3>3, <4>2
    <3> QED BY <3>2, <3>3
  <2> QED BY <2>2, <2>3
<1> QED BY <1>1, <1>2, <1>3 DEF PlaceInv

LEMMA PlaceStutter ==
  ASSUME PlaceInv, UNCHANGED vars
  PROVE  PlaceInv'
BY DEF vars, server, link, reader, buffer, PlaceInv, Shaken, Placed, Greeted, Ends, Begun, Standing, Outer,
   AtFrame, InHeader, InBody, AtEnd, Dead, On, Kept, Gathered

LEMMA PlaceInvariant == Spec => []PlaceInv
<1>1. BufferInv /\ PlaceInv /\ [Next]_vars => PlaceInv'
  BY PlaceStep, PlaceStutter
<1> QED BY <1>1, PlaceInit, BufferInvariant, PTL DEF Spec
-----------------------------------------------------------------------------
LEMMA StartIsNext ==
  ASSUME NEW q \in Place \cup {NoByte}, Starts(q), On(q), Written, Unread # <<>>
  PROVE  Kind(Head(Unread)) = "op"
<1>1. \A e \in Place : Enters(q, e) => Kind(e) = "op"
  BY KindFacts DEF Enters, Starts
<1>2. CASE stream # <<>>
  <2>1. /\ stream \in Seq(Place) /\ stream[1] \in Place /\ Enters(q, stream[1])
        /\ Head(stream) = stream[1]
    BY <1>2, OnHead
  <2>2. Head(Unread) = Head(stream)
    <3>1. CASE rest = NoByte
      <4>1. Unread = stream \o <<>>
        BY <3>1 DEF Unread
      <4> QED BY <2>1, <4>1
    <3>2. CASE rest # NoByte
      <4>1. Unread = stream \o <<rest>>
        BY <3>2 DEF Unread
      <4>2. stream \in Seq(Place \cup {rest}) /\ <<rest>> \in Seq(Place \cup {rest})
        BY <2>1
      <4> QED BY <1>2, <4>1, <4>2
    <3> QED BY <3>1, <3>2
  <2> QED BY <1>1, <2>1, <2>2
<1>3. CASE stream = <<>>
  <2>1. rest # NoByte
    BY <1>3 DEF Unread
  <2>2. Unread = <<rest>> /\ Head(Unread) = rest
    BY <1>3, <2>1 DEF Unread
  <2>3. sock = "up" /\ Due(q, stream) = q
    BY <1>3, <2>1, FollowEmpty DEF Written
  <2>4. rest = q \/ (rest \in Place /\ Enters(q, rest))
    BY <2>3 DEF On
  <2>5. rest \in Place /\ Enters(q, rest)
    BY <2>1, <2>4 DEF Enters
  <2> QED BY <1>1, <2>2, <2>5
<1> QED BY <1>2, <1>3

LEMMA ReaderInStep == BufferInv /\ PlaceInv => InStep
<1> SUFFICES ASSUME BufferInv, PlaceInv, iWSOK, flaw # "lost",
                    pc \in {"out", "ready", "op", "callback", "response"}, Unread # <<>>
             PROVE  Kind(Head(Unread)) = "op"
  BY DEF InStep
<1>1. Standing /\ Written
  BY DEF PlaceInv, BufferInv
<1>2. CASE Dead
  <2>1. stream = <<>> /\ rest = NoByte
    BY <1>1, <1>2 DEF Dead, Written
  <2>2. Unread = <<>>
    BY <2>1 DEF Unread
  <2> QED BY <2>2
<1>3. CASE Outer \/ AtFrame \/ AtEnd
  <2>1. \E q \in Place \cup {NoByte} : Starts(q) /\ On(q)
    BY <1>3 DEF Outer, AtFrame, AtEnd, Starts
  <2> QED BY <1>1, <2>1, StartIsNext
<1> QED BY <1>1, <1>2, <1>3 DEF Standing, InHeader, InBody

LEMMA CallbackGets == BufferInv /\ PlaceInv => CallbackGetsMessage
<1> SUFFICES ASSUME BufferInv, PlaceInv, pc \in {"callback", "response"}, flaw = "none"
             PROVE  Begins(data) /\ (pc = "callback" => Len(data) = Size(data[1].shape))
  BY DEF CallbackGetsMessage
<1>1. AtEnd
  <2>1. Standing
    BY DEF PlaceInv, Shaken
  <2> QED BY <2>1 DEF Standing, Outer, AtFrame, InHeader, InBody, Dead
<1>2. PICK p \in Place : /\ Gathered(p, Len(data))
                         /\ pc = "callback" => data # <<>> /\ Len(data) = Size(p.shape)
  BY <1>1 DEF AtEnd, Gathered
<1>3. Len(data) \in Nat /\ DOMAIN data = 1 .. Len(data) /\ (data # <<>> => 1 \in 1 .. Len(data))
  <2>1. PICK X : data \in Seq(X)
    BY DEF BufferInv, Sequenced
  <2> QED BY <2>1, FirstOfSeq
<1>4. \A j \in 1 .. Len(data) : /\ Kind(data[j]) = "data" /\ At(data[j]) = j
                                /\ data[j].msg = p.msg /\ data[j].shape = p.shape
  BY <1>2 DEF Gathered
<1>5. Begins(data)
  <2>1. SUFFICES ASSUME NEW j \in 1 .. Len(data)
                 PROVE  /\ Kind(data[j]) = "data" /\ data[j].msg = data[1].msg
                        /\ At(data[j]) = j
    BY <1>3 DEF Begins
  <2>2. 1 \in 1 .. Len(data)
    BY <1>3
  <2> QED BY <1>4, <2>2
<1>6. pc = "callback" => Len(data) = Size(data[1].shape)
  BY <1>2, <1>3, <1>4
<1> QED BY <1>5, <1>6

\* However its bytes arrive, and whatever breaks, the reader keeps its place among
\* the frames, and the callback gets a whole message of the server, put together of
\* its frames in their order.  What costs it its place, until the next connection:
\* a pause inside a header, the response to a request cut short, a handshake that
\* ends before the whole response has come, frames right behind the response.  And
\* what parts a message, until another begins: a pause between its frames, the end
\* of a request, a control frame.
THEOREM MessagesStayIntact == Spec => []MessagesIntact
<1>1. BufferInv /\ PlaceInv => MessagesIntact
  BY ReaderInStep, CallbackGets DEF MessagesIntact
<1> QED BY <1>1, BufferInvariant, PlaceInvariant, PTL
=============================================================================
