---------------------------- MODULE HttpDownload ----------------------------
(***************************************************************************)
(* http_download of common/cm_http_download.c: one GET, the header, a body *)
(* with a length or in chunks, written to a file; a redirect starts again. *)
(*                                                                         *)
(* The socket has a receive timeout, so fgets and fread may return with    *)
(* what there is (a pause), and a signal may interrupt them.  The bytes    *)
(* are tokens: a line is two, its first half and the half with the end of  *)
(* the line, and every byte of the body is one, numbered from 1.           *)
(***************************************************************************)
EXTENDS Integers, Sequences

CONSTANTS
  Responses,   \* what servers answer: <<[status, framing, parts], ...>>
  RECV_BUF,    \* bytes that one fread asks for at most
  EndValues,   \* what a build may return from a function that ends without return
  MaxPart,     \* bound: the lengths that a torn line may be taken for, above 0 and below
  MaxFails     \* bound: connections that break, failures and interruptions of the disk

ASSUME HttpAssumption ==
  /\ RECV_BUF \in Nat \ {0} /\ EndValues \subseteq Int
  /\ {MaxPart, MaxFails} \subseteq Nat
  /\ Responses \subseteq
       [status : Nat, framing : {"length", "chunked", "close"}, parts : Seq(Nat \ {0})]
  \* A part of no bytes is the end of a chunked body.

VARIABLES
  answer,        \* the response of the server we are connected to
  rest,          \* what it has still to send
  sock,          \* info->sock: "none", "up", "fin" (the peer closed it), "rst"
  stream,        \* what has arrived and is not read
  pc,            \* where http_download is
  result,        \* what it returns
  status_code, chunked_flag, len,
  total_len,     \* in read_data
  part_len,      \* in recv_chunked_response
  errno,         \* if ferror(info->in): the error, else "none"
  save_file,     \* info->save_file is open
  file,          \* the bytes of the file at save_path, OldFile before
  held,          \* the descriptors that this call has open
  signals,       \* 1 after an odd number of interrupted reads, else 0
  fails,
  flaw,          \* "none"; "torn": a line was read in pieces; "rewritten": a write of
                 \* the file was interrupted; "disk": fclose could not write the rest
  ended          \* what this build returns from save_data and read_data

peer   == <<answer, rest>>
link   == <<sock, stream>>
header == <<status_code, chunked_flag, len>>
body   == <<total_len, part_len>>
disk   == <<save_file, file, held>>
bounds == <<signals, fails>>
vars   == <<peer, link, pc, result, header, body, errno, disk, bounds, flaw,
            ended>>

OldFile  == <<-1>>
NoAnswer == [status |-> 0, framing |-> "close", parts |-> <<>>]

Init ==
  /\ answer = NoAnswer /\ rest = <<>>
  /\ sock = "none" /\ stream = <<>>
  /\ pc = "call" /\ result = 0
  /\ status_code = 0 /\ chunked_flag = FALSE /\ len = 0
  /\ total_len = 0 /\ part_len = 0 /\ errno = "none"
  /\ save_file = FALSE /\ file = OldFile /\ held = 0
  /\ signals = 0 /\ fails = 0
  /\ flaw = "none"
  /\ ended \in [{"save_data", "read_data"} -> EndValues]

Fail == fails < MaxFails /\ fails' = fails + 1
-----------------------------------------------------------------------------
(* What a server sends *)

\* The bytes of the body in the first parts, so many of them.
Sums(r) == LET sum[k \in 0 .. Len(r.parts)] == IF k = 0 THEN 0 ELSE sum[k - 1] + r.parts[k]
           IN  sum

Size(r) == Sums(r)[Len(r.parts)]

Bytes(from, n) == [k \in 1 .. n |-> [at |-> from + k, end |-> FALSE]]
CRLF           == <<[at |-> 0, end |-> FALSE], [at |-> 0, end |-> TRUE]>>
Line(tag, n)   == <<[tag |-> tag, n |-> n, at |-> 0, end |-> FALSE],
                    [tag |-> tag, n |-> n, at |-> 0, end |-> TRUE]>>

Chunk(r, k) == Line("size", r.parts[k]) \o Bytes(Sums(r)[k - 1], r.parts[k]) \o CRLF

FirstChunks(r) ==
  LET sent[k \in 0 .. Len(r.parts)] == IF k = 0 THEN <<>> ELSE sent[k - 1] \o Chunk(r, k)
  IN  sent

Chunks(r) == FirstChunks(r)[Len(r.parts)] \o Line("size", 0) \o CRLF

Field(r) ==
  IF r.status = 302 THEN Line("location", 0)
  ELSE CASE r.framing = "length"  -> Line("length", Size(r))
         [] r.framing = "chunked" -> Line("chunked", 0)
         [] r.framing = "close"   -> <<>>

Answer(r) ==
  Line("status", r.status) \o Field(r) \o Line("blank", 0)
    \o IF r.framing = "chunked" THEN Chunks(r) ELSE Bytes(0, Size(r))

Arrive ==
  /\ sock = "up" /\ rest # <<>>
  /\ stream' = Append(stream, Head(rest)) /\ rest' = Tail(rest)
  /\ UNCHANGED <<answer, sock, pc, result, header, body, errno, disk, bounds, flaw>>

\* The request asks for "Connection: Close".
PeerCloses ==
  /\ sock = "up" /\ rest = <<>> /\ pc \notin {"call", "send"}
  /\ sock' = "fin"
  /\ UNCHANGED <<peer, stream, pc, result, header, body, errno, disk, bounds, flaw>>

PeerBreaks ==
  /\ sock = "up" /\ Fail /\ rest' = <<>>
  /\ \/ sock' = "fin" /\ UNCHANGED stream
     \/ sock' = "rst" /\ stream' = <<>>
  /\ UNCHANGED <<answer, pc, result, header, body, errno, disk, signals, flaw>>
-----------------------------------------------------------------------------
(* parser_URL, dns, connect_server, send_request *)

\* failed: and the last lines of http_download call clean_up.
Gives(value) == pc' = "clean_up" /\ result' = value

\* A URL that is none, a name that is not found, a server that does not run.
connect_server_fails ==
  /\ pc = "call" /\ Gives(-1)
  /\ UNCHANGED <<peer, link, header, body, errno, disk, bounds, flaw>>

connect_server ==
  /\ pc = "call" /\ pc' = "send"
  /\ sock' = "up" /\ stream' = <<>> /\ rest' = <<>>
  /\ held' = held + 1
  /\ UNCHANGED <<answer, result, header, body, errno, save_file, file, bounds, flaw>>

\* The location of a redirect keeps the end of its line, and so does the request:
\* what a server answers to that is any response too.
send_request ==
  /\ pc = "send"
  /\ \/ /\ sock = "up" /\ pc' = "status"
        /\ UNCHANGED result
        /\ \E r \in Responses : answer' = r /\ rest' = Answer(r)
     \/ sock # "up" /\ Gives(-1) /\ UNCHANGED peer
  /\ UNCHANGED <<link, header, body, errno, disk, bounds, flaw>>
-----------------------------------------------------------------------------
(* fgets(info->buffer, RECV_BUF, info->in) *)

Ends == {k \in DOMAIN stream : stream[k].end}

\* A line has arrived, or the end of one.
Gets(line) ==
  /\ \E k \in Ends :
       /\ \A j \in Ends : k <= j
       /\ line = SubSeq(stream, 1, k) /\ stream' = SubSeq(stream, k + 1, Len(stream))
  /\ UNCHANGED <<signals, errno>>

Interrupts == errno' = "EINTR" /\ signals' = 1 - signals

\* 10 seconds without a byte, a signal, the end, or an error: fgets returns what
\* there is, unless that is nothing or the reason is an error other than EAGAIN.
GetsLess(some) ==
  /\ Ends = {}
  /\ stream' = <<>>
  /\ \/ sock = "up" /\ errno' = "EAGAIN" /\ some = (stream # <<>>) /\ UNCHANGED signals
     \/ sock = "up" /\ Interrupts /\ ~some
     \/ sock = "fin" /\ some = (stream # <<>>) /\ UNCHANGED <<signals, errno>>
     \/ sock = "rst" /\ errno' = "other" /\ ~some /\ UNCHANGED signals

\* After an error the connection is at its end.
AfterReset == IF sock = "rst" THEN sock' = "fin" ELSE UNCHANGED sock

Torn == IF sock = "up" THEN "torn" ELSE flaw
-----------------------------------------------------------------------------
(* parse_http_header *)

\* A line that is not whole may still hold the code, or the blank before it.
StatusLine ==
  /\ pc = "status"
  /\ \E line \in {SubSeq(stream, 1, k) : k \in Ends} :
       /\ Gets(line)
       /\ line = Line("status", answer.status)
       /\ status_code' = answer.status
  /\ pc' = "header"
  /\ UNCHANGED <<peer, sock, result, chunked_flag, len, body, disk, fails, flaw>>

\* fgets leaves the request in the buffer, which has a blank and "HTTP" in it.
StatusLineTorn ==
  /\ pc = "status"
  /\ \E some \in BOOLEAN :
       /\ GetsLess(some)
       /\ \/ /\ pc' = "header" /\ UNCHANGED result
             /\ status_code' \in (IF some THEN {0, answer.status} ELSE {0})
          \/ some /\ Gives(-1) /\ UNCHANGED status_code
  /\ AfterReset /\ flaw' = Torn
  /\ UNCHANGED <<peer, chunked_flag, len, body, disk, fails>>

Goes ==
  CASE status_code = 200 /\ chunked_flag  -> "size"
    [] status_code = 200 /\ ~chunked_flag -> "data"
    [] status_code = 302                  -> "redirect"
    [] OTHER                              -> "failed"

HeaderLine ==
  /\ pc = "header"
  /\ \E line \in {SubSeq(stream, 1, k) : k \in Ends} :
       /\ Gets(line)
       /\ len' = IF \E n \in 0 .. Size(answer) : line = Line("length", n) THEN line[1].n ELSE len
       /\ chunked_flag' = (chunked_flag \/ line = Line("chunked", 0))
       /\ IF line = Line("blank", 0)
          THEN pc' = Goes /\ total_len' = len /\ part_len' = 0
          ELSE UNCHANGED <<pc, body>>
  /\ UNCHANGED <<peer, sock, result, status_code, disk, fails, flaw>>

\* Half a line may be taken for a length, below 0 too, or for an encoding that is not
\* known; where it has no colon, http_download follows a null pointer.
HeaderLineTorn ==
  /\ pc = "header"
  /\ \E some \in BOOLEAN :
       /\ GetsLess(some)
       /\ \/ some /\ len' \in -MaxPart .. MaxPart /\ UNCHANGED <<pc, result, chunked_flag>>
          \/ some /\ chunked_flag' \in BOOLEAN /\ UNCHANGED <<pc, result, len>>
          \/ some /\ pc' = "crashed" /\ UNCHANGED <<result, chunked_flag, len>>
          \/ Gives(-1) /\ UNCHANGED <<chunked_flag, len>>
  /\ AfterReset /\ flaw' = Torn
  /\ UNCHANGED <<peer, status_code, body, disk, fails>>

UnknownStatus ==
  /\ pc = "failed" /\ Gives(-1)
  /\ UNCHANGED <<peer, link, header, body, errno, disk, bounds, flaw>>
-----------------------------------------------------------------------------
(* read_data(info, len) *)

Asked == IF total_len < RECV_BUF THEN total_len ELSE RECV_BUF

\* save_data opens the file at the first call, and ends without a value after it
\* has written.  A write that a signal interrupts is begun again with the first
\* byte, behind those that are written: once stands here for any number of times,
\* until the count comes to 0 on its way round or the disk is full.  (Interrupted
\* before its first byte, a write loses nothing by that.)
save_data(bytes, then) ==
  LET before     == IF save_file THEN file ELSE <<>>
      At(n)      == [k \in 1 .. n |-> bytes[k].at]
      Written(s) == /\ held' = IF save_file THEN held ELSE held + 1
                    /\ save_file' = TRUE /\ file' = before \o s
      Ended      == IF ended.save_data = -1 THEN Gives(-1) ELSE pc' = then /\ UNCHANGED result
  IN  \/ Written(At(Len(bytes))) /\ Ended /\ UNCHANGED <<fails, flaw>>
      \/ \E n \in 0 .. Len(bytes) - 1 : Written(At(n)) /\ Fail /\ Gives(-1) /\ UNCHANGED flaw
      \/ /\ \E n \in 1 .. Len(bytes) - 1 : Written(At(n) \o At(Len(bytes)))
         /\ Fail /\ (Ended \/ Gives(-1)) /\ flaw' = "rewritten"
      \/ ~save_file /\ UNCHANGED disk /\ Fail /\ Gives(-1) /\ UNCHANGED flaw

Reads ==
  /\ pc = "data" /\ total_len > 0 /\ Asked <= Len(stream)
  /\ stream' = SubSeq(stream, Asked + 1, Len(stream))
  /\ total_len' = total_len - Asked
  /\ save_data(SubSeq(stream, 1, Asked), "data")
  /\ UNCHANGED <<peer, sock, header, part_len, errno, signals>>

\* Mutant: a signal ends nothing, not even the count.
InterruptedUncounted ==
  /\ pc = "data" /\ total_len > 0 /\ Len(stream) < Asked
  /\ sock = "up" /\ Interrupts /\ stream' = <<>>
  /\ save_data(stream, "data")
  /\ UNCHANGED <<peer, sock, header, body>>

\* A signal: what has come is saved, and the loop goes on.
Interrupted ==
  /\ pc = "data" /\ total_len > 0 /\ Len(stream) < Asked
  /\ sock = "up" /\ Interrupts /\ stream' = <<>>
  /\ total_len' = total_len - Len(stream)
  /\ save_data(stream, "data")
  /\ UNCHANGED <<peer, sock, header, part_len>>

\* The error of an earlier read is still set, and so is errno: the end of the
\* connection is taken for another signal.
EndTakenForSignal ==
  /\ pc = "data" /\ total_len > 0 /\ Len(stream) < Asked
  /\ sock = "fin" /\ errno = "EINTR" /\ stream' = <<>>
  /\ total_len' = total_len - Len(stream)
  /\ save_data(stream, "data")
  /\ UNCHANGED <<peer, sock, header, part_len, errno, signals>>

\* Mutant: that the connection has ended is not noticed.
EndUnnoticed ==
  /\ pc = "data" /\ total_len > 0 /\ Len(stream) < Asked
  /\ \/ sock = "up" /\ errno' = "EAGAIN" /\ Gives(-1) /\ UNCHANGED <<sock, disk, fails, flaw>>
     \/ sock = "fin" /\ errno # "EINTR" /\ save_data(stream, "data") /\ UNCHANGED <<sock, errno>>
     \/ /\ sock = "rst" /\ errno' = "other" /\ sock' = "fin"
        /\ Gives(-1) /\ UNCHANGED <<disk, fails, flaw>>
  /\ stream' = <<>> /\ total_len' = total_len - Len(stream)
  /\ UNCHANGED <<peer, header, part_len, signals>>

\* A pause, the end, or an error: what has come is not saved.
ReadFails ==
  /\ pc = "data" /\ total_len > 0 /\ Len(stream) < Asked
  /\ \/ sock = "up" /\ errno' = "EAGAIN" /\ UNCHANGED sock
     \/ sock = "fin" /\ errno # "EINTR" /\ UNCHANGED <<sock, errno>>
     \/ sock = "rst" /\ errno' = "other" /\ sock' = "fin"
  /\ stream' = <<>> /\ Gives(-1)
  /\ UNCHANGED <<peer, header, body, disk, bounds, flaw>>

\* A read that gets less than it asks for, and why.
Stops ==
  \/ sock = "up" /\ errno' = "EAGAIN" /\ UNCHANGED <<sock, signals>>
  \/ sock = "up" /\ Interrupts /\ UNCHANGED sock
  \/ sock = "fin" /\ UNCHANGED <<sock, errno, signals>>
  \/ sock = "rst" /\ errno' = "other" /\ sock' = "fin" /\ UNCHANGED signals

\* A length below 0, from a torn line: as a size_t it is more than all that may
\* come, and nothing that fread returns is less than it.  What has come is saved,
\* the count moves away from 0, and no pause or end is noticed.  More than the
\* buffer holds is written behind it: the program crashes, or goes on.
ReadsNegative ==
  /\ pc = "data" /\ total_len < 0
  /\ Stops /\ stream' = <<>> /\ total_len' = total_len - Len(stream)
  /\ \/ save_data(stream, "data")
     \/ Len(stream) > RECV_BUF /\ pc' = "crashed" /\ UNCHANGED <<result, disk, fails, flaw>>
  /\ UNCHANGED <<peer, header, part_len>>

\* Neither has read_data a value at its end.
BodyRead ==
  /\ pc = "data" /\ total_len = 0
  /\ \/ ended.read_data = -1 /\ Gives(-1)
     \/ ended.read_data # -1 /\ chunked_flag /\ pc' = "crlf" /\ UNCHANGED result
     \/ ended.read_data # -1 /\ ~chunked_flag /\ Gives(0)
  /\ UNCHANGED <<peer, link, header, body, errno, disk, bounds, flaw>>
-----------------------------------------------------------------------------
(* recv_chunked_response *)

ReadsPart(n) == part_len' = n /\ total_len' = n /\ pc' = "data"

SizeLine ==
  /\ pc = "size"
  /\ \E line \in {SubSeq(stream, 1, k) : k \in Ends} :
       /\ Gets(line)
       /\ IF \E n \in 0 .. Size(answer) : line = Line("size", n)
          THEN ReadsPart(line[1].n)
          ELSE \E n \in -MaxPart .. MaxPart : ReadsPart(n)
  /\ UNCHANGED <<peer, sock, result, header, disk, fails, flaw>>

\* strtol reads half a line, or what an earlier read has left in the buffer.  A
\* length below 0 counts as torn wherever it comes from.
SizeLineTorn ==
  /\ pc = "size"
  /\ \E some \in BOOLEAN : GetsLess(some)
  /\ \E n \in -MaxPart .. MaxPart :
       ReadsPart(n) /\ flaw' = IF n < 0 THEN "torn" ELSE Torn
  /\ AfterReset
  /\ UNCHANGED <<peer, result, header, disk, fails>>

\* Mutant: that the two bytes are missing is not noticed.
PartEndsUnchecked ==
  /\ pc = "crlf" /\ (Len(stream) >= 2 \/ sock = "fin")
  /\ stream' = SubSeq(stream, 3, Len(stream))
  /\ IF part_len = 0 THEN Gives(0) ELSE pc' = "size" /\ UNCHANGED result
  /\ UNCHANGED <<peer, sock, header, body, errno, disk, bounds, flaw>>

PartEnds ==
  /\ pc = "crlf" /\ Len(stream) >= 2
  /\ stream' = SubSeq(stream, 3, Len(stream))
  /\ IF part_len = 0 THEN Gives(0) ELSE pc' = "size" /\ UNCHANGED result
  /\ UNCHANGED <<peer, sock, header, body, errno, disk, bounds, flaw>>

PartEndFails ==
  /\ pc = "crlf" /\ Len(stream) < 2
  /\ Stops /\ stream' = <<>> /\ Gives(-1)
  /\ UNCHANGED <<peer, header, body, disk, fails, flaw>>
-----------------------------------------------------------------------------
(* clean_up *)

\* A new http_t, and nothing held of the old one.
Cleared ==
  /\ sock' = "none" /\ stream' = <<>> /\ rest' = <<>>
  /\ status_code' = 0 /\ chunked_flag' = FALSE /\ len' = 0
  /\ total_len' = 0 /\ part_len' = 0 /\ errno' = "none"
  /\ save_file' = FALSE

Closed == (IF sock = "none" THEN 0 ELSE 1) + (IF save_file THEN 1 ELSE 0)

\* fclose writes the rest of the file; that it cannot is not noticed.
clean_up ==
  /\ pc = "clean_up" /\ pc' = "done"
  /\ Cleared /\ held' = held - Closed
  /\ \/ UNCHANGED <<file, fails, flaw>>
     \/ /\ save_file /\ file # <<>> /\ Fail
        /\ \E n \in 0 .. Len(file) - 1 : file' = SubSeq(file, 1, n)
        /\ flaw' = IF flaw = "none" THEN "disk" ELSE flaw
  /\ UNCHANGED <<answer, result, signals>>

\* Mutant: the old http_t is forgotten.
RedirectForgets ==
  /\ pc = "redirect" /\ pc' = "call"
  /\ Cleared
  /\ UNCHANGED <<answer, result, file, held, signals, fails, flaw>>

Redirect ==
  /\ pc = "redirect" /\ pc' = "call"
  /\ Cleared /\ held' = held - Closed
  /\ UNCHANGED <<answer, result, file, signals, fails, flaw>>
-----------------------------------------------------------------------------
http_download ==
  \/ connect_server_fails \/ connect_server \/ send_request
  \/ StatusLine \/ StatusLineTorn \/ HeaderLine \/ HeaderLineTorn \/ UnknownStatus
  \/ Reads \/ Interrupted \/ EndTakenForSignal \/ ReadFails \/ ReadsNegative \/ BodyRead
  \/ SizeLine \/ SizeLineTorn \/ PartEnds \/ PartEndFails
  \/ clean_up \/ Redirect

Next == (http_download \/ Arrive \/ PeerCloses \/ PeerBreaks) /\ UNCHANGED ended

Spec == Init /\ [][Next]_vars

(***************************************************************************)
(* The thread runs: a read that gets nothing ends after 10 seconds, which  *)
(* is what SO_RCVTIMEO sees to, or is interrupted.  Nothing is assumed of  *)
(* the server but that an answer is finite.                                *)
(***************************************************************************)
FairSpec == Spec /\ WF_vars(http_download /\ UNCHANGED ended)
-----------------------------------------------------------------------------
(* Properties *)

Modes ==
  /\ answer \in Responses \cup {NoAnswer}
  /\ sock \in {"none", "up", "fin", "rst"}
  /\ pc \in {"call", "send", "status", "header", "failed", "redirect", "data", "size",
             "crlf", "clean_up", "done", "crashed"}
  /\ chunked_flag \in BOOLEAN /\ save_file \in BOOLEAN
  /\ errno \in {"none", "EAGAIN", "EINTR", "other"}
  /\ flaw \in {"none", "torn", "rewritten", "disk"}

Codes ==
  /\ result \in {-1, 0}
  /\ status_code \in {0} \cup {r.status : r \in Responses}
  /\ ended \in [{"save_data", "read_data"} -> EndValues]

Lengths == {len, total_len, part_len} \subseteq Int

Counters == held \in 0 .. 2 /\ signals \in {0, 1} /\ fails \in 0 .. MaxFails

\* Types; a call has at most one socket and one file open.
TypeOK == Modes /\ Codes /\ Lengths /\ Counters

Body(r) == [k \in 1 .. Size(r) |-> k]

\* 0 means that the file holds the body, whatever breaks off and whatever read is
\* interrupted on the way: unless a line came in pieces 10 seconds apart, a write of
\* the file was interrupted, the body is ended by the connection, or the disk was
\* full at fclose.  An empty body leaves the file of before.
ZeroMeansComplete ==
  pc = "done" /\ result = 0 /\ flaw = "none" /\ answer.framing # "close" =>
    file = Body(answer) \/ (Body(answer) = <<>> /\ file = OldFile)

Sound == flaw \notin {"torn", "rewritten"}

\* The file is the beginning of the body at all times, every byte once and in its
\* place, over chunks, full buffers, interrupted reads and redirects: unless a line
\* came in pieces, or a signal interrupted a write of the file.
FileIsPrefix ==
  Sound => file = OldFile \/ \E n \in 0 .. Size(answer) : file = SubSeq(Body(answer), 1, n)

\* Whatever fails where, no descriptor is left open.
NothingHeld ==
  /\ pc \in {"call", "done"} => held = 0
  /\ held = Closed

\* read_data reads the end again and again, or counts away from 0.
Spins ==
  /\ pc = "data"
  /\ \/ total_len < 0
     \/ total_len > 0 /\ sock = "fin" /\ errno = "EINTR" /\ stream = <<>>

\* http_download comes to an end: it returns, or crashes on a torn line.  But it runs
\* for ever where a length below 0 is read, where the peer closes the connection after
\* a read was interrupted (the end is taken for one more signal), where servers
\* redirect it for ever, and where signals interrupt its reads for ever.
Returns ==
  \/ <>(pc \in {"done", "crashed"}) \/ <>[]Spins
  \/ []<>(pc = "redirect")
  \/ []<>(signals = 0) /\ []<>(signals = 1)
=============================================================================
