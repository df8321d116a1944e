------------------------------ MODULE Capture ------------------------------
(***************************************************************************)
(* The capture program of recordserver/jkrecord.c: it takes frames from a  *)
(* V4L2 device (vdev/operation.c), encodes them (codec/encoder.c) and      *)
(* sends the packets to a reader through a UNIX socket                     *)
(* (recordserver/process.c, common/cm_unixsocket.c).                       *)
(*                                                                         *)
(* The program and the driver share N buffers.  get_video_data gives a     *)
(* buffer back to the driver at once, and the encoder reads it afterwards. *)
(* A frame is its number; the packet made of it has the same number.       *)
(***************************************************************************)
EXTENDS Integers, Sequences

CONSTANTS
  N,          \* dev->req.count
  Lookahead,  \* bound: the frames that x264 keeps inside
  MaxFrames   \* bound: frames that the camera delivers

ASSUME CaptureAssumption ==
  N \in Nat \ {0} /\ Lookahead \in Nat /\ MaxFrames \in Nat

Buffers == 0 .. N - 1
NULL    == -1

VARIABLES
  pc,       \* where the program is
  queued,   \* the buffers that wait for a frame, in the driver's order
  filling,  \* the buffer that is being written, or NULL
  done,     \* the buffers that wait to be dequeued
  content,  \* the frame that was last started in each buffer
  frames,   \* the frames started so far
  index,    \* buf.index
  taken,    \* the frame that VIDIOC_DQBUF has returned, 0 if it has failed
  inside,   \* the frames in the encoder, oldest first
  stream,   \* the packet in gi, NULL if gi->stream_delen is 0
  sock,     \* gi->sock: "null", or the state of its socket
  iConn,    \* gi->sock->iConn
  reader,   \* of the reader's path: "none" if there is no file, "bound" if there
            \* is one on which nobody listens, "listens"
  slack     \* how many frames may start before buf.index is written again

driver  == <<queued, filling, done, content, frames>>
encoder == <<inside, stream>>
channel == <<sock, iConn>>
vars    == <<pc, driver, index, taken, encoder, channel, reader, slack>>

Goto(from, to) == pc = from /\ pc' = to

Init ==
  /\ pc = "init"
  /\ queued = <<>> /\ filling = NULL /\ done = <<>>
  /\ content = [b \in Buffers |-> 0] /\ frames = 0
  /\ index = 0 /\ taken = 0 /\ slack = 0
  /\ inside = <<>> /\ stream = NULL
  /\ sock = "null" /\ iConn = FALSE
  /\ reader \in {"none", "bound", "listens"}
-----------------------------------------------------------------------------
(* rs_init, rs_start and sock_init *)

\* Mutant: every second buffer is queued.
QueuesSome == queued' = [k \in 1 .. (N + 1) \div 2 |-> 2 * (k - 1)]

\* Every buffer is mapped and queued.
request_buffers == queued' = [k \in 1 .. N |-> k - 1]

rs_init ==
  /\ \/ Goto("init", "start") /\ request_buffers
     \/ Goto("init", "exit") /\ UNCHANGED queued
  /\ UNCHANGED <<filling, done, content, frames, index, taken, encoder, channel, reader, slack>>

rs_start ==
  /\ Goto("start", "sock") \/ Goto("start", "exit")
  /\ UNCHANGED <<driver, index, taken, encoder, channel, reader, slack>>

\* Without a file at the path there is no handle, then or ever: the program goes
\* on, and every sock_send fails.
sock_init ==
  /\ Goto("sock", "get")
  /\ sock' = IF reader = "none" THEN "null" ELSE "new"
  /\ UNCHANGED <<driver, index, taken, encoder, iConn, reader, slack>>
-----------------------------------------------------------------------------
(* The driver, from VIDIOC_STREAMON on *)

Streams == pc \notin {"init", "start", "exit"}

StartFrame ==
  /\ Streams /\ filling = NULL /\ queued # <<>> /\ frames < MaxFrames
  /\ filling' = Head(queued) /\ queued' = Tail(queued)
  /\ frames' = frames + 1
  /\ content' = [content EXCEPT ![Head(queued)] = frames + 1]
  /\ slack' = IF slack > 0 THEN slack - 1 ELSE 0
  /\ UNCHANGED <<pc, done, index, taken, encoder, channel, reader>>

EndFrame ==
  /\ Streams /\ filling # NULL
  /\ done' = Append(done, filling) /\ filling' = NULL
  /\ UNCHANGED <<pc, queued, content, frames, index, taken, encoder, channel, reader, slack>>
-----------------------------------------------------------------------------
(* get_video_data *)

\* VIDIOC_DQBUF.  The device is opened with O_NONBLOCK: without a filled buffer
\* the call fails and leaves buf.index at 0.
get_video_data ==
  /\ Goto("get", "requeue")
  /\ \/ /\ done # <<>> /\ done' = Tail(done)
        /\ index' = Head(done) /\ taken' = content[Head(done)]
     \/ /\ done = <<>> /\ UNCHANGED done
        /\ index' = 0 /\ taken' = 0
  /\ UNCHANGED <<queued, filling, content, frames, encoder, channel, reader, slack>>

\* The buffers that the driver may fill before it comes to the one it gets now.
Margin == N - Len(done) - (IF filling = NULL THEN 0 ELSE 1)

\* VIDIOC_QBUF, which fails for a buffer that was not dequeued.
Requeue ==
  /\ Goto("requeue", "push")
  /\ \/ /\ taken # 0
        /\ queued' = Append(queued, index) /\ slack' = Margin
     \/ /\ taken = 0
        /\ UNCHANGED queued /\ slack' = 0
  /\ UNCHANGED <<filling, done, content, frames, index, taken, encoder, channel, reader>>
-----------------------------------------------------------------------------
(* CodecPush and CodecPop, as rs_run calls them *)

\* encoder_yuv420_h264 lets x264 read the buffer itself.  0 is a picture that is
\* not the frame dequeued: overwritten meanwhile, or there was none.
Picture == IF content[index] = taken THEN taken ELSE 0

\* x264 takes the picture and returns nothing, or the oldest one.
Encodes ==
  LET queue == Append(inside, Picture)
  IN  \/ /\ Len(queue) <= Lookahead
         /\ inside' = queue /\ stream' = NULL
      \/ inside' = Tail(queue) /\ stream' = Head(queue)

\* rs_run returns before it resets stream_delen.
EncodeFails == UNCHANGED <<inside, stream>>

\* Mutant: the loop ends when the encoder fails.
StopsOnError ==
  /\ \/ Goto("push", "send") /\ Encodes
     \/ Goto("push", "exit") /\ EncodeFails
  /\ UNCHANGED <<driver, index, taken, channel, reader, slack>>

rs_run ==
  /\ Goto("push", "send")
  /\ Encodes \/ EncodeFails
  /\ UNCHANGED <<driver, index, taken, channel, reader, slack>>
-----------------------------------------------------------------------------
(* sock_send, in the main loop *)

\* Mutant: a failed connect is not tried again.
ConnectsOnce ==
  \/ /\ sock = "new" /\ reader = "listens"
     /\ sock' = "up" /\ iConn' = TRUE
  \/ /\ sock = "new" /\ reader # "listens"
     /\ sock' = "null" /\ UNCHANGED iConn
  \/ sock # "new" /\ UNCHANGED channel

\* Mutant: iConn is set before the result is looked at.
ConnectsBlindly ==
  /\ iConn' = TRUE
  /\ sock' = IF sock = "new" /\ reader = "listens" THEN "up" ELSE sock

\* A socket that has been connected before cannot be connected again.
Connects ==
  \/ /\ sock = "new" /\ reader = "listens"
     /\ sock' = "up" /\ iConn' = TRUE
  \/ /\ sock = "new" => reader # "listens"
     /\ UNCHANGED channel

\* A failed send resets iConn.
sock_send ==
  \/ sock = "null" /\ UNCHANGED channel
  \/ sock # "null" /\ ~iConn /\ Connects
  \/ iConn /\ sock = "up" /\ UNCHANGED channel
  \/ iConn /\ sock = "broken" /\ iConn' = FALSE /\ UNCHANGED sock

\* The main loop sends what gi has, whatever rs_run has returned.
Send ==
  /\ Goto("send", "get")
  /\ \/ stream # NULL /\ sock_send
     \/ stream = NULL /\ UNCHANGED channel
  /\ UNCHANGED <<driver, index, taken, encoder, reader, slack>>

\* cm_unixsocket_server_init removes what an earlier reader has left at the path,
\* binds it and listens.
ReaderUnlinks ==
  /\ reader = "bound" /\ reader' = "none"
  /\ UNCHANGED <<pc, driver, index, taken, encoder, channel, slack>>

ReaderBinds ==
  /\ reader = "none" /\ reader' = "bound"
  /\ UNCHANGED <<pc, driver, index, taken, encoder, channel, slack>>

ReaderListens ==
  /\ reader = "bound" /\ reader' = "listens"
  /\ UNCHANGED <<pc, driver, index, taken, encoder, channel, slack>>

\* The file stays.
ReaderEnds ==
  /\ reader = "listens" /\ reader' = "bound"
  /\ sock' = IF sock = "up" THEN "broken" ELSE sock
  /\ UNCHANGED <<pc, driver, index, taken, encoder, iConn, slack>>

Reader == ReaderUnlinks \/ ReaderBinds \/ ReaderListens \/ ReaderEnds
-----------------------------------------------------------------------------
Program == \/ rs_init \/ rs_start \/ sock_init
           \/ get_video_data \/ Requeue \/ rs_run \/ Send

Next == Program \/ StartFrame \/ EndFrame \/ Reader

Spec == Init /\ [][Next]_vars

\* Of the program's calls only connect and send can block: a reader that listens
\* accepts and reads.  A frame that is begun ends.
FairSpec == Spec /\ WF_vars(Program) /\ WF_vars(EndFrame)
-----------------------------------------------------------------------------
(* Properties *)

\* Types; the socket is used as far as iConn says.
TypeOK ==
  /\ pc \in {"init", "start", "sock", "get", "requeue", "push", "send", "exit"}
  /\ queued \in Seq(Buffers) /\ done \in Seq(Buffers)
  /\ filling \in Buffers \cup {NULL}
  /\ frames \in 0 .. MaxFrames /\ content \in [Buffers -> 0 .. frames]
  /\ index \in Buffers /\ taken \in 0 .. frames
  /\ inside \in Seq(0 .. frames) /\ Len(inside) <= Lookahead
  /\ stream \in (0 .. frames) \cup {NULL}
  /\ sock \in {"null", "new", "up", "broken"}
  /\ iConn \in BOOLEAN /\ reader \in {"none", "bound", "listens"}
  /\ iConn => sock \in {"up", "broken"}
  /\ slack \in 0 .. N

\* The buffers that the program has dequeued and not queued again.
Held == IF pc = "requeue" /\ taken # 0 THEN {index} ELSE {}

Places(b) ==
  {<<"queued", k>> : k \in {k \in DOMAIN queued : queued[k] = b}}
    \cup {<<"done", k>> : k \in {k \in DOMAIN done : done[k] = b}}
    \cup {<<"filling", 0>> : x \in {b} \cap {filling}}
    \cup {<<"held", 0>> : x \in {b} \cap Held}

\* While the device streams every buffer has one owner and one place: the error
\* paths of get_video_data and rs_run neither lose a buffer nor queue one twice.
EveryBufferOwned ==
  pc \notin {"init", "exit"} => \A b \in Buffers : \E p \in Places(b) : Places(b) = {p}

\* Although the buffer is given back before it is read, what the encoder reads is
\* the frame that was dequeued, unless as many frames have started meanwhile as
\* the driver had buffers to fill.
OverwrittenOnlyWhenLapped ==
  pc \in {"requeue", "push"} /\ taken # 0 /\ slack > 0 => content[index] = taken

\* A buffer that holds a frame is emptied and given back to the driver, whatever
\* fails: the camera never runs out of buffers for good.
BuffersComeBack ==
  \A b \in Buffers : (\E k \in DOMAIN done : done[k] = b)
                        ~> (\E k \in DOMAIN queued : queued[k] = b)

\* If there was a file at the path when the program started, the reader is found
\* however late it comes to listen, if it stays and there are packets: a failed
\* connect is tried again with each of them.  (Without the file sock is "null"
\* for good, and no reader is found.)
ReaderFound ==
  <>[](reader = "listens") /\ []<>(pc = "send" /\ stream # NULL) => (sock = "new" ~> sock = "up")
=============================================================================
