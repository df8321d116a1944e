--------------------------- MODULE CaptureProofs ---------------------------
(* What holds of the capture program for any number of buffers, any         *)
(* lookahead of the encoder and any number of frames.                       *)
EXTENDS Capture, TLAPS

(***************************************************************************)
(* The inductive invariant.  TypeOK does not say where a buffer is, and    *)
(* EveryBufferOwned does not say how many buffers lie before another: that *)
(* the encoder's buffer is the last of the queue, and that no buffer is    *)
(* missing from the count, is what makes the lap argument go through.      *)
(***************************************************************************)

HasBuffer == pc = "requeue" /\ taken # 0

\* A buffer is in one place.
Once ==
  /\ \A j, k \in 1 .. Len(queued) : queued[j] = queued[k] => j = k
  /\ \A j, k \in 1 .. Len(done) : done[j] = done[k] => j = k
  /\ \A j \in 1 .. Len(queued), k \in 1 .. Len(done) : queued[j] # done[k]
  /\ \A j \in 1 .. Len(queued) : queued[j] # filling
  /\ \A k \in 1 .. Len(done) : done[k] # filling
  /\ HasBuffer => /\ \A j \in 1 .. Len(queued) : queued[j] # index
                  /\ \A k \in 1 .. Len(done) : done[k] # index
                  /\ filling # index

\* And it is somewhere, once the driver has got it.
Somewhere ==
  pc \notin {"init", "exit"} =>
    \A b \in Buffers : \/ \E j \in 1 .. Len(queued) : queued[j] = b
                       \/ \E k \in 1 .. Len(done) : done[k] = b
                       \/ filling = b
                       \/ HasBuffer /\ index = b

\* None is missing from the count.
Counted ==
  pc \notin {"init", "exit"} =>
    Len(queued) + Len(done) + (IF filling = NULL THEN 0 ELSE 1)
      + (IF HasBuffer THEN 1 ELSE 0) = N

\* Only a buffer with a frame in it is dequeued: rs_run takes frame 0 for none.
Shot ==
  /\ \A k \in 1 .. Len(done) : content[done[k]] # 0
  /\ filling # NULL => content[filling] # 0

\* Nothing moves before the stream is on, and nothing is connected before the
\* main loop.
Unstarted ==
  /\ pc \in {"init", "start", "sock"} => ~iConn
  /\ pc \in {"init", "start", "exit"} => done = <<>> /\ filling = NULL
  /\ pc = "init" => queued = <<>>

\* The frame that was dequeued is still in its buffer, and that buffer is behind
\* `slack` others.
Unlapped ==
  /\ HasBuffer => content[index] = taken
  /\ pc = "push" /\ taken # 0 /\ slack > 0 =>
       /\ slack <= Len(queued) /\ queued[Len(queued)] = index
       /\ content[index] = taken

IInv == TypeOK /\ Once /\ Somewhere /\ Counted /\ Shot /\ Unstarted /\ Unlapped

(***************************************************************************)
(* Sequences.                                                              *)
(***************************************************************************)

\* What Append does.
LEMMA AppendFacts ==
  ASSUME NEW S, NEW s \in Seq(S), NEW e \in S
  PROVE  /\ Append(s, e) \in Seq(S) /\ Append(s, e) # <<>>
         /\ Len(Append(s, e)) = Len(s) + 1 /\ Len(s) \in Nat
         /\ Append(s, e)[Len(s) + 1] = e
         /\ \A k \in 1 .. Len(s) : Append(s, e)[k] = s[k]
OBVIOUS

\* What Head and Tail do.
LEMMA TailFacts ==
  ASSUME NEW S, NEW s \in Seq(S), s # <<>>
  PROVE  /\ Tail(s) \in Seq(S) /\ Len(Tail(s)) = Len(s) - 1 /\ Len(s) \in Nat \ {0}
         /\ Head(s) = s[1] /\ Head(s) \in S
         /\ \A k \in 1 .. Len(s) - 1 : Tail(s)[k] = s[k + 1] /\ k + 1 \in 1 .. Len(s)
OBVIOUS

\* A sequence over fewer numbers is one over more.
LEMMA SeqGrows ==
  ASSUME NEW m \in Nat, NEW n \in Nat, m <= n, NEW s \in Seq(0 .. m)
  PROVE  s \in Seq(0 .. n)
<1>1. Len(s) \in Nat /\ s = [k \in 1 .. Len(s) |-> s[k]]
  OBVIOUS
<1>2. \A k \in 1 .. Len(s) : s[k] \in 0 .. n
  <2>1. \A k \in 1 .. Len(s) : s[k] \in 0 .. m
    OBVIOUS
  <2>2. QED
    BY <2>1
<1>3. QED
  BY <1>1, <1>2

(***************************************************************************)
(* The steps.                                                              *)
(***************************************************************************)

LEMMA InitIInv == Init => IInv
<1> SUFFICES ASSUME Init PROVE IInv
  OBVIOUS
<1>1. TypeOK
  <2>1. /\ pc = "init" /\ sock = "null" /\ iConn = FALSE
        /\ reader \in {"none", "bound", "listens"}
    BY DEF Init
  <2>2. /\ queued \in Seq(Buffers) /\ done \in Seq(Buffers) /\ filling = NULL
        /\ frames \in 0 .. MaxFrames /\ content \in [Buffers -> 0 .. frames]
        /\ index \in Buffers /\ taken \in 0 .. frames /\ slack \in 0 .. N
    BY CaptureAssumption DEF Init, Buffers
  <2>3. inside \in Seq(0 .. frames) /\ Len(inside) <= Lookahead /\ stream = NULL
    BY CaptureAssumption DEF Init
  <2>4. QED
    BY <2>1, <2>2, <2>3 DEF TypeOK
<1>2. QED
  BY <1>1 DEF Init, IInv, Once, Somewhere, Counted, Shot, Unstarted, Unlapped, HasBuffer, NULL

\* The driver's side is untouched and the program holds no buffer before or after.
LEMMA QuietStep ==
  ASSUME IInv, UNCHANGED <<driver, index, taken, slack>>,
         pc \notin {"init", "requeue"}, pc' \notin {"init", "requeue", "push"},
         pc = "exit" => pc' = "exit",
         pc' \in {"start", "exit"} => done = <<>> /\ filling = NULL,
         pc' \in {"start", "sock"} => ~iConn'
  PROVE  (Once /\ Somewhere /\ Counted /\ Shot /\ Unstarted /\ Unlapped)'
BY DEF IInv, Once, Somewhere, Counted, Shot, Unstarted, Unlapped, HasBuffer, driver

LEMMA rs_initStep == ASSUME IInv, rs_init PROVE IInv'
<1> USE CaptureAssumption
<1>1. CASE Goto("init", "start") /\ request_buffers
  <2>1. /\ queued' \in Seq(Buffers) /\ Len(queued') = N
        /\ \A k \in 1 .. N : queued'[k] = k - 1
    BY <1>1 DEF request_buffers, Buffers
  <2>2. TypeOK'
    BY <1>1, <2>1 DEF rs_init, Goto, IInv, TypeOK, encoder, channel, Buffers, NULL
  <2>3. done' = <<>> /\ filling' = NULL /\ ~HasBuffer'
    BY <1>1 DEF rs_init, Goto, IInv, Unstarted, HasBuffer
  <2>4. Once'
    BY <2>1, <2>3 DEF Once, NULL
  <2>5. Somewhere'
    <3>1. \A b \in Buffers : b + 1 \in 1 .. N /\ queued'[b + 1] = b
      BY <2>1 DEF Buffers
    <3>2. QED
      BY <2>1, <3>1 DEF Somewhere
  <2>6. Counted' /\ Shot' /\ Unstarted' /\ Unlapped'
    BY <1>1, <2>1, <2>3 DEF Counted, Shot, Unstarted, Unlapped, Goto, HasBuffer, IInv, rs_init, channel
  <2>7. QED
    BY <2>2, <2>4, <2>5, <2>6 DEF IInv
<1>2. CASE Goto("init", "exit") /\ UNCHANGED queued
  BY <1>2 DEF rs_init, Goto, IInv, TypeOK, Once, Somewhere, Counted, Shot,
              Unstarted, Unlapped, HasBuffer, encoder, channel
<1>3. QED
  BY <1>1, <1>2 DEF rs_init

LEMMA rs_startStep == ASSUME IInv, rs_start PROVE IInv'
<1>1. TypeOK'
  BY DEF rs_start, Goto, IInv, TypeOK, encoder, channel, driver
<1>2. QED
  BY <1>1, QuietStep DEF rs_start, Goto, IInv, Unstarted, channel

LEMMA sock_initStep == ASSUME IInv, sock_init PROVE IInv'
<1>1. TypeOK'
  BY DEF sock_init, Goto, IInv, TypeOK, Unstarted, encoder, driver
<1>2. QED
  BY <1>1, QuietStep DEF sock_init, Goto, IInv

\* A frame starts: the first buffer of the queue is overwritten.
LEMMA StartFrameStep == ASSUME IInv, StartFrame PROVE IInv'
<1> DEFINE first == Head(queued)
<1> USE CaptureAssumption
<1>1. /\ queued \in Seq(Buffers) /\ queued # <<>> /\ frames \in Nat /\ filling = NULL
      /\ queued' = Tail(queued) /\ filling' = first /\ frames' = frames + 1
      /\ UNCHANGED <<pc, done, index, taken>> /\ pc \notin {"init", "start", "exit"}
  BY DEF StartFrame, Streams, IInv, TypeOK
<1>2. /\ Tail(queued) \in Seq(Buffers) /\ Len(Tail(queued)) = Len(queued) - 1
      /\ Len(queued) \in Nat \ {0} /\ first = queued[1] /\ first \in Buffers
      /\ \A k \in 1 .. Len(queued) - 1 :
           Tail(queued)[k] = queued[k + 1] /\ k + 1 \in 1 .. Len(queued)
  BY <1>1, TailFacts
<1> HIDE DEF first
<1>3. first # NULL /\ (HasBuffer' <=> HasBuffer)
  BY <1>1, <1>2 DEF Buffers, NULL, HasBuffer
<1>4. TypeOK'
  <2>1. content' \in [Buffers -> 0 .. frames']
    BY <1>1, <1>2 DEF StartFrame, IInv, TypeOK, first
  <2>2. inside' \in Seq(0 .. frames') /\ Len(inside') <= Lookahead
    BY <1>1, SeqGrows DEF StartFrame, IInv, TypeOK, encoder
  <2>3. slack' \in 0 .. N
    BY DEF StartFrame, IInv, TypeOK
  <2>4. /\ index' \in Buffers /\ taken' \in 0 .. frames' /\ stream' \in (0 .. frames') \cup {NULL}
        /\ frames' \in 0 .. MaxFrames
    BY <1>1 DEF StartFrame, IInv, TypeOK, encoder
  <2>5. /\ done' \in Seq(Buffers) /\ sock' = sock /\ iConn' = iConn /\ reader' = reader
        /\ pc' = pc
    BY DEF StartFrame, IInv, TypeOK, channel
  <2>6. QED
    BY <1>1, <1>2, <2>1, <2>2, <2>3, <2>4, <2>5 DEF IInv, TypeOK
<1>5. Once'
  <2>1. \A j \in 1 .. Len(queued') : /\ queued'[j] = queued[j + 1] /\ j + 1 \in 1 .. Len(queued)
                                    /\ queued'[j] # first
    BY <1>1, <1>2 DEF IInv, Once
  <2>2. \A k \in 1 .. Len(done) : done[k] # first
    BY <1>1, <1>2 DEF IInv, Once
  <2>3. HasBuffer => first # index
    BY <1>1, <1>2 DEF IInv, Once
  <2>4. \A j, k \in 1 .. Len(queued') : queued'[j] = queued'[k] => j = k
    <3>1. SUFFICES ASSUME NEW j \in 1 .. Len(queued'), NEW k \in 1 .. Len(queued'),
                          queued'[j] = queued'[k]
                   PROVE  j = k
      OBVIOUS
    <3>2. j + 1 = k + 1
      BY <2>1, <3>1 DEF IInv, Once
    <3>3. QED
      BY <3>2
  <2>5. QED
    BY <1>1, <1>3, <2>1, <2>2, <2>3, <2>4 DEF IInv, Once
<1>6. Somewhere'
  <2>1. \A j \in 1 .. Len(queued) : j # 1 => j - 1 \in 1 .. Len(queued') /\ queued'[j - 1] = queued[j]
    BY <1>1, <1>2
  <2>2. SUFFICES ASSUME NEW b \in Buffers
                 PROVE  \/ \E j \in 1 .. Len(queued') : queued'[j] = b
                        \/ \E k \in 1 .. Len(done') : done'[k] = b
                        \/ filling' = b
                        \/ HasBuffer' /\ index' = b
    BY DEF Somewhere
  <2>3. CASE \E j \in 1 .. Len(queued) : queued[j] = b
    BY <1>1, <1>2, <2>1, <2>3
  <2>4. CASE ~\E j \in 1 .. Len(queued) : queued[j] = b
    <3>1. b # NULL
      BY DEF Buffers, NULL
    <3>2. QED
      BY <1>1, <1>3, <2>4, <3>1 DEF IInv, Somewhere
  <2>5. QED
    BY <2>3, <2>4
<1>7. Counted'
  <2>1. Len(done) \in Nat
    BY DEF IInv, TypeOK
  <2>2. QED
    BY <1>1, <1>2, <1>3, <2>1 DEF IInv, Counted
<1>8. Unstarted'
  BY <1>1 DEF IInv, Unstarted, StartFrame, channel
<1>9. Unlapped'
  <2>1. \A b \in Buffers : b # first => content'[b] = content[b]
    BY <1>1 DEF StartFrame, IInv, TypeOK, first
  <2>2. HasBuffer' => content'[index'] = taken'
    BY <1>1, <1>2, <1>3, <2>1 DEF IInv, Unlapped, Once, TypeOK
  <2>3. ASSUME pc' = "push", taken' # 0, slack' > 0
        PROVE  /\ slack' <= Len(queued') /\ queued'[Len(queued')] = index'
               /\ content'[index'] = taken'
    <3>1. slack \in Nat /\ slack' = slack - 1 /\ slack > 1
      BY <2>3 DEF StartFrame, IInv, TypeOK
    <3>2. /\ slack <= Len(queued) /\ queued[Len(queued)] = index
          /\ content[index] = taken
      BY <1>1, <2>3, <3>1 DEF IInv, Unlapped
    <3>3. Len(queued') = Len(queued) - 1 /\ Len(queued) > 1
      BY <1>1, <1>2, <3>1, <3>2
    <3>4. queued'[Len(queued')] = index
      BY <1>1, <1>2, <3>2, <3>3
    <3>5. index # first
      <4>1. 1 \in 1 .. Len(queued) /\ Len(queued) \in 1 .. Len(queued) /\ Len(queued) # 1
        BY <1>2, <3>3
      <4>2. QED
        BY <1>2, <3>2, <4>1 DEF IInv, Once
    <3>6. QED
      BY <1>1, <1>2, <2>1, <3>1, <3>2, <3>3, <3>4, <3>5 DEF IInv, TypeOK
  <2>4. QED
    BY <2>2, <2>3 DEF Unlapped
<1>10. Shot'
  <2>1. \A b \in Buffers : content'[b] = IF b = first THEN frames + 1 ELSE content[b]
    BY <1>1 DEF StartFrame, IInv, TypeOK, first
  <2>2. \A k \in 1 .. Len(done) : done[k] \in Buffers /\ content[done[k]] # 0
    BY DEF IInv, TypeOK, Shot
  <2>3. QED
    BY <1>1, <1>2, <2>1, <2>2 DEF Shot
<1>11. QED
  BY <1>4, <1>5, <1>6, <1>7, <1>8, <1>9, <1>10 DEF IInv

\* A frame is complete: its buffer waits to be dequeued.
LEMMA EndFrameStep == ASSUME IInv, EndFrame PROVE IInv'
<1> USE CaptureAssumption
<1>1. /\ done \in Seq(Buffers) /\ filling \in Buffers /\ filling # NULL
      /\ done' = Append(done, filling) /\ filling' = NULL
      /\ UNCHANGED <<pc, queued, content, frames, index, taken, encoder, channel, reader, slack>>
      /\ pc \notin {"init", "start", "exit"}
  BY DEF EndFrame, Streams, IInv, TypeOK
<1>2. /\ done' \in Seq(Buffers) /\ Len(done') = Len(done) + 1 /\ Len(done) \in Nat
      /\ done'[Len(done) + 1] = filling
      /\ \A k \in 1 .. Len(done) : done'[k] = done[k]
  BY <1>1, AppendFacts
<1>3. HasBuffer' <=> HasBuffer
  BY <1>1 DEF HasBuffer
<1>4. TypeOK'
  BY <1>1, <1>2 DEF IInv, TypeOK, encoder, channel
<1>5. Once'
  <2>1. /\ \A b \in Buffers : b # NULL
        /\ \A j \in 1 .. Len(queued) : queued[j] \in Buffers
        /\ index \in Buffers
    <3>1. queued \in Seq(Buffers) /\ index \in Buffers
      BY DEF IInv, TypeOK
    <3>2. \A b \in Buffers : b # NULL
      BY DEF Buffers, NULL
    <3>3. QED
      BY <3>1, <3>2
  <2>2. \A k \in 1 .. Len(done') : /\ done'[k] \in Buffers
                                 /\ (k \in 1 .. Len(done) \/ k = Len(done) + 1)
    BY <1>2
  <2>3. \A j, k \in 1 .. Len(done') : done'[j] = done'[k] => j = k
    BY <1>1, <1>2, <2>2 DEF IInv, Once
  <2>4. \A j \in 1 .. Len(queued), k \in 1 .. Len(done') : queued[j] # done'[k]
    BY <1>1, <1>2, <2>2 DEF IInv, Once
  <2>5. HasBuffer => \A k \in 1 .. Len(done') : done'[k] # index
    BY <1>1, <1>2, <2>2 DEF IInv, Once
  <2>6. QED
    BY <1>1, <1>3, <2>1, <2>2, <2>3, <2>4, <2>5 DEF IInv, Once
<1>6. Somewhere'
  <2>1. \A k \in 1 .. Len(done) : k \in 1 .. Len(done') /\ done'[k] = done[k]
    BY <1>2
  <2>2. Len(done) + 1 \in 1 .. Len(done') /\ done'[Len(done) + 1] = filling
    BY <1>2
  <2>3. QED
    BY <1>1, <1>3, <2>1, <2>2 DEF IInv, Somewhere
<1>7. Counted'
  <2>1. Len(queued) \in Nat
    BY DEF IInv, TypeOK
  <2>2. QED
    BY <1>1, <1>2, <1>3, <2>1 DEF IInv, Counted
<1>8. Unstarted' /\ Unlapped'
  BY <1>1, <1>3 DEF IInv, Unstarted, Unlapped, channel
<1>9. Shot'
  <2>1. \A k \in 1 .. Len(done') : k \in 1 .. Len(done) \/ k = Len(done) + 1
    BY <1>2
  <2>2. QED
    BY <1>1, <1>2, <2>1 DEF IInv, Shot
<1>10. QED
  BY <1>4, <1>5, <1>6, <1>7, <1>8, <1>9 DEF IInv

\* A buffer is dequeued, or none is there.
LEMMA get_video_dataStep == ASSUME IInv, get_video_data PROVE IInv'
<1> USE CaptureAssumption
<1>1. /\ pc = "get" /\ pc' = "requeue" /\ ~HasBuffer /\ done \in Seq(Buffers)
      /\ UNCHANGED <<queued, filling, content, frames, encoder, channel, reader, slack>>
      /\ queued \in Seq(Buffers)
  BY DEF get_video_data, Goto, HasBuffer, IInv, TypeOK
<1>2. CASE done = <<>> /\ UNCHANGED done /\ index' = 0 /\ taken' = 0
  <2>1. TypeOK'
    BY <1>1, <1>2 DEF IInv, TypeOK, Buffers, encoder, channel
  <2>2. ~HasBuffer'
    BY <1>2 DEF HasBuffer
  <2>3. QED
    BY <1>1, <1>2, <2>1, <2>2 DEF IInv, Once, Somewhere, Counted, Shot, Unstarted, Unlapped, channel
<1>3. CASE done # <<>> /\ done' = Tail(done) /\ index' = Head(done) /\ taken' = content[Head(done)]
  <2>1. /\ done' \in Seq(Buffers) /\ Len(done') = Len(done) - 1 /\ Len(done) \in Nat \ {0}
        /\ index' = done[1] /\ index' \in Buffers
        /\ \A k \in 1 .. Len(done) - 1 : done'[k] = done[k + 1] /\ k + 1 \in 1 .. Len(done)
    BY <1>1, <1>3, TailFacts
  <2>2. TypeOK'
    BY <1>1, <1>3, <2>1 DEF IInv, TypeOK, encoder, channel
  <2>3. HasBuffer' /\ content'[index'] = taken' /\ index' # NULL
    <3>1. 1 \in 1 .. Len(done) /\ content[done[1]] # 0
      BY <2>1 DEF IInv, Shot
    <3>2. QED
      BY <1>1, <1>3, <2>1, <3>1 DEF HasBuffer, Buffers, NULL
  <2>4. Once'
    <3>1. \A k \in 1 .. Len(done') : /\ done'[k] = done[k + 1] /\ k + 1 \in 1 .. Len(done)
                                   /\ done'[k] # index'
      <4>1. SUFFICES ASSUME NEW k \in 1 .. Len(done')
                     PROVE  /\ done'[k] = done[k + 1] /\ k + 1 \in 1 .. Len(done)
                            /\ done'[k] # index'
        OBVIOUS
      <4>2. done'[k] = done[k + 1] /\ k + 1 \in 1 .. Len(done)
        BY <2>1
      <4>3. 1 \in 1 .. Len(done) /\ k + 1 # 1
        BY <2>1
      <4>4. done[k + 1] # done[1]
        BY <4>2, <4>3 DEF IInv, Once
      <4>5. QED
        BY <2>1, <4>2, <4>4
    <3>2. \A j, k \in 1 .. Len(done') : done'[j] = done'[k] => j = k
      <4>1. SUFFICES ASSUME NEW j \in 1 .. Len(done'), NEW k \in 1 .. Len(done'), done'[j] = done'[k]
                     PROVE  j = k
        OBVIOUS
      <4>2. j + 1 = k + 1
        BY <3>1, <4>1 DEF IInv, Once
      <4>3. QED
        BY <4>2
    <3>3. /\ \A j \in 1 .. Len(queued) : queued[j] # index'
          /\ filling # index'
      BY <2>1 DEF IInv, Once
    <3>4. QED
      BY <1>1, <3>1, <3>2, <3>3 DEF IInv, Once
  <2>5. Somewhere'
    <3>1. \A k \in 1 .. Len(done) : k # 1 => k - 1 \in 1 .. Len(done') /\ done'[k - 1] = done[k]
      BY <2>1
    <3>2. SUFFICES ASSUME NEW b \in Buffers
                   PROVE  \/ \E j \in 1 .. Len(queued') : queued'[j] = b
                          \/ \E k \in 1 .. Len(done') : done'[k] = b
                          \/ filling' = b
                          \/ HasBuffer' /\ index' = b
      BY DEF Somewhere
    <3>3. CASE \E k \in 1 .. Len(done) : done[k] = b
      BY <2>1, <2>3, <3>1, <3>3
    <3>4. CASE ~\E k \in 1 .. Len(done) : done[k] = b
      BY <1>1, <3>4 DEF IInv, Somewhere
    <3>5. QED
      BY <3>3, <3>4
  <2>6. Counted'
    <3>1. Len(queued) \in Nat
      BY <1>1
    <3>2. Len(queued) + Len(done) + (IF filling = NULL THEN 0 ELSE 1) = N
      BY <1>1, <2>1, <3>1 DEF IInv, Counted
    <3>3. Len(queued') = Len(queued) /\ filling' = filling
      BY <1>1
    <3>4. Len(queued') + Len(done') + (IF filling' = NULL THEN 0 ELSE 1) + 1 = N
      BY <2>1, <3>1, <3>2, <3>3
    <3>5. QED
      BY <2>3, <3>4 DEF Counted
  <2>7. Shot'
    BY <1>1, <2>1 DEF IInv, Shot
  <2>8. Unstarted' /\ Unlapped'
    BY <1>1, <2>3 DEF IInv, Unstarted, Unlapped, channel
  <2>9. QED
    BY <2>2, <2>4, <2>5, <2>6, <2>7, <2>8 DEF IInv
<1>4. QED
  BY <1>2, <1>3 DEF get_video_data

\* The buffer goes back to the driver, behind all others.
LEMMA RequeueStep == ASSUME IInv, Requeue PROVE IInv'
<1> USE CaptureAssumption
<1>1. /\ pc = "requeue" /\ pc' = "push" /\ ~HasBuffer' /\ queued \in Seq(Buffers)
      /\ UNCHANGED <<filling, done, content, frames, index, taken, encoder, channel, reader>>
      /\ done \in Seq(Buffers) /\ index \in Buffers /\ taken \in Nat
  BY DEF Requeue, Goto, HasBuffer, IInv, TypeOK
<1>2. CASE taken = 0 /\ UNCHANGED queued /\ slack' = 0
  <2>1. TypeOK'
    BY <1>1, <1>2 DEF IInv, TypeOK, encoder, channel
  <2>2. ~HasBuffer
    BY <1>2 DEF HasBuffer
  <2>3. QED
    BY <1>1, <1>2, <2>1, <2>2 DEF IInv, Once, Somewhere, Counted, Shot, Unstarted, Unlapped, channel
<1>3. CASE taken # 0 /\ queued' = Append(queued, index) /\ slack' = Margin
  <2>1. /\ queued' \in Seq(Buffers) /\ Len(queued') = Len(queued) + 1 /\ Len(queued) \in Nat
        /\ queued'[Len(queued) + 1] = index
        /\ \A k \in 1 .. Len(queued) : queued'[k] = queued[k]
    BY <1>1, <1>3, AppendFacts
  <2>2. HasBuffer
    BY <1>1, <1>3 DEF HasBuffer
  <2>3. slack' = Len(queued') /\ slack' \in 0 .. N
    <3>1. Len(done) \in Nat
      BY <1>1
    <3>2. Len(queued) + Len(done) + (IF filling = NULL THEN 0 ELSE 1) + 1 = N
      BY <1>1, <2>2 DEF IInv, Counted
    <3>3. QED
      BY <1>3, <2>1, <3>1, <3>2 DEF Margin
  <2>4. TypeOK'
    BY <1>1, <2>1, <2>3 DEF IInv, TypeOK, encoder, channel
  <2>5. \A k \in 1 .. Len(queued') : k \in 1 .. Len(queued) \/ k = Len(queued) + 1
    BY <2>1
  <2>6. Once'
    <3>1. \A j, k \in 1 .. Len(queued') : queued'[j] = queued'[k] => j = k
      BY <2>1, <2>2, <2>5 DEF IInv, Once
    <3>2. \A j \in 1 .. Len(queued'), k \in 1 .. Len(done) : queued'[j] # done[k]
      BY <2>1, <2>2, <2>5 DEF IInv, Once
    <3>3. \A j \in 1 .. Len(queued') : queued'[j] # filling
      BY <2>1, <2>2, <2>5 DEF IInv, Once
    <3>4. QED
      BY <1>1, <3>1, <3>2, <3>3 DEF IInv, Once
  <2>7. Somewhere'
    <3>1. \A k \in 1 .. Len(queued) : k \in 1 .. Len(queued') /\ queued'[k] = queued[k]
      BY <2>1
    <3>2. Len(queued) + 1 \in 1 .. Len(queued') /\ queued'[Len(queued) + 1] = index
      BY <2>1
    <3>3. QED
      BY <1>1, <2>2, <3>1, <3>2 DEF IInv, Somewhere
  <2>8. Counted'
    <3>1. Len(done) \in Nat
      BY <1>1
    <3>2. QED
      BY <1>1, <2>1, <2>2, <3>1 DEF IInv, Counted
  <2>9. Shot' /\ Unstarted'
    BY <1>1 DEF IInv, Shot, Unstarted, channel
  <2>10. Unlapped'
    BY <1>1, <2>1, <2>2, <2>3 DEF IInv, Unlapped
  <2>11. QED
    BY <2>4, <2>6, <2>7, <2>8, <2>9, <2>10 DEF IInv
<1>4. QED
  BY <1>2, <1>3 DEF Requeue

\* The picture is encoded or not; the buffer stays where it is.
LEMMA rs_runStep == ASSUME IInv, rs_run PROVE IInv'
<1>1. /\ pc = "push" /\ pc' = "send" /\ inside \in Seq(0 .. frames) /\ frames \in Nat
      /\ Len(inside) <= Lookahead /\ stream \in (0 .. frames) \cup {NULL}
      /\ UNCHANGED <<driver, index, taken, channel, reader, slack>>
  BY DEF rs_run, Goto, IInv, TypeOK
<1>2. inside' \in Seq(0 .. frames) /\ Len(inside') <= Lookahead /\ stream' \in (0 .. frames) \cup {NULL}
  <2>1. CASE EncodeFails
    BY <1>1, <2>1 DEF EncodeFails
  <2>2. CASE Encodes
    <3> DEFINE queue == Append(inside, Picture)
    <3>1. Picture \in 0 .. frames
      BY <1>1 DEF Picture, IInv, TypeOK
    <3>2. /\ queue \in Seq(0 .. frames) /\ queue # <<>> /\ Len(queue) = Len(inside) + 1
          /\ Len(inside) \in Nat
      BY <1>1, <3>1, AppendFacts
    <3> HIDE DEF queue
    <3>3. /\ Tail(queue) \in Seq(0 .. frames) /\ Len(Tail(queue)) = Len(inside)
          /\ Head(queue) \in 0 .. frames
      <4> DEFINE Frames == 0 .. frames
      <4>1. queue \in Seq(Frames)
        BY <3>2
      <4> HIDE DEF Frames
      <4>2. /\ Tail(queue) \in Seq(Frames) /\ Len(Tail(queue)) = Len(queue) - 1
            /\ Head(queue) \in Frames
        BY <3>2, <4>1, TailFacts
      <4>3. QED
        BY <3>2, <4>2 DEF Frames
    <3>4. \/ Len(queue) <= Lookahead /\ inside' = queue /\ stream' = NULL
          \/ inside' = Tail(queue) /\ stream' = Head(queue)
      BY <2>2 DEF Encodes, queue
    <3>5. QED
      BY <1>1, <3>2, <3>3, <3>4
  <2>3. QED
    BY <2>1, <2>2 DEF rs_run
<1>3. TypeOK'
  BY <1>1, <1>2 DEF IInv, TypeOK, driver, channel
<1>4. QED
  BY <1>1, <1>3, QuietStep DEF IInv

\* A packet is sent, or the socket connected, or neither.
LEMMA SendStep == ASSUME IInv, Send PROVE IInv'
<1>1. TypeOK'
  <2>1. /\ sock' \in {"null", "new", "up", "broken"} /\ iConn' \in BOOLEAN
        /\ iConn' => sock' \in {"up", "broken"}
    <3>1. \/ UNCHANGED channel
          \/ sock' = "up" /\ iConn' = TRUE
          \/ iConn' = FALSE /\ sock' = sock
      BY DEF Send, sock_send, Connects
    <3>2. /\ sock \in {"null", "new", "up", "broken"} /\ iConn \in BOOLEAN
          /\ iConn => sock \in {"up", "broken"}
      BY DEF IInv, TypeOK
    <3>3. CASE UNCHANGED channel
      BY <3>2, <3>3, Zenon DEF channel
    <3>4. CASE sock' = "up" /\ iConn' = TRUE
      BY <3>4, Zenon
    <3>5. CASE iConn' = FALSE /\ sock' = sock
      BY <3>2, <3>5, Zenon
    <3>6. QED
      BY <3>1, <3>3, <3>4, <3>5, Zenon
  <2>2. QED
    BY <2>1 DEF Send, Goto, IInv, TypeOK, driver, encoder
<1>2. QED
  BY <1>1, QuietStep DEF Send, Goto, IInv

\* The reader comes and goes.
LEMMA ReaderStep == ASSUME IInv, Reader PROVE IInv'
<1>1. TypeOK'
  <2>1. /\ sock' \in {"null", "new", "up", "broken"} /\ iConn' = iConn
        /\ iConn' => sock' \in {"up", "broken"}
        /\ reader' \in {"none", "bound", "listens"}
    <3>1. /\ sock \in {"null", "new", "up", "broken"}
          /\ iConn => sock \in {"up", "broken"}
      BY DEF IInv, TypeOK
    <3>2. iConn' = iConn /\ reader' \in {"none", "bound", "listens"}
      BY DEF Reader, ReaderUnlinks, ReaderBinds, ReaderListens, ReaderEnds, IInv, TypeOK, channel
    <3>3. sock' = sock \/ (sock = "up" /\ sock' = "broken")
      BY DEF Reader, ReaderUnlinks, ReaderBinds, ReaderListens, ReaderEnds, channel
    <3>4. QED
      BY <3>1, <3>2, <3>3, Zenon
  <2>2. UNCHANGED <<pc, driver, index, taken, encoder, slack>>
    BY DEF Reader, ReaderUnlinks, ReaderBinds, ReaderListens, ReaderEnds
  <2>3. QED
    BY <2>1, <2>2 DEF IInv, TypeOK, driver, encoder
<1>2. UNCHANGED <<pc, queued, filling, done, content, index, taken, slack, iConn>>
  BY DEF Reader, ReaderUnlinks, ReaderBinds, ReaderListens, ReaderEnds, driver, channel
<1>3. HasBuffer' = HasBuffer
  BY <1>2 DEF HasBuffer
<1>4. Once' /\ Somewhere' /\ Counted'
  BY <1>2, <1>3 DEF IInv, Once, Somewhere, Counted
<1>5. Shot' /\ Unstarted' /\ Unlapped'
  BY <1>2, <1>3 DEF IInv, Shot, Unstarted, Unlapped
<1>6. QED
  BY <1>1, <1>4, <1>5 DEF IInv

LEMMA NextIInv == IInv /\ [Next]_vars => IInv'
<1> SUFFICES ASSUME IInv, [Next]_vars PROVE IInv'
  OBVIOUS
<1>1. CASE UNCHANGED vars
  BY <1>1 DEF vars, driver, encoder, channel, IInv, TypeOK, Once, Somewhere, Counted, Shot,
              Unstarted, Unlapped, HasBuffer
<1>2. CASE Program
  BY <1>2, rs_initStep, rs_startStep, sock_initStep, get_video_dataStep, RequeueStep,
     rs_runStep, SendStep DEF Program
<1>3. CASE StartFrame \/ EndFrame \/ Reader
  BY <1>3, StartFrameStep, EndFrameStep, ReaderStep
<1>4. QED
  BY <1>1, <1>2, <1>3 DEF Next

LEMMA Invariance == Spec => []IInv
BY InitIInv, NextIInv, PTL DEF Spec

(***************************************************************************)
(* The theorems.                                                           *)
(***************************************************************************)

\* The types, and that the socket is up or broken whenever iConn says connected.
THEOREM TypeCorrect == Spec => []TypeOK
<1>1. IInv => TypeOK
  BY DEF IInv
<1>2. QED
  BY <1>1, Invariance, PTL

\* From one buffer that is somewhere, and nowhere twice, to one place.
LEMMA OwnedFromIInv == IInv => EveryBufferOwned
<1> SUFFICES ASSUME IInv, pc \notin {"init", "exit"}, NEW b \in Buffers
             PROVE  \E p \in Places(b) : Places(b) = {p}
  BY DEF EveryBufferOwned
<1> DEFINE Q == {<<"queued", k>> : k \in {k \in DOMAIN queued : queued[k] = b}}
           D == {<<"done", k>> : k \in {k \in DOMAIN done : done[k] = b}}
           F == {<<"filling", 0>> : x \in {b} \cap {filling}}
           H == {<<"held", 0>> : x \in {b} \cap Held}
<1>1. Places(b) = Q \cup D \cup F \cup H
  BY DEF Places
<1>2. /\ DOMAIN queued = 1 .. Len(queued) /\ DOMAIN done = 1 .. Len(done)
      /\ b \in Held <=> HasBuffer /\ index = b
  BY DEF IInv, TypeOK, Held, HasBuffer
<1>3. ASSUME NEW j \in DOMAIN queued, queued[j] = b
      PROVE  Q = {<<"queued", j>>} /\ D = {} /\ F = {} /\ H = {}
  <2>1. \A k \in DOMAIN queued : queued[k] = b => k = j
    BY <1>2, <1>3 DEF IInv, Once
  <2>2. (\A k \in DOMAIN done : done[k] # b) /\ b # filling /\ b \notin Held
    BY <1>2, <1>3 DEF IInv, Once
  <2>3. QED
    BY <1>3, <2>1, <2>2
<1>4. ASSUME NEW j \in DOMAIN done, done[j] = b
      PROVE  Q = {} /\ D = {<<"done", j>>} /\ F = {} /\ H = {}
  <2>1. \A k \in DOMAIN done : done[k] = b => k = j
    BY <1>2, <1>4 DEF IInv, Once
  <2>2. (\A k \in DOMAIN queued : queued[k] # b) /\ b # filling /\ b \notin Held
    BY <1>2, <1>4 DEF IInv, Once
  <2>3. QED
    BY <1>4, <2>1, <2>2
<1>5. ASSUME filling = b
      PROVE  Q = {} /\ D = {} /\ F = {<<"filling", 0>>} /\ H = {}
  <2>1. /\ \A k \in DOMAIN queued : queued[k] # b
        /\ \A k \in DOMAIN done : done[k] # b
        /\ b \notin Held
    BY <1>2, <1>5 DEF IInv, Once
  <2>2. QED
    BY <1>5, <2>1
<1>6. ASSUME HasBuffer, index = b
      PROVE  Q = {} /\ D = {} /\ F = {} /\ H = {<<"held", 0>>}
  <2>1. /\ \A k \in DOMAIN queued : queued[k] # b
        /\ \A k \in DOMAIN done : done[k] # b
        /\ b # filling /\ b \in Held
    BY <1>2, <1>6 DEF IInv, Once
  <2>2. QED
    BY <2>1
<1>7. \/ \E j \in DOMAIN queued : queued[j] = b
      \/ \E j \in DOMAIN done : done[j] = b
      \/ filling = b
      \/ HasBuffer /\ index = b
  BY <1>2 DEF IInv, Somewhere
<1> HIDE DEF Q, D, F, H
<1>8. \E p : Places(b) = {p}
  BY <1>1, <1>3, <1>4, <1>5, <1>6, <1>7
<1>9. QED
  BY <1>8

\* Whatever fails, no buffer is lost and none is queued twice, for any number of
\* buffers.
THEOREM BuffersOwned == Spec => []EveryBufferOwned
BY Invariance, OwnedFromIInv, PTL

\* The encoder reads the frame that was dequeued from a buffer that the driver
\* already has back, as long as fewer frames start than buffers were ahead of it.
THEOREM NotOverwritten == Spec => []OverwrittenOnlyWhenLapped
<1>1. IInv => OverwrittenOnlyWhenLapped
  BY DEF IInv, Unlapped, HasBuffer, OverwrittenOnlyWhenLapped
<1>2. QED
  BY <1>1, Invariance, PTL
=============================================================================
