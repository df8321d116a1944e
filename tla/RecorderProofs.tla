--------------------------- MODULE RecorderProofs ---------------------------
(* What holds of the recorder for any time per file, encoder and run time.  *)
EXTENDS Recorder, TLAPS

\* There is no packet before the encoder is open.
NothingYet == pc \in {"none", "made"} => pData = NULL

RecorderInv == TypeOK /\ NamesAreOld /\ NothingYet

\* What Append does.
LEMMA AppendFacts ==
  ASSUME NEW S, NEW s \in Seq(S), NEW e \in S
  PROVE  /\ Append(s, e) \in Seq(S) /\ Append(s, e) # <<>>
         /\ Len(Append(s, e)) = Len(s) + 1
         /\ Append(s, e)[Len(s) + 1] = e
         /\ \A k \in DOMAIN s : Append(s, e)[k] = s[k]
OBVIOUS

(***************************************************************************)
(* The encoder.                                                            *)
(***************************************************************************)

\* A push keeps the encoder's types and returns a packet of a pushed frame.
LEMMA PushType ==
  ASSUME TypeOK, enc_h265_push, pushed' = pushed + 1, pushed' \in 0 .. MaxFrames
  PROVE  /\ inside' \in Seq(1 .. pushed') /\ Len(inside') <= Lookahead
         /\ pData' \in 0 .. pushed'
<1>1. inside \in Seq(1 .. pushed') /\ pData \in 0 .. pushed' /\ pushed' \in Nat
  BY RecorderAssumption DEF TypeOK
<1>2. CASE EncodeFails
  BY <1>1, <1>2 DEF EncodeFails, TypeOK
<1>3. CASE Encodes
  <2> DEFINE queue == Append(inside, pushed + 1)
  <2>1. /\ queue \in Seq(1 .. pushed') /\ queue # <<>>
        /\ Len(queue) = Len(inside) + 1
    <3>1. pushed + 1 \in 1 .. pushed'
      BY DEF TypeOK
    <3>2. QED
      BY <1>1, <3>1, AppendFacts
  <2>2. CASE Len(queue) <= Lookahead /\ inside' = queue /\ UNCHANGED pData
    BY <1>1, <2>1, <2>2
  <2>3. CASE inside' = Tail(queue) /\ pData' = Head(queue)
    <3>1. Tail(queue) \in Seq(1 .. pushed') /\ Len(Tail(queue)) = Len(queue) - 1
      BY <2>1
    <3>2. Head(queue) \in 1 .. pushed'
      BY <2>1
    <3> HIDE DEF queue
    <3>3. QED
      BY <2>1, <2>3, <3>1, <3>2, <1>1, RecorderAssumption DEF TypeOK
  <2>4. QED
    BY <1>3, <2>2, <2>3 DEF Encodes
<1>4. QED
  BY <1>2, <1>3 DEF enc_h265_push

(***************************************************************************)
(* The storage.                                                            *)
(***************************************************************************)

\* What fwrite may do to the files: one file is what it was before or that and
\* the packet, and the packet is cut when it is not there.
LEMMA FwriteFacts ==
  ASSUME NEW S, files \in [Times -> Seq(S)], cut \subseteq S,
         NEW w \in Times, NEW before \in Seq(S), NEW p \in S, fwrite(w, before, p)
  PROVE  /\ files' \in [Times -> Seq(S)] /\ cut' \subseteq S
         /\ \A f \in Times : f # w => files'[f] = files[f]
         /\ \/ files'[w] = Append(before, p) /\ cut' = cut
            \/ files'[w] = before /\ p \in cut'
<1>1. Append(before, p) \in Seq(S)
  BY AppendFacts
<1>2. CASE files' = [files EXCEPT ![w] = Append(before, p)] /\ UNCHANGED cut
  BY <1>1, <1>2
<1>3. CASE files' = [files EXCEPT ![w] = before] /\ cut' = cut \cup {p}
  BY <1>3
<1>4. QED
  BY <1>2, <1>3 DEF fwrite

\* No file has a name that is newer than that of a new one; none with content has
\* the same name when the program has opened one before.
LEMMA NewNameIsFresh ==
  ASSUME RecorderInv, NeedsFile,
         NEW name \in {now, now + 1} \cap Times
  PROVE  \A f \in Times : files[f] # <<>> => f <= name /\ (iLastOpen # 0 => f < name)
<1> SUFFICES ASSUME NEW f \in Times, files[f] # <<>>
             PROVE  f <= name /\ (iLastOpen # 0 => f < name)
  OBVIOUS
<1>1. /\ now \in Nat /\ iLastOpen \in Nat /\ name \in Nat /\ f \in Nat
      /\ name >= now /\ iTimePerFile \in Nat /\ iTimePerFile >= 2
  BY RecorderAssumption DEF RecorderInv, TypeOK, Times
<1>2. f <= now /\ (iLastOpen # 0 => f <= iLastOpen + 1)
  BY DEF RecorderInv, NamesAreOld
<1>3. CASE iLastOpen = 0
  BY <1>1, <1>2, <1>3
<1>4. CASE iLastOpen # 0
  <2>1. now - iLastOpen >= iTimePerFile
    BY <1>4 DEF RecorderInv, NamesAreOld, NeedsFile, Due
  <2>2. QED
    BY <1>1, <1>2, <1>4, <2>1
<1>5. QED
  BY <1>3, <1>4

\* Opening a file: the only one that changes, and holding the packet or nothing.
LEMMA OpensType ==
  ASSUME RecorderInv, pushed' \in Nat, pushed <= pushed',
         NEW p \in 1 .. pushed', NEW name \in {now, now + 1} \cap Times,
         Opens(name, p)
  PROVE  /\ files' \in [Times -> Seq(1 .. pushed')] /\ cut' \subseteq 1 .. pushed'
         /\ \A f \in Times : f # name => files'[f] = files[f]
         /\ \/ files'[name] = <<p>>
            \/ files'[name] = <<>> /\ p \in cut'
<1>1. files \in [Times -> Seq(1 .. pushed')] /\ cut \subseteq 1 .. pushed' /\ name \in Times
  BY DEF RecorderInv, TypeOK
<1>2. <<>> \in Seq(1 .. pushed') /\ Append(<<>>, p) = <<p>>
  OBVIOUS
<1>3. fwrite(name, <<>>, p)
  BY DEF Opens
<1>4. /\ files' \in [Times -> Seq(1 .. pushed')] /\ cut' \subseteq 1 .. pushed'
      /\ \A f \in Times : f # name => files'[f] = files[f]
      /\ \/ files'[name] = Append(<<>>, p) /\ cut' = cut
         \/ files'[name] = <<>> /\ p \in cut'
  <2>1. PICK S : S = 1 .. pushed'
    OBVIOUS
  <2>2. /\ files \in [Times -> Seq(S)] /\ cut \subseteq S /\ <<>> \in Seq(S) /\ p \in S
    BY <1>1, <1>2, <2>1
  <2>3. /\ files' \in [Times -> Seq(S)] /\ cut' \subseteq S
        /\ \A f \in Times : f # name => files'[f] = files[f]
        /\ \/ files'[name] = Append(<<>>, p) /\ cut' = cut
           \/ files'[name] = <<>> /\ p \in cut'
    BY <1>1, <1>3, <2>2, FwriteFacts
  <2>4. QED
    BY <2>1, <2>3
<1>5. QED
  BY <1>2, <1>4

\* Appending: the open file only, by the packet or by nothing.
LEMMA AppendsType ==
  ASSUME RecorderInv, pushed' \in Nat, pushed <= pushed',
         NEW p \in 1 .. pushed', Appends(p)
  PROVE  /\ pWrite \in Times
         /\ files' \in [Times -> Seq(1 .. pushed')] /\ cut' \subseteq 1 .. pushed'
         /\ \A f \in Times : f # pWrite => files'[f] = files[f]
         /\ \/ files'[pWrite] = Append(files[pWrite], p)
            \/ files'[pWrite] = files[pWrite] /\ p \in cut'
<1>1. pWrite \in Times
  BY RecorderAssumption DEF Appends, RecorderInv, TypeOK, Times, NULL
<1>2. files \in [Times -> Seq(1 .. pushed')] /\ cut \subseteq 1 .. pushed'
  BY DEF RecorderInv, TypeOK
<1>3. files[pWrite] \in Seq(1 .. pushed')
  BY <1>1, <1>2
<1>4. fwrite(pWrite, files[pWrite], p)
  BY DEF Appends
<1>5. QED
  BY <1>1, <1>2, <1>3, <1>4, FwriteFacts

\* A file that is left as it is, or made longer by one, keeps what it holds.
LEMMA KeptFiles ==
  ASSUME NEW S, files \in [Times -> Seq(S)], files' \in [Times -> Seq(S)], NEW p \in S,
         NEW f \in Times, files'[f] \in {files[f], Append(files[f], p)} \/ files[f] = <<>>
  PROVE  Keeps(f)
<1>1. files[f] \in Seq(S) /\ Len(files[f]) \in Nat /\ files'[f] \in Seq(S) /\ Len(files'[f]) \in Nat
  OBVIOUS
<1>2. CASE files'[f] = files[f]
  BY <1>1, <1>2 DEF Keeps
<1>3. CASE files'[f] = Append(files[f], p)
  <2>1. PICK s \in Seq(S), t \in Seq(S) : s = files[f] /\ t = files'[f]
    BY <1>1
  <2>2. t = Append(s, p) /\ Len(s) \in Nat
    BY <1>3, <2>1
  <2>3. Len(t) = Len(s) + 1 /\ \A k \in DOMAIN s : t[k] = s[k]
    BY <2>2, AppendFacts
  <2>4. Len(s) <= Len(t)
    BY <2>2, <2>3
  <2>5. QED
    BY <2>1, <2>3, <2>4 DEF Keeps
<1>4. CASE files[f] = <<>>
  <2>1. Len(files[f]) = 0 /\ DOMAIN files[f] = {}
    BY <1>4
  <2>2. QED
    BY <1>1, <2>1 DEF Keeps
<1>5. QED
  BY <1>2, <1>3, <1>4

(***************************************************************************)
(* One write.                                                              *)
(***************************************************************************)

\* Storing a packet opens a file for it, fails to, adds it to the open file,
\* or has no file; the invariant survives, no file loses anything, and none is
\* written after its time.
LEMMA StorageStep ==
  ASSUME RecorderInv, pc = "ready", pushed' \in Nat, pushed <= pushed',
         NEW p \in 1 .. pushed', cm_avstorage_v_push(p)
  PROVE  /\ pc' \in {"ready", "crashed"}
         /\ now' \in Times /\ now <= now'
         /\ iLastOpen' \in 0 .. now' /\ szCurrentFileName' \in 0 .. now'
         /\ pWrite' \in {NULL, szCurrentFileName'}
         /\ files' \in [Times -> Seq(1 .. pushed')]
         /\ refused' \subseteq 1 .. pushed' /\ cut' \subseteq 1 .. pushed'
         /\ NamesAreOld' /\ Extended /\ WrittenInTime
         /\ pc' = "ready" => Stored(p)' \/ p \in refused' \cup cut'
<1> USE RecorderAssumption DEF NULL
<1>1. /\ now \in Nat /\ now \in Times /\ iLastOpen \in 0 .. now
      /\ szCurrentFileName \in 0 .. now /\ pWrite \in {0, szCurrentFileName}
      /\ files \in [Times -> Seq(1 .. pushed')]
      /\ refused \subseteq 1 .. pushed' /\ cut \subseteq 1 .. pushed'
      /\ Times \subseteq Nat \ {0}
  BY DEF RecorderInv, TypeOK, Times
<1>2. /\ iLastOpen = 0 <=> szCurrentFileName = 0
      /\ pWrite # 0 => iLastOpen # 0 /\ iLastOpen <= pWrite /\ pWrite <= iLastOpen + 1
      /\ \A f \in Times : files[f] # <<>> => f <= now /\ (iLastOpen # 0 => f <= iLastOpen + 1)
  BY DEF RecorderInv, NamesAreOld
<1>3. ASSUME NEW name \in {now, now + 1} \cap Times, NeedsFile,
             now' = name, szCurrentFileName' = name, UNCHANGED pc, Opens(name, p)
      PROVE  /\ iLastOpen' \in 0 .. now' /\ pWrite' = name
             /\ files' \in [Times -> Seq(1 .. pushed')]
             /\ refused' = refused /\ cut' \subseteq 1 .. pushed'
             /\ NamesAreOld' /\ Extended /\ WrittenInTime
             /\ Stored(p)' \/ p \in cut'
  <2>1. /\ files' \in [Times -> Seq(1 .. pushed')] /\ cut' \subseteq 1 .. pushed'
        /\ \A f \in Times : f # name => files'[f] = files[f]
        /\ \/ files'[name] = <<p>>
           \/ files'[name] = <<>> /\ p \in cut'
    BY <1>3, OpensType
  <2>2. \A f \in Times : files[f] # <<>> => f <= name /\ (iLastOpen # 0 => f < name)
    BY <1>3, NewNameIsFresh
  <2>3. name \in Nat /\ name \in Times /\ (name = now \/ name = now + 1)
    BY <1>1
  <2>4. pWrite' = name /\ iLastOpen' = now /\ refused' = refused
    BY <1>3 DEF Opens
  <2>5. NamesAreOld'
    <3>1. \A f \in Times : files'[f] # <<>> => f <= now' /\ f <= now + 1
      <4>1. ASSUME NEW f \in Times, files'[f] # <<>>
            PROVE  f <= name
        BY <2>1, <2>2, <2>3, <4>1
      <4>2. QED
        BY <4>1, <1>3, <2>3, <1>1
    <3>2. QED
      BY <1>1, <1>3, <2>3, <2>4, <3>1 DEF NamesAreOld
  <2>6. Extended
    <3>1. ASSUME NEW f \in Times
          PROVE  Keeps(f) \/ FirstOfRun(f)
      <4>1. CASE f = name /\ iLastOpen = 0
        BY <1>2, <1>3, <4>1 DEF FirstOfRun
      <4>2. CASE f = name /\ iLastOpen # 0
        <5>1. files[f] = <<>>
          BY <2>2, <2>3, <4>2
        <5>2. QED
          BY <1>1, <2>1, <5>1, KeptFiles
      <4>3. CASE f # name
        BY <1>1, <2>1, <4>3, KeptFiles
      <4>4. QED
        BY <4>1, <4>2, <4>3
    <3>2. QED
      BY <3>1 DEF Extended
  <2>7. WrittenInTime
    <3>1. now' - name < iTimePerFile
      BY <1>3, <2>3
    <3>2. QED
      BY <2>1, <3>1 DEF WrittenInTime
  <2>8. Stored(p)' \/ p \in cut'
    <3>1. CASE files'[name] = <<p>>
      <4>1. 1 \in DOMAIN files'[name] /\ files'[name][1] = p
        BY <3>1
      <4>2. QED
        BY <4>1, <2>3 DEF Stored
    <3>2. QED
      BY <2>1, <3>1
  <2>9. iLastOpen' \in 0 .. now'
    BY <1>1, <1>3, <2>3, <2>4
  <2>10. QED
    BY <2>1, <2>4, <2>5, <2>6, <2>7, <2>8, <2>9
<1>4. ASSUME NEW name \in {now, now + 1} \cap Times, NeedsFile,
             now' = name, szCurrentFileName' = name, UNCHANGED pc, OpenFails(p)
      PROVE  /\ iLastOpen' \in 0 .. now' /\ pWrite' = 0
             /\ files' = files /\ refused' \subseteq 1 .. pushed' /\ p \in refused'
             /\ cut' = cut
             /\ NamesAreOld' /\ Extended /\ WrittenInTime
  <2>1. /\ pWrite' = 0 /\ files' = files /\ refused' = refused \cup {p} /\ cut' = cut
        /\ iLastOpen' = IF iLastOpen = 0 THEN now ELSE iLastOpen
    BY <1>4 DEF OpenFails
  <2>2. NamesAreOld'
    BY <1>1, <1>2, <1>4, <2>1 DEF NamesAreOld
  <2>3. Extended /\ WrittenInTime
    BY <1>1, <2>1, KeptFiles DEF Extended, WrittenInTime
  <2>4. QED
    BY <1>1, <1>4, <2>1, <2>2, <2>3
<1>5. CASE Reopens(p)
  <2>1. PICK name \in {now, now + 1} \cap Times :
          /\ now' = name /\ szCurrentFileName' = name
          /\ Opens(name, p) \/ OpenFails(p)
    BY <1>5 DEF Reopens
  <2>2. NeedsFile /\ UNCHANGED pc
    BY <1>5 DEF Reopens
  <2>3. now' \in Times /\ now <= now' /\ szCurrentFileName' \in 0 .. now'
    BY <1>1, <2>1
  <2>4. QED
    BY <1>1, <1>3, <1>4, <2>1, <2>2, <2>3
<1>6. CASE Appends(p)
  <2>1. /\ pWrite \in Times
        /\ files' \in [Times -> Seq(1 .. pushed')] /\ cut' \subseteq 1 .. pushed'
        /\ \A f \in Times : f # pWrite => files'[f] = files[f]
        /\ \/ files'[pWrite] = Append(files[pWrite], p)
           \/ files'[pWrite] = files[pWrite] /\ p \in cut'
    BY <1>6, AppendsType
  <2>2. UNCHANGED <<pc, now, iLastOpen, szCurrentFileName, pWrite, refused>>
    BY <1>6 DEF Appends, storage
  <2>3. iLastOpen # 0 /\ now - iLastOpen < iTimePerFile
    BY <1>1, <1>2, <1>6, <2>1 DEF Appends, NeedsFile, Due
  <2>4. pWrite <= now /\ pWrite <= iLastOpen + 1 /\ iLastOpen <= pWrite
    BY <1>1, <1>2, <2>1
  <2>5. NamesAreOld'
    BY <1>1, <1>2, <2>1, <2>2, <2>3, <2>4 DEF NamesAreOld
  <2>6. Extended
    <3>1. \A f \in Times : files'[f] \in {files[f], Append(files[f], p)}
      BY <2>1
    <3>2. QED
      BY <1>1, <2>1, <3>1, KeptFiles DEF Extended
  <2>7. WrittenInTime
    BY <1>1, <2>1, <2>2, <2>3, <2>4 DEF WrittenInTime
  <2>8. Stored(p)' \/ p \in cut'
    <3>1. CASE files'[pWrite] = Append(files[pWrite], p)
      <4> DEFINE k == Len(files[pWrite]) + 1
      <4>1. files[pWrite] \in Seq(1 .. pushed')
        BY <1>1, <2>1
      <4>2. k \in DOMAIN files'[pWrite] /\ files'[pWrite][k] = p
        BY <3>1, <4>1
      <4>3. QED
        BY <4>2, <2>1 DEF Stored
    <3>2. QED
      BY <2>1, <3>1
  <2>9. QED
    BY <1>1, <2>1, <2>2, <2>5, <2>6, <2>7, <2>8
<1>7. CASE WritesToNull
  <2>1. /\ UNCHANGED <<now, iLastOpen, szCurrentFileName, pWrite, files, refused, cut>>
        /\ pc' = "crashed"
    BY <1>7 DEF WritesToNull, storage, disk
  <2>2. NamesAreOld'
    BY <1>1, <1>2, <2>1 DEF NamesAreOld
  <2>3. Extended /\ WrittenInTime
    BY <1>1, <2>1, KeptFiles DEF Extended, WrittenInTime
  <2>4. QED
    BY <1>1, <2>1, <2>2, <2>3
<1>8. QED
  BY <1>1, <1>5, <1>6, <1>7 DEF cm_avstorage_v_push

(***************************************************************************)
(* Every step.                                                             *)
(***************************************************************************)

LEMMA InitInv == Init => RecorderInv
<1> SUFFICES ASSUME Init PROVE RecorderInv
  OBVIOUS
<1> USE RecorderAssumption DEF Init, NULL
<1>1. TypeOK
  <2>1. /\ now \in Times /\ pushed \in 0 .. MaxFrames
        /\ iLastOpen \in 0 .. now /\ szCurrentFileName \in 0 .. now
    BY DEF Times
  <2>2. inside \in Seq(1 .. pushed) /\ Len(inside) <= Lookahead
    OBVIOUS
  <2>3. files \in [Times -> Seq(1 .. pushed)]
    OBVIOUS
  <2>4. QED
    BY <2>1, <2>2, <2>3 DEF TypeOK
<1>2. NamesAreOld
  BY DEF NamesAreOld
<1>3. NothingYet
  BY DEF NothingYet
<1>4. QED
  BY <1>1, <1>2, <1>3 DEF RecorderInv

\* A write; it stores what the encoder returned unless storing fails.
LEMMA WriteStep ==
  ASSUME RecorderInv, cm_avprocess_write
  PROVE  /\ RecorderInv' /\ Extended /\ WrittenInTime
         /\ EveryPacketStored'
<1> USE RecorderAssumption DEF NULL
<1>1. /\ pc = "ready" /\ pushed \in Nat /\ pushed' = pushed + 1
      /\ pushed' \in 0 .. MaxFrames /\ enc_h265_push /\ TypeOK
  BY DEF cm_avprocess_write, RecorderInv, TypeOK
<1>2. /\ inside' \in Seq(1 .. pushed') /\ Len(inside') <= Lookahead
      /\ pData' \in 0 .. pushed'
  BY <1>1, PushType
<1>3. CASE pData' = 0
  <2>1. UNCHANGED <<pc, now, iLastOpen, szCurrentFileName, pWrite, files, refused, cut>>
    BY <1>1, <1>3 DEF cm_avprocess_write, cm_avstorage_v_push, storage, disk
  <2>2. /\ files' \in [Times -> Seq(1 .. pushed')]
        /\ refused' \subseteq 1 .. pushed' /\ cut' \subseteq 1 .. pushed'
    BY <1>1, <2>1 DEF TypeOK
  <2>3. TypeOK'
    BY <1>1, <1>2, <2>1, <2>2 DEF TypeOK
  <2>4. NamesAreOld' /\ Extended /\ WrittenInTime
    <3>1. \A f \in Times : Len(files[f]) \in Nat
      BY <1>1 DEF TypeOK
    <3>2. QED
      BY <2>1, <3>1 DEF RecorderInv, NamesAreOld, Extended, Keeps, WrittenInTime
  <2>5. QED
    BY <1>1, <1>3, <2>1, <2>3, <2>4 DEF RecorderInv, NothingYet, EveryPacketStored
<1>4. CASE pData' # 0
  <2>1. pData' \in 1 .. pushed' /\ cm_avstorage_v_push(pData')
    BY <1>2, <1>4 DEF cm_avprocess_write
  <2>2. PICK p \in 1 .. pushed' : p = pData'
    BY <2>1
  <2>3. cm_avstorage_v_push(p) /\ pushed' \in Nat /\ pushed <= pushed'
    BY <1>1, <2>1, <2>2
  <2>4. /\ pc' \in {"ready", "crashed"}
        /\ now' \in Times /\ now <= now'
        /\ iLastOpen' \in 0 .. now' /\ szCurrentFileName' \in 0 .. now'
        /\ pWrite' \in {NULL, szCurrentFileName'}
        /\ files' \in [Times -> Seq(1 .. pushed')]
        /\ refused' \subseteq 1 .. pushed' /\ cut' \subseteq 1 .. pushed'
        /\ NamesAreOld' /\ Extended /\ WrittenInTime
        /\ pc' = "ready" => Stored(p)' \/ p \in refused' \cup cut'
    BY <1>1, <2>3, StorageStep
  <2>5. TypeOK'
    BY <1>1, <1>2, <2>4 DEF TypeOK
  <2>6. NothingYet'
    BY <2>4 DEF NothingYet
  <2>7. QED
    BY <2>2, <2>4, <2>5, <2>6 DEF RecorderInv, EveryPacketStored, Stored
<1>5. QED
  BY <1>3, <1>4

\* Whatever the program or the clock does.
LEMMA NextStep ==
  ASSUME RecorderInv, [Next]_vars
  PROVE  RecorderInv' /\ Extended /\ WrittenInTime
<1> USE RecorderAssumption DEF NULL
<1>1. TypeOK /\ NamesAreOld /\ NothingYet
  BY DEF RecorderInv
<1>2. \A f \in Times : Len(files[f]) \in Nat
  BY <1>1 DEF TypeOK
<1>3. ASSUME UNCHANGED files
      PROVE  Extended /\ WrittenInTime
  BY <1>2, <1>3 DEF Extended, Keeps, WrittenInTime
<1>4. CASE Tick
  <2>1. /\ now \in Nat /\ now' = now + 1 /\ now' \in Times
        /\ UNCHANGED <<pc, pushed, inside, pData>>
        /\ UNCHANGED <<iLastOpen, szCurrentFileName, pWrite, files, refused, cut>>
    BY <1>1, <1>4 DEF Tick, TypeOK, Times, encoder, storage, disk
  <2>2. TypeOK'
    BY <1>1, <2>1 DEF TypeOK
  <2>3. NamesAreOld'
    BY <1>1, <2>1 DEF NamesAreOld, TypeOK, Times
  <2>4. QED
    BY <1>1, <1>3, <2>1, <2>2, <2>3 DEF RecorderInv, NothingYet
<1>5. ASSUME /\ iLastOpen' = 0 /\ szCurrentFileName' = 0 /\ pWrite' = 0
             /\ inside' = <<>> /\ pData' = 0
             /\ UNCHANGED <<now, pushed, files, refused, cut>>
             /\ pc' \in {"none", "made"}
      PROVE  RecorderInv' /\ Extended /\ WrittenInTime
  <2>1. inside' \in Seq(1 .. pushed) /\ Len(inside') <= Lookahead
    BY <1>5
  <2>2. now \in Nat
    BY <1>1 DEF TypeOK, Times
  <2>3. TypeOK'
    BY <1>1, <1>5, <2>1, <2>2 DEF TypeOK
  <2>4. NamesAreOld'
    BY <1>1, <1>5 DEF NamesAreOld
  <2>5. QED
    BY <1>3, <1>5, <2>3, <2>4 DEF RecorderInv, NothingYet
<1>6. CASE cm_avprocess_init
  BY <1>5, <1>6 DEF cm_avprocess_init, disk
<1>7. CASE cm_avprocess_deinit
  BY <1>5, <1>7 DEF cm_avprocess_deinit, disk
<1>8. CASE cm_avprocess_av_ready
  <2>1. /\ pc = "made" /\ pc' \in {"ready", "made"}
        /\ UNCHANGED <<now, pushed, inside, pData>>
        /\ UNCHANGED <<iLastOpen, szCurrentFileName, pWrite, files, refused, cut>>
    BY <1>8 DEF cm_avprocess_av_ready, encoder, storage, disk
  <2>2. TypeOK'
    BY <1>1, <2>1 DEF TypeOK
  <2>3. NamesAreOld'
    BY <1>1, <2>1 DEF NamesAreOld
  <2>4. QED
    BY <1>1, <1>3, <2>1, <2>2, <2>3 DEF RecorderInv, NothingYet
<1>9. CASE cm_avprocess_write
  BY <1>9, WriteStep
<1>10. CASE UNCHANGED vars
  <2>1. /\ UNCHANGED <<pc, now, pushed, inside, pData>>
        /\ UNCHANGED <<iLastOpen, szCurrentFileName, pWrite, files, refused, cut>>
    BY <1>10 DEF vars, encoder, storage, disk
  <2>2. TypeOK' /\ NamesAreOld' /\ NothingYet'
    BY <1>1, <2>1 DEF TypeOK, NamesAreOld, NothingYet
  <2>3. QED
    BY <1>3, <2>1, <2>2 DEF RecorderInv
<1>11. QED
  BY <1>4, <1>6, <1>7, <1>8, <1>9, <1>10 DEF Next

\* Every packet is stored as soon as it is returned, and stays so.
LEMMA StoredStep ==
  ASSUME RecorderInv, EveryPacketStored, [Next]_vars
  PROVE  EveryPacketStored'
<1> USE DEF NULL
<1>1. CASE cm_avprocess_write
  BY <1>1, WriteStep
<1>2. CASE cm_avprocess_init \/ cm_avprocess_deinit
  BY <1>2 DEF cm_avprocess_init, cm_avprocess_deinit, EveryPacketStored
<1>3. CASE cm_avprocess_av_ready
  BY <1>3 DEF cm_avprocess_av_ready, encoder, EveryPacketStored, RecorderInv, NothingYet
<1>4. CASE Tick \/ UNCHANGED vars
  BY <1>4 DEF Tick, vars, encoder, disk, EveryPacketStored, Stored
<1>5. QED
  BY <1>1, <1>2, <1>3, <1>4 DEF Next

(***************************************************************************)
(* Theorems.                                                               *)
(***************************************************************************)

\* Every variable of the recorder keeps its type, and an open file is the one
\* whose name is stored.
THEOREM TypeCorrect == Spec => []TypeOK
<1>1. Spec => []RecorderInv
  BY InitInv, NextStep, PTL DEF Spec
<1>2. RecorderInv => TypeOK
  BY DEF RecorderInv
<1>3. QED
  BY <1>1, <1>2, PTL

\* No rotation loses what was recorded, if files last two seconds or more and the
\* clock never goes back; only the first file of a run may replace an older one.
THEOREM NothingLost == Spec => NothingOverwritten
<1>1. Spec => []RecorderInv
  BY InitInv, NextStep, PTL DEF Spec
<1>2. RecorderInv /\ [Next]_vars => [Extended]_vars
  BY NextStep
<1>3. QED
  BY <1>1, <1>2, PTL DEF Spec, NothingOverwritten

\* A packet goes to a file that was opened less than iTimePerFile ago.
THEOREM RotatedInTime == Spec => FilesAreShort
<1>1. Spec => []RecorderInv
  BY InitInv, NextStep, PTL DEF Spec
<1>2. RecorderInv /\ [Next]_vars => [WrittenInTime]_vars
  BY NextStep
<1>3. QED
  BY <1>1, <1>2, PTL DEF Spec, FilesAreShort

\* The packet that the encoder returned last is in a file, unless its file could
\* not be opened or fwrite did not take all of it.
THEOREM PacketsStored == Spec => []EveryPacketStored
<1>1. Spec => []RecorderInv
  BY InitInv, NextStep, PTL DEF Spec
<1>2. Init => EveryPacketStored
  BY DEF Init, EveryPacketStored
<1>3. QED
  BY <1>1, <1>2, StoredStep, PTL DEF Spec

(***************************************************************************)
(* The order of the packets.  FilesInOrder is not inductive: a packet that *)
(* is stored must be newer than all that are, so what is stored is older   *)
(* than the packet last returned, and that is older than the frames in the *)
(* encoder, which are in order; and the open file is the newest.           *)
(***************************************************************************)

NewestIsOpen == pWrite # NULL => \A f \in Times : files[f] # <<>> => f <= pWrite

EncoderInOrder ==
  \A j, k \in DOMAIN inside : /\ j < k => inside[j] <= inside[k]
                              /\ pData <= inside[k]

\* No stored packet is newer than v.
StoredBefore(v) == \A f \in Times : \A j \in DOMAIN files[f] : files[f][j] <= v

OrderInv ==
  /\ RecorderInv /\ FilesInOrder /\ NewestIsOpen /\ EncoderInOrder
  /\ \A k \in DOMAIN inside : StoredBefore(inside[k])
  /\ pData # NULL => StoredBefore(pData)

\* A push keeps the encoder's order, and returns nothing older than it has before.
LEMMA PushOrder ==
  ASSUME OrderInv, enc_h265_push, pushed' = pushed + 1
  PROVE  /\ EncoderInOrder'
         /\ \A k \in DOMAIN inside' : StoredBefore(inside'[k])
         /\ pData' # NULL => StoredBefore(pData')
<1>1. /\ inside \in Seq(1 .. pushed) /\ pushed \in Nat /\ pData \in 0 .. pushed
      /\ files \in [Times -> Seq(1 .. pushed)]
  BY RecorderAssumption DEF OrderInv, RecorderInv, TypeOK
<1>2. CASE EncodeFails
  BY <1>2 DEF EncodeFails, OrderInv, EncoderInOrder, StoredBefore
<1>3. CASE Encodes
  <2> DEFINE queue == Append(inside, pushed + 1)
             Frames == 1 .. pushed + 1
  <2>1. inside \in Seq(Frames) /\ pushed + 1 \in Frames
    BY <1>1
  <2>2. StoredBefore(pushed + 1)
    BY <1>1 DEF StoredBefore
  <2> HIDE DEF Frames
  <2>3. /\ queue \in Seq(Frames) /\ queue # <<>> /\ Len(queue) = Len(inside) + 1
        /\ Len(inside) \in Nat /\ queue[Len(inside) + 1] = pushed + 1
        /\ \A k \in DOMAIN inside : queue[k] = inside[k]
    BY <2>1, AppendFacts
  <2>4. /\ DOMAIN inside = 1 .. Len(inside)
        /\ \A k \in 1 .. Len(inside) : inside[k] \in 1 .. pushed
    BY <1>1
  <2> HIDE DEF queue
  <2>5. \A k \in 1 .. Len(queue) : k \in 1 .. Len(inside) \/ k = Len(inside) + 1
    BY <2>3
  <2>6. \A k \in 1 .. Len(queue) : queue[k] \in Nat /\ StoredBefore(queue[k]) /\ pData <= queue[k]
    <3>1. SUFFICES ASSUME NEW k \in 1 .. Len(queue)
                   PROVE  queue[k] \in Nat /\ StoredBefore(queue[k]) /\ pData <= queue[k]
      OBVIOUS
    <3>2. CASE k \in 1 .. Len(inside)
      BY <2>3, <2>4, <3>2 DEF OrderInv, EncoderInOrder
    <3>3. CASE k = Len(inside) + 1
      BY <1>1, <2>2, <2>3, <3>3
    <3>4. QED
      BY <2>5, <3>2, <3>3
  <2>7. \A j, k \in 1 .. Len(queue) : j < k => queue[j] <= queue[k]
    <3>1. SUFFICES ASSUME NEW j \in 1 .. Len(queue), NEW k \in 1 .. Len(queue), j < k
                   PROVE  queue[j] <= queue[k]
      OBVIOUS
    <3>2. j \in 1 .. Len(inside) /\ queue[j] = inside[j]
      BY <2>3, <2>4, <3>1
    <3>3. CASE k \in 1 .. Len(inside)
      BY <2>3, <2>4, <3>1, <3>2, <3>3 DEF OrderInv, EncoderInOrder
    <3>4. CASE k = Len(inside) + 1
      BY <1>1, <2>3, <2>4, <3>2, <3>4
    <3>5. QED
      BY <2>5, <3>3, <3>4
  <2>8. CASE inside' = queue /\ UNCHANGED pData
    <3>1. DOMAIN inside' = 1 .. Len(queue)
      BY <2>3, <2>8
    <3>2. QED
      BY <2>6, <2>7, <2>8, <3>1 DEF EncoderInOrder, OrderInv
  <2>9. CASE inside' = Tail(queue) /\ pData' = Head(queue)
    <3>1. /\ DOMAIN inside' = 1 .. Len(queue) - 1
          /\ \A k \in DOMAIN inside' : inside'[k] = queue[k + 1] /\ k + 1 \in 1 .. Len(queue)
          /\ pData' = queue[1] /\ 1 \in 1 .. Len(queue)
      BY <2>3, <2>9
    <3>2. \A k \in DOMAIN inside' : pData' <= inside'[k] /\ StoredBefore(inside'[k])
      BY <2>6, <2>7, <3>1
    <3>3. \A j, k \in DOMAIN inside' : j < k => inside'[j] <= inside'[k]
      <4>1. SUFFICES ASSUME NEW j \in DOMAIN inside', NEW k \in DOMAIN inside', j < k
                     PROVE  inside'[j] <= inside'[k]
        OBVIOUS
      <4>2. j + 1 < k + 1
        BY <3>1, <4>1
      <4>3. QED
        BY <2>7, <3>1, <4>2
    <3>4. QED
      BY <2>6, <3>1, <3>2, <3>3 DEF EncoderInOrder
  <2>10. QED
    BY <1>3, <2>8, <2>9 DEF Encodes, queue
<1>4. QED
  BY <1>2, <1>3 DEF enc_h265_push

\* A packet that is newer than all goes to the end of the newest file, or is cut;
\* that file may have been emptied before.
LEMMA AppendKeepsOrder ==
  ASSUME RecorderInv, FilesInOrder,
         NEW p \in Nat, StoredBefore(p),
         NEW w \in Times, \A f \in Times : files[f] # <<>> => f <= w,
         NEW before, before \in {files[w], <<>>}, files'[w] \in {before, Append(before, p)},
         \A f \in Times : f # w => files'[f] = files[f]
  PROVE  /\ FilesInOrder' /\ \A f \in Times : files'[f] # <<>> => f <= w
         /\ \A f \in Times : \A j \in DOMAIN files'[f] :
              files'[f][j] = p \/ (j \in DOMAIN files[f] /\ files'[f][j] = files[f][j])
<1> DEFINE last == Len(before) + 1
<1>1. /\ \A f \in Times : /\ files[f] \in Seq(1 .. pushed) /\ DOMAIN files[f] = 1 .. Len(files[f])
                         /\ Len(files[f]) \in Nat
                         /\ \A j \in DOMAIN files[f] : files[f][j] \in Nat
      /\ Times \subseteq Nat /\ pushed \in Nat
  <2>1. files \in [Times -> Seq(1 .. pushed)] /\ Times \subseteq Nat /\ pushed \in Nat
    BY RecorderAssumption DEF RecorderInv, TypeOK, Times
  <2>2. ASSUME NEW f \in Times
        PROVE  /\ files[f] \in Seq(1 .. pushed) /\ DOMAIN files[f] = 1 .. Len(files[f])
               /\ Len(files[f]) \in Nat
               /\ \A j \in DOMAIN files[f] : files[f][j] \in Nat
    <3>1. files[f] \in Seq(1 .. pushed)
      BY <2>1
    <3>2. QED
      BY <2>1, <3>1
  <2>3. QED
    BY <2>1, <2>2
<1>2. /\ \A j \in DOMAIN files'[w] : j \in Nat /\ j <= last
      /\ \A j \in DOMAIN files'[w] :
           \/ j = last /\ files'[w][j] = p
           \/ j \in DOMAIN files[w] /\ files'[w][j] = files[w][j]
  <2>1. /\ before \in Seq(Nat) /\ Len(before) \in Nat
        /\ DOMAIN before = 1 .. Len(before)
        /\ \A j \in DOMAIN before : j \in DOMAIN files[w] /\ before[j] = files[w][j]
    <3>1. CASE before = files[w]
      <4>1. \A j \in 1 .. Len(files[w]) : files[w][j] \in Nat
        BY <1>1
      <4>2. files[w] = [j \in 1 .. Len(files[w]) |-> files[w][j]] /\ Len(files[w]) \in Nat
        BY <1>1
      <4>3. files[w] \in Seq(Nat)
        BY <4>1, <4>2
      <4>4. QED
        BY <1>1, <3>1, <4>3
    <3>2. CASE before = <<>>
      <4>1. <<>> \in Seq(Nat) /\ Len(<<>>) = 0 /\ DOMAIN <<>> = {} /\ 1 .. 0 = {}
        OBVIOUS
      <4>2. QED
        BY <3>2, <4>1
    <3>3. QED
      BY <3>1, <3>2
  <2>2. CASE files'[w] = before
    BY <2>1, <2>2
  <2>3. CASE files'[w] = Append(before, p)
    <3>1. /\ Append(before, p) \in Seq(Nat) /\ Len(Append(before, p)) = last
          /\ Append(before, p)[last] = p
          /\ \A j \in DOMAIN before : Append(before, p)[j] = before[j]
      BY <2>1, AppendFacts
    <3>2. DOMAIN Append(before, p) = 1 .. last
      BY <3>1
    <3>3. \A j \in 1 .. last : j = last \/ j \in DOMAIN before
      BY <2>1
    <3>4. QED
      BY <2>1, <2>3, <3>1, <3>2, <3>3
  <2>4. QED
    BY <2>2, <2>3
<1>3. \A f \in Times : \A j \in DOMAIN files'[f] :
        \/ f = w /\ j = last /\ files'[f][j] = p
        \/ j \in DOMAIN files[f] /\ files'[f][j] = files[f][j]
  BY <1>2
<1>9. last \in Nat
  <2>1. Len(files[w]) \in Nat /\ Len(<<>>) = 0
    BY <1>1
  <2>2. CASE before = files[w]
    BY <2>1, <2>2
  <2>3. CASE before = <<>>
    BY <2>1, <2>3
  <2>4. QED
    BY <2>2, <2>3
<1> HIDE DEF last
<1>4. \A f \in Times : files'[f] # <<>> => f <= w
  <2>1. ASSUME NEW f \in Times, files'[f] # <<>>
        PROVE  f <= w
    <3>1. CASE f = w
      BY <1>1, <3>1
    <3>2. CASE f # w
      <4>1. files'[f] = files[f]
        BY <3>2
      <4>2. QED
        BY <2>1, <4>1
    <3>3. QED
      BY <3>1, <3>2
  <2>2. QED
    BY <2>1
<1>5. FilesInOrder'
  <2>1. SUFFICES ASSUME NEW f \in Times, NEW g \in Times,
                        NEW j \in DOMAIN files'[f], NEW k \in DOMAIN files'[g],
                        f < g \/ (f = g /\ j < k)
                 PROVE  files'[f][j] <= files'[g][k]
    BY DEF FilesInOrder
  <2>2. CASE k \in DOMAIN files[g] /\ files'[g][k] = files[g][k]
    <3>1. g <= w
      <4>1. DOMAIN files[g] # {} /\ DOMAIN <<>> = {}
        BY <2>2
      <4>2. files[g] # <<>>
        BY <4>1
      <4>3. QED
        BY <4>2
    <3>2. ~(f = w /\ j = last)
      BY <1>1, <1>2, <1>9, <2>1, <2>2, <3>1
    <3>3. j \in DOMAIN files[f] /\ files'[f][j] = files[f][j]
      BY <1>3, <3>2
    <3>4. QED
      BY <2>1, <2>2, <3>3 DEF FilesInOrder
  <2>3. CASE files'[g][k] = p
    <3>1. CASE files'[f][j] = p
      BY <2>3, <3>1
    <3>2. CASE j \in DOMAIN files[f] /\ files'[f][j] = files[f][j]
      BY <2>3, <3>2 DEF StoredBefore
    <3>3. QED
      BY <1>3, <3>1, <3>2
  <2>4. QED
    BY <1>3, <2>2, <2>3
<1>6. QED
  BY <1>3, <1>4, <1>5

\* A write keeps the order.
LEMMA WriteOrder ==
  ASSUME OrderInv, cm_avprocess_write
  PROVE  OrderInv'
<1> USE DEF NULL
<1>1. /\ RecorderInv /\ RecorderInv' /\ FilesInOrder
  BY WriteStep DEF OrderInv
<1>2. /\ EncoderInOrder'
      /\ \A k \in DOMAIN inside' : StoredBefore(inside'[k])
      /\ pData' # 0 => StoredBefore(pData')
  BY PushOrder DEF cm_avprocess_write
<1>3. CASE UNCHANGED <<files, pWrite>> \/ (UNCHANGED files /\ pWrite' = 0)
  BY <1>1, <1>2, <1>3 DEF OrderInv, FilesInOrder, NewestIsOpen, StoredBefore
<1>4. ASSUME NEW w \in Times, pWrite' = w, \A f \in Times : files[f] # <<>> => f <= w,
             NEW before, before \in {files[w], <<>>},
             files'[w] \in {before, Append(before, pData')},
             \A f \in Times : f # w => files'[f] = files[f],
             pData' # 0
      PROVE  OrderInv'
  <2>1. pData' \in Nat
    BY <1>1, RecorderAssumption DEF RecorderInv, TypeOK
  <2>2. PICK p \in Nat : p = pData'
    BY <2>1
  <2>3. StoredBefore(p) /\ files'[w] \in {before, Append(before, p)}
    BY <1>2, <1>4, <2>2
  <2>4. /\ FilesInOrder' /\ \A f \in Times : files'[f] # <<>> => f <= w
        /\ \A f \in Times : \A j \in DOMAIN files'[f] :
             files'[f][j] = p \/ (j \in DOMAIN files[f] /\ files'[f][j] = files[f][j])
    BY <1>1, <1>4, <2>3, AppendKeepsOrder
  <2>5. \A f \in Times : \A j \in DOMAIN files'[f] : files'[f][j] <= pData'
    BY <2>2, <2>3, <2>4 DEF StoredBefore
  <2>6. ASSUME NEW k \in DOMAIN inside'
        PROVE  \A f \in Times : \A j \in DOMAIN files'[f] : files'[f][j] <= inside'[k]
    BY <1>2, <2>2, <2>4, <2>6 DEF EncoderInOrder, StoredBefore
  <2>7. NewestIsOpen'
    BY <1>4, <2>4 DEF NewestIsOpen
  <2>8. (pData # 0 => StoredBefore(pData))'
    BY <2>5 DEF StoredBefore
  <2>9. (\A k \in DOMAIN inside : StoredBefore(inside[k]))'
    BY <2>6 DEF StoredBefore
  <2>10. QED
    BY <1>1, <1>2, <2>4, <2>7, <2>8, <2>9 DEF OrderInv
<1>5. cm_avstorage_v_push(pData')
  BY DEF cm_avprocess_write
<1>6. CASE pData' = 0 \/ WritesToNull
  BY <1>3, <1>5, <1>6 DEF cm_avstorage_v_push, WritesToNull, Reopens, Appends, storage, disk
<1>7. CASE pData' # 0 /\ Reopens(pData')
  <2>1. PICK name \in {now, now + 1} \cap Times : Opens(name, pData') \/ OpenFails(pData')
    BY <1>7 DEF Reopens
  <2>2. CASE OpenFails(pData')
    BY <1>3, <2>2 DEF OpenFails
  <2>3. CASE Opens(name, pData')
    <3>1. /\ NeedsFile /\ name \in Times /\ files \in [Times -> Seq(1 .. pushed)]
          /\ fwrite(name, <<>>, pData') /\ pWrite' = name
      BY <1>1, <1>7, <2>3 DEF Reopens, RecorderInv, TypeOK, Opens
    <3>2. \A f \in Times : files[f] # <<>> => f <= name
      BY <1>1, <3>1, NewNameIsFresh
    <3>3. /\ files'[name] \in {<<>>, Append(<<>>, pData')}
          /\ \A f \in Times : f # name => files'[f] = files[f]
      BY <3>1 DEF fwrite
    <3>4. QED
      BY <1>4, <1>7, <3>1, <3>2, <3>3
  <2>4. QED
    BY <2>1, <2>2, <2>3
<1>8. CASE pData' # 0 /\ Appends(pData')
  <2>1. /\ fwrite(pWrite, files[pWrite], pData') /\ pWrite' = pWrite
        /\ pWrite \in Times /\ files \in [Times -> Seq(1 .. pushed)]
    BY <1>1, <1>8, RecorderAssumption DEF Appends, storage, RecorderInv, TypeOK, Times
  <2>2. /\ files'[pWrite] \in {files[pWrite], Append(files[pWrite], pData')}
        /\ \A f \in Times : f # pWrite => files'[f] = files[f]
    BY <2>1 DEF fwrite
  <2>3. \A f \in Times : files[f] # <<>> => f <= pWrite
    BY <1>8 DEF Appends, OrderInv, NewestIsOpen
  <2>4. QED
    BY <1>4, <1>8, <2>1, <2>2, <2>3
<1>9. QED
  BY <1>5, <1>6, <1>7, <1>8 DEF cm_avstorage_v_push

\* The other steps touch neither the files nor the order in the encoder.
LEMMA OrderStep == ASSUME OrderInv, [Next]_vars PROVE OrderInv'
<1> USE DEF NULL
<1>1. RecorderInv'
  BY NextStep DEF OrderInv
<1>2. CASE cm_avprocess_write
  BY <1>2, WriteOrder
<1>3. CASE cm_avprocess_init \/ cm_avprocess_deinit
  <2>1. inside' = <<>> /\ pData' = 0 /\ pWrite' = 0 /\ UNCHANGED files
    BY <1>3 DEF cm_avprocess_init, cm_avprocess_deinit, disk
  <2>2. DOMAIN inside' = {}
    BY <2>1
  <2>3. QED
    BY <1>1, <2>1, <2>2 DEF OrderInv, FilesInOrder, NewestIsOpen, EncoderInOrder
<1>4. CASE Tick \/ cm_avprocess_av_ready \/ UNCHANGED vars
  <2>1. UNCHANGED <<inside, pData, pWrite, files>>
    BY <1>4 DEF Tick, cm_avprocess_av_ready, vars, encoder, storage, disk
  <2>2. QED
    BY <1>1, <2>1 DEF OrderInv, FilesInOrder, NewestIsOpen, EncoderInOrder, StoredBefore
<1>5. QED
  BY <1>2, <1>3, <1>4 DEF Next

\* The files hold the packets in the order of the encoder, for any time per file,
\* over restarts and failures.
THEOREM PacketsInOrder == Spec => []FilesInOrder
<1>1. Init => OrderInv
  <2>1. ASSUME Init PROVE DOMAIN inside = {} /\ \A f \in Times : DOMAIN files[f] = {}
    BY <2>1 DEF Init
  <2>2. QED
    BY <2>1, InitInv DEF Init, OrderInv, FilesInOrder, NewestIsOpen, EncoderInOrder, StoredBefore, NULL
<1>2. OrderInv /\ [Next]_vars => OrderInv'
  BY OrderStep
<1>3. OrderInv => FilesInOrder
  BY DEF OrderInv
<1>4. QED
  BY <1>1, <1>2, <1>3, PTL DEF Spec
=============================================================================
