------------------------------ MODULE Recorder ------------------------------
(***************************************************************************)
(* The video recorder: recordserver/cm_avprocess.c, which pushes frames    *)
(* into the H.265 encoder of codec/enc_h265.c, pops packets                *)
(* and hands them to storage/avstorage.c, which writes files named by the  *)
(* second of their creation and starts a new one every iTimePerFile.       *)
(*                                                                         *)
(* One thread; what interleaves with it is the clock.  A frame is its      *)
(* number, and the packet made of it has the same number.  A file is what  *)
(* fwrite has taken whole: a buffer of stdio that cannot be flushed later  *)
(* is not modelled.                                                        *)
(***************************************************************************)
EXTENDS Integers, Sequences

CONSTANTS
  iTimePerFile,  \* seconds per file
  Lookahead,     \* bound: the frames that x265 keeps inside
  MaxFrames,     \* bound: frames pushed
  MaxTime        \* bound: seconds

ASSUME RecorderAssumption ==
  /\ iTimePerFile \in Nat /\ iTimePerFile >= 2
  /\ Lookahead \in Nat /\ MaxFrames \in Nat /\ MaxTime \in Nat \ {0}

NULL  == 0
Times == 1 .. MaxTime

VARIABLES
  pc,         \* "none", "made", "ready", "crashed"
  now,        \* time(NULL)
  pushed,     \* the number of frames pushed so far
  inside,     \* the frames in the encoder, oldest first
  pData,      \* the packet that enc_h265_pop returns, NULL if iLen is 0
  iLastOpen,  \* 0 at first
  szCurrentFileName,  \* the second in the name, NULL if it is empty
  pWrite,     \* the second in the name of the open file, or NULL
  files,      \* by that second: the packets that are whole in each file
  refused,    \* the packets that cm_avstorage_v_push has returned an error for
  cut         \* the packets that fwrite has taken less than all of

encoder == <<inside, pData>>
storage == <<iLastOpen, szCurrentFileName, pWrite>>
disk    == <<files, refused, cut>>
vars    == <<pc, now, pushed, encoder, storage, disk>>

Init ==
  /\ pc = "none" /\ now = 1 /\ pushed = 0
  /\ inside = <<>> /\ pData = NULL
  /\ iLastOpen = 0 /\ szCurrentFileName = NULL /\ pWrite = NULL
  /\ files = [f \in Times |-> <<>>] /\ refused = {} /\ cut = {}

Tick == /\ now < MaxTime /\ now' = now + 1
        /\ UNCHANGED <<pc, pushed, encoder, storage, disk>>
-----------------------------------------------------------------------------
(* Start and end.  It may be started again within the same second. *)

cm_avprocess_init ==
  /\ pc = "none" /\ pc' = "made"
  /\ iLastOpen' = 0 /\ szCurrentFileName' = NULL /\ pWrite' = NULL
  /\ inside' = <<>> /\ pData' = NULL
  /\ UNCHANGED <<now, pushed, disk>>

\* When the encoder cannot be opened, writing stores nothing ("made").
cm_avprocess_av_ready ==
  /\ pc = "made" /\ pc' \in {"ready", "made"}
  /\ UNCHANGED <<now, pushed, encoder, storage, disk>>

\* Neither is the encoder flushed nor the file closed: the kernel does that at
\* the end of the program.
cm_avprocess_deinit ==
  /\ pc \in {"made", "ready"} /\ pc' = "none"
  /\ inside' = <<>> /\ pData' = NULL
  /\ iLastOpen' = 0 /\ szCurrentFileName' = NULL /\ pWrite' = NULL
  /\ UNCHANGED <<now, pushed, disk>>
-----------------------------------------------------------------------------
(* enc_h265_push and enc_h265_pop *)

\* x265 takes the frame and returns no packet, or the oldest one.
Encodes ==
  LET queue == Append(inside, pushed + 1)
  IN  \/ /\ Len(queue) <= Lookahead
         /\ inside' = queue /\ UNCHANGED pData
      \/ inside' = Tail(queue) /\ pData' = Head(queue)

\* x265 refuses the frame; CodecPush returns an error that nobody looks at.
EncodeFails == UNCHANGED <<inside, pData>>

enc_h265_push == Encodes \/ EncodeFails
-----------------------------------------------------------------------------
(* cm_avstorage_v_push(data, len, 0) *)

Due == iLastOpen # 0 /\ now - iLastOpen >= iTimePerFile

NeedsFile == szCurrentFileName = NULL \/ Due

\* fwrite takes all of the packet, or less, or none: its result is unsigned, so
\* the test for an error never holds.
fwrite(w, before, p) ==
  \/ files' = [files EXCEPT ![w] = Append(before, p)] /\ UNCHANGED cut
  \/ files' = [files EXCEPT ![w] = before] /\ cut' = cut \cup {p}

\* Mutant: a new file does not reset the time.
OpensUntimed(name, p) ==
  /\ pWrite' = name
  /\ iLastOpen' = IF iLastOpen = 0 THEN now ELSE iLastOpen
  /\ fwrite(name, <<>>, p)
  /\ UNCHANGED refused

\* Mutant: the packet that finds the file full is not written.
OpensOnly(name, p) ==
  /\ pWrite' = name /\ iLastOpen' = now
  /\ files' = [files EXCEPT ![name] = <<>>]
  /\ UNCHANGED <<refused, cut>>

\* Mutant: the previous file stays the one that is written.
OpensKeepsOld(name, p) ==
  /\ pWrite' = IF pWrite = NULL THEN name ELSE pWrite
  /\ iLastOpen' = now
  /\ fwrite(name, <<>>, p)
  /\ UNCHANGED refused

\* fopen(..., "w") empties a file that exists.
Opens(name, p) ==
  /\ pWrite' = name /\ iLastOpen' = now
  /\ fwrite(name, <<>>, p)
  /\ UNCHANGED refused

\* The name stays; only the first call sets the time.
OpenFails(p) ==
  /\ pWrite' = NULL
  /\ iLastOpen' = IF iLastOpen = 0 THEN now ELSE iLastOpen
  /\ refused' = refused \cup {p}
  /\ UNCHANGED <<files, cut>>

\* Mutant: the name is not set.
ReopensUnnamed(p) ==
  /\ NeedsFile
  /\ \E name \in {now, now + 1} \cap Times :
       /\ now' = name /\ UNCHANGED szCurrentFileName
       /\ Opens(name, p) \/ OpenFails(p)
  /\ UNCHANGED pc

\* The name is made of a second reading of the clock.
Reopens(p) ==
  /\ NeedsFile
  /\ \E name \in {now, now + 1} \cap Times :
       /\ now' = name /\ szCurrentFileName' = name
       /\ Opens(name, p) \/ OpenFails(p)
  /\ UNCHANGED pc

\* Mutant: time is not looked at once a file is open.
AppendsForever(p) ==
  /\ szCurrentFileName # NULL /\ pWrite # NULL
  /\ fwrite(pWrite, files[pWrite], p)
  /\ UNCHANGED <<pc, now, storage, refused>>

Appends(p) ==
  /\ ~NeedsFile /\ pWrite # NULL
  /\ fwrite(pWrite, files[pWrite], p)
  /\ UNCHANGED <<pc, now, storage, refused>>

\* fwrite to a FILE that could not be opened.
WritesToNull ==
  /\ ~NeedsFile /\ pWrite = NULL
  /\ pc' = "crashed"
  /\ UNCHANGED <<now, storage, disk>>

cm_avstorage_v_push(p) ==
  \/ p = NULL /\ UNCHANGED <<pc, now, storage, disk>>
  \/ p # NULL /\ (Reopens(p) \/ Appends(p) \/ WritesToNull)

\* The results of the push and of the storage are ignored.
cm_avprocess_write ==
  /\ pc = "ready" /\ pushed < MaxFrames
  /\ pushed' = pushed + 1
  /\ enc_h265_push
  /\ cm_avstorage_v_push(pData')
-----------------------------------------------------------------------------
Next == \/ Tick
        \/ cm_avprocess_init \/ cm_avprocess_av_ready \/ cm_avprocess_deinit
        \/ cm_avprocess_write

Spec == Init /\ [][Next]_vars
-----------------------------------------------------------------------------
(* Properties *)

\* Types; an open file is the one that szCurrentFileName names.
TypeOK ==
  /\ pc \in {"none", "made", "ready", "crashed"}
  /\ now \in Times /\ pushed \in 0 .. MaxFrames
  /\ inside \in Seq(1 .. pushed) /\ Len(inside) <= Lookahead
  /\ pData \in 0 .. pushed
  /\ iLastOpen \in 0 .. now /\ szCurrentFileName \in 0 .. now
  /\ pWrite \in {NULL, szCurrentFileName}
  /\ files \in [Times -> Seq(1 .. pushed)]
  /\ refused \subseteq 1 .. pushed /\ cut \subseteq 1 .. pushed

Stored(p) == \E f \in Times : \E k \in DOMAIN files[f] : files[f][k] = p

\* Every packet that enc_h265_pop has returned is in a file, unless its file
\* could not be opened or fwrite did not take all of it (which nobody is told):
\* neither a rotation nor an encoder that holds frames back loses one.
EveryPacketStored ==
  pData # NULL /\ pc = "ready" => Stored(pData) \/ pData \in refused \cup cut

\* Read in the order of their names, the files hold the packets in the order
\* in which the encoder made them, some of them repeated, across rotations and
\* restarts of the program.
FilesInOrder ==
  \A f, g \in Times : \A j \in DOMAIN files[f], k \in DOMAIN files[g] :
    f < g \/ (f = g /\ j < k) => files[f][j] <= files[g][k]

\* A file keeps what it holds.
Keeps(f) ==
  /\ Len(files[f]) <= Len(files'[f])
  /\ \A k \in DOMAIN files[f] : files'[f][k] = files[f][k]

\* The file of second f is the first one that this run of the program opens.
FirstOfRun(f) == szCurrentFileName = NULL /\ szCurrentFileName' = f

Extended == \A f \in Times : Keeps(f) \/ FirstOfRun(f)

\* A rotation loses nothing that was recorded: it never opens the file that it
\* has just closed, although names have a resolution of one second and the clock
\* is read twice.  Only the first file of a run may replace an older one: that of
\* a run that ended within the same second.
NothingOverwritten == [][Extended]_vars

\* A file that changes is not too old.
WrittenInTime ==
  \A f \in Times : files'[f] # files[f] => now' - f < iTimePerFile

\* A file spans less than iTimePerFile seconds.
FilesAreShort == [][WrittenInTime]_vars

(***************************************************************************)
(* Why the names do not collide: a file is never newer than the second     *)
(* after iLastOpen, and the next one is opened no earlier than iTimePerFile*)
(* seconds after it.                                                       *)
(***************************************************************************)
NamesAreOld ==
  /\ iLastOpen = 0 <=> szCurrentFileName = NULL
  /\ pWrite # NULL => iLastOpen # 0 /\ iLastOpen <= pWrite /\ pWrite <= iLastOpen + 1
  /\ \A f \in Times : files[f] # <<>> => f <= now /\ (iLastOpen # 0 => f <= iLastOpen + 1)
=============================================================================
