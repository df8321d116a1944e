------------------------- MODULE HttpDownloadProofs -------------------------
(* The descriptors, the types and the file of http_download, for any        *)
(* responses and any failures.                                              *)
EXTENDS HttpDownload, FiniteSetTheorems, WellFoundedInduction, TLAPS

OpenSock == IF sock = "none" THEN 0 ELSE 1
OpenFile == IF save_file THEN 1 ELSE 0

\* NothingHeld is not inductive: connect_server must find no socket, or it would
\* forget one, and Closed says of no other state what is open.
HeldInv ==
  /\ held = OpenSock + OpenFile
  /\ pc \in {"call", "done"} => OpenSock = 0 /\ OpenFile = 0
  /\ pc \notin {"call", "done", "clean_up"} => OpenSock = 1
  /\ OpenSock \in {0, 1} /\ OpenFile \in {0, 1}

\* No socket and no file are open.
LEMMA NothingOpen ==
  ASSUME Cleared
  PROVE  OpenSock' = 0 /\ OpenFile' = 0
BY Zenon DEF Cleared, OpenSock, OpenFile

LEMMA InitHeld == Init => HeldInv
<1> SUFFICES ASSUME Init PROVE HeldInv
  OBVIOUS
<1>1. pc = "call" /\ sock = "none" /\ save_file = FALSE /\ held = 0
  BY DEF Init
<1>2. OpenSock = 0 /\ OpenFile = 0
  BY <1>1, Zenon DEF OpenSock, OpenFile
<1>3. QED
  BY <1>1, <1>2 DEF HeldInv

\* The server and the network change a socket only while it is one.
LEMMA NetworkStep ==
  ASSUME HeldInv, Arrive \/ PeerCloses \/ PeerBreaks
  PROVE  HeldInv'
<1>1. UNCHANGED <<pc, save_file, held>> /\ (sock = "none" <=> sock' = "none")
  BY DEF Arrive, PeerCloses, PeerBreaks, disk, link
<1>2. OpenSock' = OpenSock /\ OpenFile' = OpenFile
  BY <1>1, Zenon DEF OpenSock, OpenFile
<1>3. QED
  BY <1>1, <1>2 DEF HeldInv

\* A step of the header or of the body that writes nothing.
LEMMA QuietStep ==
  ASSUME HeldInv, UNCHANGED disk, pc \notin {"call", "done", "clean_up"},
         pc' \notin {"call", "done"}, sock' = sock \/ (sock = "rst" /\ sock' = "fin")
  PROVE  HeldInv'
<1>1. UNCHANGED <<save_file, held>> /\ (sock = "none" <=> sock' = "none")
  BY DEF disk
<1>2. OpenSock' = OpenSock /\ OpenFile' = OpenFile
  BY <1>1, Zenon DEF OpenSock, OpenFile
<1>3. QED
  BY <1>1, <1>2 DEF HeldInv

\* save_data opens the file or has it open.
LEMMA SaveStep ==
  ASSUME HeldInv, pc = "data", NEW bytes, save_data(bytes, "data"),
         sock' = sock \/ (sock = "rst" /\ sock' = "fin")
  PROVE  HeldInv'
<1>1. OpenSock' = OpenSock
  <2>1. sock = "none" <=> sock' = "none"
    OBVIOUS
  <2>2. QED
    BY <2>1, Zenon DEF OpenSock
<1>2. pc' \in {"data", "clean_up"}
  BY DEF save_data, Gives
<1>3. \/ save_file' = TRUE /\ held' = IF save_file THEN held ELSE held + 1
      \/ UNCHANGED <<save_file, held>>
  BY DEF save_data, disk
<1>4. CASE save_file' = TRUE /\ save_file /\ held' = held
  <2>1. OpenFile = 1 /\ OpenFile' = 1
    BY <1>4, Zenon DEF OpenFile
  <2>2. QED
    BY <1>1, <1>2, <1>4, <2>1 DEF HeldInv
<1>5. CASE save_file' = TRUE /\ ~save_file /\ held' = held + 1
  <2>1. OpenFile = 0 /\ OpenFile' = 1
    BY <1>5, Zenon DEF OpenFile
  <2>2. QED
    BY <1>1, <1>2, <1>5, <2>1 DEF HeldInv
<1>6. CASE UNCHANGED <<save_file, held>>
  <2>1. OpenFile' = OpenFile
    BY <1>6, Zenon DEF OpenFile
  <2>2. QED
    BY <1>1, <1>2, <1>6, <2>1 DEF HeldInv
<1>7. QED
  BY <1>3, <1>4, <1>5, <1>6, Zenon

LEMMA NextHeld == HeldInv /\ [Next]_vars => HeldInv'
<1> SUFFICES ASSUME HeldInv, [Next]_vars PROVE HeldInv'
  OBVIOUS
<1>1. CASE UNCHANGED vars
  <2>1. UNCHANGED <<pc, sock, save_file, held>>
    BY <1>1 DEF vars, link, disk
  <2>2. OpenSock' = OpenSock /\ OpenFile' = OpenFile
    BY <2>1, Zenon DEF OpenSock, OpenFile
  <2>3. QED
    BY <2>1, <2>2 DEF HeldInv
<1>2. CASE Arrive \/ PeerCloses \/ PeerBreaks
  BY <1>2, NetworkStep
<1>3. CASE connect_server_fails
  <2>1. /\ pc = "call" /\ pc' = "clean_up" /\ UNCHANGED <<sock, save_file, held>>
    BY <1>3 DEF connect_server_fails, Gives, link, disk
  <2>2. OpenSock' = OpenSock /\ OpenFile' = OpenFile
    BY <2>1, Zenon DEF OpenSock, OpenFile
  <2>3. QED
    BY <2>1, <2>2 DEF HeldInv
<1>4. CASE connect_server
  <2>1. /\ pc = "call" /\ pc' = "send" /\ sock' = "up" /\ held' = held + 1
        /\ UNCHANGED save_file
    BY <1>4 DEF connect_server
  <2>2. OpenSock' = 1 /\ OpenFile' = OpenFile
    BY <2>1, Zenon DEF OpenSock, OpenFile
  <2>3. QED
    BY <2>1, <2>2 DEF HeldInv
<1>5. CASE send_request \/ UnknownStatus
  BY <1>5, QuietStep DEF send_request, UnknownStatus, Gives, link
<1>6. CASE StatusLine \/ HeaderLine \/ SizeLine
  BY <1>6, QuietStep DEF StatusLine, HeaderLine, SizeLine, ReadsPart, Goes
<1>7. CASE StatusLineTorn \/ HeaderLineTorn \/ SizeLineTorn
  BY <1>7, QuietStep
  DEF StatusLineTorn, HeaderLineTorn, SizeLineTorn, ReadsPart, Gives, AfterReset
<1>8. CASE Reads \/ Interrupted \/ EndTakenForSignal
  BY <1>8, SaveStep DEF Reads, Interrupted, EndTakenForSignal
<1>9. CASE ReadFails \/ BodyRead \/ PartEnds \/ PartEndFails
  BY <1>9, QuietStep DEF ReadFails, BodyRead, PartEnds, PartEndFails, Stops, Gives, link
<1>12. CASE ReadsNegative
  <2>1. pc = "data" /\ (sock' = sock \/ (sock = "rst" /\ sock' = "fin"))
    BY <1>12 DEF ReadsNegative, Stops
  <2>2. CASE save_data(stream, "data")
    BY <2>1, <2>2, SaveStep
  <2>3. CASE pc' = "crashed" /\ UNCHANGED disk
    BY <2>1, <2>3, QuietStep
  <2>4. QED
    BY <1>12, <2>2, <2>3 DEF ReadsNegative
<1>10. CASE clean_up \/ Redirect
  <2>1. /\ pc' \in {"done", "call"} /\ Cleared /\ held' = held - Closed
    BY <1>10 DEF clean_up, Redirect
  <2>2. OpenSock' = 0 /\ OpenFile' = 0
    BY <2>1, NothingOpen
  <2>3. Closed = OpenSock + OpenFile
    BY DEF Closed, OpenSock, OpenFile
  <2>4. QED
    BY <2>1, <2>2, <2>3 DEF HeldInv
<1>11. QED
  BY <1>1, <1>2, <1>3, <1>4, <1>5, <1>6, <1>7, <1>8, <1>9, <1>10, <1>12
  DEF Next, http_download

\* Whatever a server answers, and whatever fails, every descriptor that was opened
\* is closed before http_download starts again or returns.
THEOREM DescriptorsClosed == Spec => []NothingHeld
<1>1. HeldInv => NothingHeld
  <2>1. Closed = OpenSock + OpenFile
    BY DEF Closed, OpenSock, OpenFile
  <2>2. QED
    BY <2>1 DEF HeldInv, NothingHeld
<1>2. QED
  BY <1>1, InitHeld, NextHeld, PTL DEF Spec

(***************************************************************************)
(* The types.  Nothing that is read makes a length other than a number, or *)
(* has a call open a second socket or a second file.                       *)
(***************************************************************************)

\* What has arrived is a sequence, of whatever.
Sequenced == \E X : stream \in Seq(X)

TypeInv == TypeOK /\ Sequenced /\ HeldInv

Network == Arrive \/ PeerCloses \/ PeerBreaks
Connects == connect_server_fails \/ connect_server \/ send_request
Whole == StatusLine \/ HeaderLine \/ SizeLine
Pieces == StatusLineTorn \/ HeaderLineTorn \/ SizeLineTorn
Saves == Reads \/ Interrupted \/ EndTakenForSignal
Ending == UnknownStatus \/ ReadFails \/ BodyRead \/ PartEnds \/ PartEndFails
Leaving == clean_up \/ Redirect

LEMMA NextParts ==
  Next => /\ \/ Network \/ Connects \/ Whole \/ Pieces
             \/ Saves \/ ReadsNegative \/ Ending \/ Leaving
          /\ UNCHANGED ended
  BY DEF Next, http_download, Network, Connects, Whole, Pieces, Saves, Ending, Leaving

\* What save_data changes besides the file.
LEMMA SaveFacts ==
  ASSUME NEW bytes, save_data(bytes, "data")
  PROVE  /\ pc' \in {"data", "clean_up"} /\ result' \in {result, -1}
         /\ save_file' \in {TRUE, save_file}
         /\ fails' = fails \/ Fail
         /\ flaw' \in {flaw, "rewritten"}
<1>1. pc' \in {"data", "clean_up"} /\ result' \in {result, -1}
  BY DEF save_data, Gives
<1>2. save_file' \in {TRUE, save_file}
  BY DEF save_data, disk
<1>3. (fails' = fails \/ Fail) /\ flaw' \in {flaw, "rewritten"}
  BY DEF save_data
<1>4. QED
  BY <1>1, <1>2, <1>3

\* What it changes that a length below 0 is read with.
LEMMA NegativeFacts ==
  ASSUME ReadsNegative
  PROVE  /\ pc = "data" /\ pc' \in {"data", "clean_up", "crashed"} /\ result' \in {result, -1}
         /\ save_file' \in {TRUE, save_file} /\ (fails' = fails \/ Fail)
         /\ flaw' \in {flaw, "rewritten"} /\ stream' = <<>>
         /\ sock' = sock \/ (sock = "rst" /\ sock' = "fin")
         /\ errno' \in {errno, "EAGAIN", "EINTR", "other"}
         /\ signals' \in {signals, 1 - signals}
         /\ UNCHANGED <<answer, rest, status_code, chunked_flag, len, part_len>>
<1>1. /\ pc = "data" /\ stream' = <<>> /\ (sock' = sock \/ (sock = "rst" /\ sock' = "fin"))
      /\ errno' \in {errno, "EAGAIN", "EINTR", "other"} /\ signals' \in {signals, 1 - signals}
      /\ UNCHANGED <<answer, rest, status_code, chunked_flag, len, part_len>>
  BY DEF ReadsNegative, Stops, Interrupts, peer, header
<1>2. CASE save_data(stream, "data")
  BY <1>1, <1>2, SaveFacts
<1>3. CASE pc' = "crashed" /\ UNCHANGED <<result, disk, fails, flaw>>
  BY <1>1, <1>3 DEF disk
<1>4. QED
  BY <1>2, <1>3 DEF ReadsNegative

LEMMA ModesKept ==
  ASSUME Modes, Next
  PROVE  Modes'
<1>1. CASE Network
  <2>1. sock' \in {sock, "fin", "rst"}
    BY <1>1 DEF Network, Arrive, PeerCloses, PeerBreaks
  <2>2. UNCHANGED <<answer, pc, chunked_flag, save_file, errno, flaw>>
    BY <1>1 DEF Network, Arrive, PeerCloses, PeerBreaks, peer, header, disk
  <2>3. QED
    BY <2>1, <2>2 DEF Modes
<1>2. CASE Connects
  <2>1. pc' \in {"clean_up", "send", "status"} /\ sock' \in {sock, "up"}
    BY <1>2 DEF Connects, connect_server_fails, connect_server, send_request, Gives, link
  <2>2. answer' = answer \/ answer' \in Responses
    BY <1>2 DEF Connects, connect_server_fails, connect_server, send_request, peer
  <2>3. UNCHANGED <<chunked_flag, save_file, errno, flaw>>
    BY <1>2 DEF Connects, connect_server_fails, connect_server, send_request, header, disk
  <2>4. QED
    BY <2>1, <2>2, <2>3 DEF Modes
<1>3. CASE Whole
  <2>1. pc' \in {"header", "size", "data", "redirect", "failed"}
    BY <1>3 DEF Whole, StatusLine, HeaderLine, SizeLine, ReadsPart, Goes, Modes
  <2>2. chunked_flag' \in BOOLEAN
    BY <1>3 DEF Whole, StatusLine, HeaderLine, SizeLine, header, Modes
  <2>3. UNCHANGED <<answer, sock, save_file, errno, flaw>>
    BY <1>3 DEF Whole, StatusLine, HeaderLine, SizeLine, Gets, disk, peer
  <2>4. QED
    BY <2>1, <2>2, <2>3 DEF Modes
<1>4. CASE Pieces
  <2>1. pc' \in {"header", "data", "clean_up", "crashed"}
    BY <1>4 DEF Pieces, StatusLineTorn, HeaderLineTorn, SizeLineTorn, ReadsPart, Gives
  <2>2. chunked_flag' \in BOOLEAN
    BY <1>4 DEF Pieces, StatusLineTorn, HeaderLineTorn, SizeLineTorn, header, Modes
  <2>3. errno' \in {errno, "EAGAIN", "EINTR", "other"}
    BY <1>4 DEF Pieces, StatusLineTorn, HeaderLineTorn, SizeLineTorn, GetsLess, Interrupts
  <2>4. sock' \in {sock, "fin"} /\ flaw' \in {flaw, "torn"}
    BY <1>4 DEF Pieces, StatusLineTorn, HeaderLineTorn, SizeLineTorn, AfterReset, Torn
  <2>5. UNCHANGED <<answer, save_file>>
    BY <1>4 DEF Pieces, StatusLineTorn, HeaderLineTorn, SizeLineTorn, disk, peer
  <2>6. QED
    BY <2>1, <2>2, <2>3, <2>4, <2>5 DEF Modes
<1>5. CASE Saves
  <2>1. /\ pc' \in {"data", "clean_up"} /\ save_file' \in {save_file, TRUE}
        /\ flaw' \in {flaw, "rewritten"}
    BY <1>5, SaveFacts DEF Saves, Reads, Interrupted, EndTakenForSignal
  <2>2. UNCHANGED <<answer, sock, chunked_flag>> /\ errno' \in {errno, "EINTR"}
    BY <1>5 DEF Saves, Reads, Interrupted, EndTakenForSignal, Interrupts, peer, header
  <2>3. QED
    BY <2>1, <2>2 DEF Modes
<1>6. CASE Ending
  <2>1. pc' \in {"clean_up", "crlf", "size"}
    BY <1>6 DEF Ending, UnknownStatus, ReadFails, BodyRead, PartEnds, PartEndFails, Gives
  <2>2. sock' \in {sock, "fin"} /\ errno' \in {errno, "EAGAIN", "EINTR", "other"}
    BY <1>6 DEF Ending, UnknownStatus, ReadFails, BodyRead, PartEnds, PartEndFails, Stops,
                Interrupts, link
  <2>3. UNCHANGED <<answer, chunked_flag, save_file, flaw>>
    BY <1>6 DEF Ending, UnknownStatus, ReadFails, BodyRead, PartEnds, PartEndFails, peer, header,
                disk
  <2>4. QED
    BY <2>1, <2>2, <2>3 DEF Modes
<1>7. CASE Leaving
  <2>1. /\ pc' \in {"done", "call"} /\ Cleared /\ answer' = answer
        /\ flaw' \in {flaw, "disk"}
    BY <1>7 DEF Leaving, clean_up, Redirect
  <2>2. QED
    BY <2>1 DEF Modes, Cleared
<1>8. CASE ReadsNegative
  <2>1. /\ pc' \in {"data", "clean_up", "crashed"} /\ save_file' \in {TRUE, save_file}
        /\ flaw' \in {flaw, "rewritten"} /\ sock' \in {sock, "fin"}
        /\ errno' \in {errno, "EAGAIN", "EINTR", "other"} /\ UNCHANGED <<answer, chunked_flag>>
    BY <1>8, NegativeFacts
  <2>2. /\ pc' \in {"call", "send", "status", "header", "failed", "redirect", "data", "size",
                    "crlf", "clean_up", "done", "crashed"}
        /\ flaw' \in {"none", "torn", "rewritten", "disk"}
    BY <2>1 DEF Modes
  <2>3. /\ sock' \in {"none", "up", "fin", "rst"}
        /\ errno' \in {"none", "EAGAIN", "EINTR", "other"}
    BY <2>1 DEF Modes
  <2>4. answer' \in Responses \cup {NoAnswer} /\ chunked_flag' \in BOOLEAN /\ save_file' \in BOOLEAN
    BY <2>1 DEF Modes
  <2>5. QED
    BY <2>2, <2>3, <2>4 DEF Modes
<1>9. QED
  BY <1>1, <1>2, <1>3, <1>4, <1>5, <1>6, <1>7, <1>8, NextParts

LEMMA CodesKept ==
  ASSUME Modes, Codes, Next
  PROVE  Codes'
<1>1. CASE Network \/ Connects
  BY <1>1, NextParts DEF Codes, Network, Arrive, PeerCloses, PeerBreaks, Connects,
     connect_server_fails, connect_server, send_request, Gives, header
<1>2. result' \in {result, 0, -1}
  <2>1. CASE Whole \/ Pieces
    BY <2>1 DEF Whole, StatusLine, HeaderLine, SizeLine, Pieces, StatusLineTorn, HeaderLineTorn,
                SizeLineTorn, Gives
  <2>2. CASE Saves
    BY <2>2, SaveFacts DEF Saves, Reads, Interrupted, EndTakenForSignal
  <2>3. CASE Ending \/ Leaving
    BY <2>3 DEF Ending, UnknownStatus, ReadFails, BodyRead, PartEnds, PartEndFails, Gives,
                Leaving, clean_up, Redirect
  <2>4. QED
    BY <1>1, <2>1, <2>2, <2>3, NextParts, NegativeFacts DEF Codes
<1>3. status_code' \in {status_code, 0, answer.status}
  <2>1. CASE Whole
    BY <2>1 DEF Whole, StatusLine, HeaderLine, SizeLine, header
  <2>2. CASE Pieces
    BY <2>2 DEF Pieces, StatusLineTorn, HeaderLineTorn, SizeLineTorn, header
  <2>3. CASE Saves \/ Ending
    BY <2>3 DEF Saves, Reads, Interrupted, EndTakenForSignal, Ending, UnknownStatus, ReadFails,
                BodyRead, PartEnds, PartEndFails, header
  <2>4. CASE Leaving
    BY <2>4 DEF Leaving, clean_up, Redirect, Cleared
  <2>5. CASE Network \/ Connects
    BY <2>5 DEF Network, Arrive, PeerCloses, PeerBreaks, Connects, connect_server_fails,
                connect_server, send_request, header
  <2>6. QED
    BY <2>1, <2>2, <2>3, <2>4, <2>5, NextParts, NegativeFacts
<1>4. answer.status \in {0} \cup {r.status : r \in Responses}
  BY DEF Modes, NoAnswer
<1>5. QED
  BY <1>2, <1>3, <1>4, NextParts DEF Codes

LEMMA SignalsBounded ==
  ASSUME Next
  PROVE  signals' \in {signals, 1 - signals}
<1>1. CASE Leaving \/ Network \/ Connects
  BY <1>1 DEF Leaving, clean_up, Redirect, Network, Arrive, PeerCloses, PeerBreaks, Connects,
              connect_server_fails, connect_server, send_request, bounds
<1>2. CASE Whole \/ Pieces
  BY <1>2 DEF Whole, StatusLine, HeaderLine, SizeLine, Pieces, StatusLineTorn, HeaderLineTorn,
              SizeLineTorn, Gets, GetsLess, Interrupts
<1>3. CASE Saves \/ Ending
  BY <1>3 DEF Saves, Reads, Interrupted, EndTakenForSignal, Ending, UnknownStatus, ReadFails,
              BodyRead, PartEnds, PartEndFails, Stops, Interrupts, bounds
<1>4. QED
  BY <1>1, <1>2, <1>3, NextParts, NegativeFacts

LEMMA FailsBounded ==
  ASSUME Next
  PROVE  fails' = fails \/ Fail
<1>1. CASE Leaving \/ Network \/ Connects
  BY <1>1 DEF Leaving, clean_up, Redirect, Network, Arrive, PeerCloses, PeerBreaks, Connects,
              connect_server_fails, connect_server, send_request, bounds
<1>2. CASE Whole \/ Pieces \/ Ending
  BY <1>2 DEF Whole, StatusLine, HeaderLine, SizeLine, Pieces, StatusLineTorn, HeaderLineTorn,
              SizeLineTorn, Ending, UnknownStatus, ReadFails, BodyRead, PartEnds, PartEndFails,
              bounds
<1>3. CASE Saves
  BY <1>3, SaveFacts DEF Saves, Reads, Interrupted, EndTakenForSignal
<1>4. QED
  BY <1>1, <1>2, <1>3, NextParts, NegativeFacts

LEMMA CountersKept ==
  ASSUME Counters, HeldInv', Next
  PROVE  Counters'
<1>1. held' \in 0 .. 2
  <2>1. PICK a \in {0, 1}, b \in {0, 1} : held' = a + b
    BY DEF HeldInv
  <2>2. QED
    BY <2>1
<1>3. signals' \in {0, 1}
  BY SignalsBounded DEF Counters
<1>4. fails' \in 0 .. MaxFails
  BY FailsBounded, HttpAssumption DEF Counters, Fail
<1>5. QED
  BY <1>1, <1>3, <1>4 DEF Counters

\* The end of a sequence is one.
LEMMA RestIsSequence ==
  ASSUME NEW s, \E X : s \in Seq(X), NEW k \in Nat
  PROVE  Len(s) \in Nat /\ \E X : SubSeq(s, k + 1, Len(s)) \in Seq(X)
<1>1. PICK X : s \in Seq(X)
  OBVIOUS
<1>2. SubSeq(s, k + 1, Len(s)) \in Seq(X)
  BY <1>1
<1>3. QED
  BY <1>1, <1>2

LEMMA AppendIsSequence ==
  ASSUME NEW s, \E X : s \in Seq(X), NEW e
  PROVE  \E X : Append(s, e) \in Seq(X)
<1>1. PICK X : s \in Seq(X)
  OBVIOUS
<1>2. s \in Seq(X \cup {e})
  BY <1>1
<1>3. Append(s, e) \in Seq(X \cup {e})
  BY <1>2
<1>4. QED
  BY <1>3

LEMMA EmptyIsSequence == \E X : <<>> \in Seq(X)
<1>1. <<>> \in Seq({})
  OBVIOUS
<1>2. QED
  BY <1>1

LEMMA SequencedKept ==
  ASSUME Sequenced, Lengths, Next
  PROVE  Sequenced'
<1> USE DEF Sequenced
<1>1. CASE stream' \in {stream, <<>>}
  BY <1>1, EmptyIsSequence
<1>2. CASE \E e : stream' = Append(stream, e)
  BY <1>2, AppendIsSequence
<1>3. CASE \E k \in Nat : stream' = SubSeq(stream, k + 1, Len(stream))
  BY <1>3, RestIsSequence
<1>4. CASE Network
  <2>1. CASE Arrive
    BY <1>2, <2>1 DEF Arrive
  <2>2. CASE PeerCloses \/ PeerBreaks
    BY <1>1, <2>2 DEF PeerCloses, PeerBreaks
  <2>3. QED
    BY <1>4, <2>1, <2>2 DEF Network
<1>5. CASE Connects \/ Pieces \/ Leaving
  <2>1. stream' \in {stream, <<>>}
    BY <1>5 DEF Connects, connect_server_fails, connect_server, send_request, Pieces,
       StatusLineTorn, HeaderLineTorn, SizeLineTorn, GetsLess, Leaving, clean_up, Redirect,
       Cleared, link
  <2>2. QED
    BY <1>1, <2>1
<1>6. CASE Whole
  <2>1. PICK line : Gets(line)
    BY <1>6 DEF Whole, StatusLine, HeaderLine, SizeLine
  <2>2. PICK k \in Ends : stream' = SubSeq(stream, k + 1, Len(stream))
    BY <2>1 DEF Gets
  <2>3. k \in Nat
    BY DEF Ends
  <2>4. QED
    BY <1>3, <2>2, <2>3
<1>7. CASE Saves
  <2>1. CASE Reads
    <3>1. Asked \in Nat
      BY <2>1, HttpAssumption DEF Asked, Lengths, Reads
    <3>2. QED
      BY <1>3, <2>1, <3>1 DEF Reads
  <2>2. CASE Interrupted \/ EndTakenForSignal
    BY <1>1, <2>2 DEF Interrupted, EndTakenForSignal
  <2>3. QED
    BY <1>7, <2>1, <2>2 DEF Saves
<1>8. CASE Ending
  <2>1. CASE PartEnds
    <3>1. stream' = SubSeq(stream, 2 + 1, Len(stream))
      BY <2>1 DEF PartEnds
    <3>2. QED
      BY <1>3, <3>1
  <2>2. CASE UnknownStatus \/ ReadFails \/ BodyRead \/ PartEndFails
    BY <1>1, <2>2 DEF UnknownStatus, ReadFails, BodyRead, PartEndFails, link
  <2>3. QED
    BY <1>8, <2>1, <2>2 DEF Ending
<1>9. QED
  BY <1>1, <1>4, <1>5, <1>6, <1>7, <1>8, NextParts, NegativeFacts

LEMMA LengthsKept ==
  ASSUME Lengths, Sequenced, Next
  PROVE  Lengths'
<1>1. CASE Network \/ Connects
  BY <1>1 DEF Network, Arrive, PeerCloses, PeerBreaks, Connects, connect_server_fails,
              connect_server, send_request, header, body, Lengths
<1>2. CASE StatusLine \/ StatusLineTorn \/ Ending
  BY <1>2 DEF StatusLine, StatusLineTorn, Ending, UnknownStatus, ReadFails, BodyRead, PartEnds,
              PartEndFails, header, body, Lengths
<1>3. CASE HeaderLine
  <2>1. PICK line : /\ len' = IF \E n \in 0 .. Size(answer) : line = Line("length", n)
                              THEN line[1].n ELSE len
                    /\ \/ total_len' = len /\ part_len' = 0
                       \/ UNCHANGED <<total_len, part_len>>
    BY <1>3 DEF HeaderLine, body
  <2>2. CASE \E n \in 0 .. Size(answer) : line = Line("length", n)
    <3>1. PICK n \in 0 .. Size(answer) : line = Line("length", n)
      BY <2>2
    <3>2. line[1].n = n
      BY <3>1 DEF Line
    <3>3. len' \in Int
      BY <2>1, <2>2, <3>2
    <3>4. QED
      BY <2>1, <3>3 DEF Lengths
  <2>3. CASE ~\E n \in 0 .. Size(answer) : line = Line("length", n)
    <3>1. len' = len
      BY <2>1, <2>3
    <3>2. QED
      BY <2>1, <3>1 DEF Lengths
  <2>4. QED
    BY <2>2, <2>3
<1>4. CASE HeaderLineTorn
  BY <1>4, HttpAssumption DEF HeaderLineTorn, Gives, body, Lengths
<1>5. CASE SizeLine \/ SizeLineTorn
  <2>1. len' = len
    BY <1>5 DEF SizeLine, SizeLineTorn, header
  <2>2. \E n \in Int : ReadsPart(n)
    <3>1. CASE SizeLineTorn
      BY <3>1, HttpAssumption DEF SizeLineTorn
    <3>2. CASE SizeLine
      <4>1. PICK line : IF \E n \in 0 .. Size(answer) : line = Line("size", n)
                        THEN ReadsPart(line[1].n)
                        ELSE \E n \in -MaxPart .. MaxPart : ReadsPart(n)
        BY <3>2 DEF SizeLine
      <4>2. CASE \E n \in 0 .. Size(answer) : line = Line("size", n)
        <5>1. PICK n \in 0 .. Size(answer) : line = Line("size", n)
          BY <4>2
        <5>2. line[1].n = n
          BY <5>1 DEF Line
        <5>3. ReadsPart(n)
          BY <4>1, <4>2, <5>2
        <5>4. QED
          BY <5>3
      <4>3. CASE ~\E n \in 0 .. Size(answer) : line = Line("size", n)
        BY <4>1, <4>3, HttpAssumption
      <4>4. QED
        BY <4>2, <4>3
    <3>3. QED
      BY <1>5, <3>1, <3>2
  <2>3. QED
    BY <2>1, <2>2 DEF ReadsPart, Lengths
<1>6. CASE Saves \/ ReadsNegative
  <2>1. UNCHANGED <<len, part_len>>
    BY <1>6 DEF Saves, Reads, Interrupted, EndTakenForSignal, ReadsNegative, header
  <2>2. Asked \in Int /\ Len(stream) \in Int
    BY HttpAssumption DEF Asked, Lengths, Sequenced
  <2>3. total_len' = total_len - Asked \/ total_len' = total_len - Len(stream)
    BY <1>6 DEF Saves, Reads, Interrupted, EndTakenForSignal, ReadsNegative
  <2>4. total_len' \in Int
    BY <2>2, <2>3 DEF Lengths
  <2>5. QED
    BY <2>1, <2>4 DEF Lengths
<1>7. CASE Leaving
  BY <1>7 DEF Leaving, clean_up, Redirect, Cleared, Lengths
<1>8. QED
  BY <1>1, <1>2, <1>3, <1>4, <1>5, <1>6, <1>7, NextParts DEF Whole, Pieces

LEMMA InitTypes == Init => TypeInv
<1> SUFFICES ASSUME Init PROVE TypeInv
  OBVIOUS
<1>1. Modes /\ Lengths
  <2>1. Modes
    BY DEF Init, Modes
  <2>2. len = 0 /\ total_len = 0 /\ part_len = 0
    BY DEF Init
  <2>3. QED
    BY <2>1, <2>2 DEF Lengths
<1>2. Codes
  BY DEF Init, Codes
<1>3. Counters
  BY HttpAssumption DEF Init, Counters
<1>4. Sequenced
  BY EmptyIsSequence DEF Init, Sequenced
<1>5. QED
  BY <1>1, <1>2, <1>3, <1>4, InitHeld DEF TypeInv, TypeOK

LEMMA NextTypes == TypeInv /\ [Next]_vars => TypeInv'
<1> SUFFICES ASSUME TypeInv, [Next]_vars PROVE TypeInv'
  OBVIOUS
<1> USE DEF TypeInv, TypeOK
<1>1. HeldInv'
  BY NextHeld
<1>2. CASE Next
  <2>1. Modes' /\ Codes'
    BY <1>2, ModesKept, CodesKept
  <2>2. Sequenced' /\ Lengths'
    BY <1>2, SequencedKept, LengthsKept
  <2>3. Counters'
    BY <1>1, <1>2, CountersKept
  <2>4. QED
    BY <1>1, <2>1, <2>2, <2>3
<1>3. CASE UNCHANGED vars
  <2>1. Modes' /\ Codes' /\ Lengths' /\ Counters'
    BY <1>3 DEF vars, peer, link, header, body, disk, bounds, Modes, Codes, Lengths, Counters
  <2>2. Sequenced'
    BY <1>3 DEF vars, link, Sequenced
  <2>3. QED
    BY <1>1, <2>1, <2>2
<1>4. QED
  BY <1>2, <1>3

\* Whatever is answered and whatever fails, with torn lines, lengths below 0, writes
\* that start again and any number of redirects: every variable keeps its type, and
\* a call has at most one socket and one file open.
THEOREM TypeCorrect == Spec => []TypeOK
<1>1. TypeInv => TypeOK
  BY DEF TypeInv
<1>2. QED
  BY <1>1, InitTypes, NextTypes, PTL DEF Spec

(***************************************************************************)
(* What the response is, place by place                                    *)
(***************************************************************************)

LEMMA LeastNumber ==
  ASSUME NEW T, T \subseteq Nat, T # {}
  PROVE  \E x \in T : \A y \in T : ~(y < x)
<1> DEFINE R == {p \in Nat \X Nat : p[1] < p[2]}
<1>1. IsWellFoundedOn(R, Nat)
  BY NatLessThanWellFounded DEF OpToRel
<1>2. \A a, b \in Nat : a < b => <<a, b>> \in R
  OBVIOUS
<1> HIDE DEF R
<1>3. \E x \in T : \A y \in T : ~(<<y, x>> \in R)
  BY <1>1, WFMin
<1> QED BY <1>2, <1>3

IsSum(ps, s, n) == s = [k \in 0 .. n |-> IF k = 0 THEN 0 ELSE s[k - 1] + ps[k]]

\* There are such sums: were there a first number of parts without, the sums of one
\* part less could go on.
LEMMA SumExists ==
  ASSUME NEW ps, NEW N \in Nat
  PROVE  \E s : IsSum(ps, s, N)
<1> DEFINE Defined(n) == \E s : IsSum(ps, s, n)
           T == {n \in Nat : ~Defined(n)}
<1>1. CASE T = {}
  BY <1>1
<1>2. CASE T # {}
  <2> HIDE DEF Defined
  <2>1. PICK m \in T : \A y \in T : ~(y < m)
    BY <1>2, LeastNumber
  <2>2. CASE m = 0
    <3> DEFINE s == [k \in 0 .. 0 |-> 0]
    <3>1. s = [k \in 0 .. 0 |-> IF k = 0 THEN 0 ELSE s[k - 1] + ps[k]]
      OBVIOUS
    <3>2. Defined(0)
      BY <3>1 DEF Defined, IsSum
    <3>3. QED
      BY <2>1, <2>2, <3>2
  <2>3. CASE m # 0
    <3>1. m - 1 \in Nat /\ Defined(m - 1)
      BY <2>1, <2>3
    <3>2. PICK v : v = [k \in 0 .. m - 1 |-> IF k = 0 THEN 0 ELSE v[k - 1] + ps[k]]
      BY <3>1 DEF Defined, IsSum
    <3> DEFINE s == [k \in 0 .. m |-> IF k = m THEN v[m - 1] + ps[m] ELSE v[k]]
    <3>3. ASSUME NEW k \in 0 .. m
          PROVE  s[k] = IF k = 0 THEN 0 ELSE s[k - 1] + ps[k]
      <4>1. CASE k = m
        BY <2>1, <2>3, <4>1
      <4>2. CASE k # m
        <5>1. k \in 0 .. m - 1
          BY <2>1, <4>2
        <5>2. s[k] = v[k] /\ v[k] = IF k = 0 THEN 0 ELSE v[k - 1] + ps[k]
          BY <3>2, <4>2, <5>1
        <5>3. k # 0 => s[k - 1] = v[k - 1]
          BY <2>1, <5>1
        <5>4. QED
          BY <5>2, <5>3
      <4>3. QED
        BY <4>1, <4>2
    <3>4. s = [k \in 0 .. m |-> IF k = 0 THEN 0 ELSE s[k - 1] + ps[k]]
      BY <3>3
    <3>5. Defined(m)
      BY <3>4 DEF Defined, IsSum
    <3>6. QED
      BY <2>1, <3>5
  <2>4. QED
    BY <2>2, <2>3
<1>3. QED
  BY <1>1, <1>2

Response == [status : Nat, framing : {"length", "chunked", "close"}, parts : Seq(Nat \ {0})]

\* Part by part the sums grow by what is in the part.
LEMMA SumsAre ==
  ASSUME NEW r \in Response
  PROVE  /\ Len(r.parts) \in Nat /\ Sums(r)[0] = 0
         /\ \A k \in 1 .. Len(r.parts) : /\ r.parts[k] \in Nat \ {0}
                                         /\ Sums(r)[k] = Sums(r)[k - 1] + r.parts[k]
<1> DEFINE n == Len(r.parts)
           ps == r.parts
<1>1. ps \in Seq(Nat \ {0}) /\ n \in Nat
  BY DEF Response
<1>2. \A k \in 1 .. n : ps[k] \in Nat \ {0}
  BY <1>1
<1> HIDE DEF ps, n
<1>3. \E s : IsSum(ps, s, n)
  BY <1>1, SumExists
<1>4. Sums(r) = CHOOSE s : s = [k \in 0 .. n |-> IF k = 0 THEN 0 ELSE s[k - 1] + ps[k]]
  BY DEF Sums, ps, n
<1>5. Sums(r) = [k \in 0 .. n |-> IF k = 0 THEN 0 ELSE Sums(r)[k - 1] + ps[k]]
  BY <1>3, <1>4 DEF IsSum
<1>6. Sums(r)[0] = 0 /\ \A k \in 1 .. n : Sums(r)[k] = Sums(r)[k - 1] + ps[k]
  BY <1>1, <1>5
<1>7. QED
  BY <1>1, <1>2, <1>6 DEF ps, n

LEMMA SumsGrow ==
  ASSUME NEW r \in Response
  PROVE  \A k \in 0 .. Len(r.parts) : Sums(r)[k] \in Nat /\ Sums(r)[k] <= Size(r)
<1> DEFINE n == Len(r.parts)
           S == Sums(r)
<1>1. /\ n \in Nat /\ S[0] = 0
      /\ \A k \in 1 .. n : r.parts[k] \in Nat /\ S[k] = S[k - 1] + r.parts[k]
  BY SumsAre
<1> HIDE DEF n, S
<1>2. \A k \in 0 .. n : S[k] \in Nat
  <2> DEFINE T == {k \in 0 .. n : S[k] \notin Nat}
  <2>1. ASSUME T # {} PROVE FALSE
    <3> T \subseteq Nat
      BY <1>1
    <3>1. PICK m \in T : \A y \in T : ~(y < m)
      BY <2>1, LeastNumber
    <3>2. m \in 1 .. n /\ m - 1 \in 0 .. n /\ m - 1 < m
      BY <1>1, <3>1
    <3>3. S[m - 1] \in Nat
      BY <3>1, <3>2
    <3>4. QED
      BY <1>1, <3>1, <3>2, <3>3
  <2>2. QED
    BY <2>1
<1>3. \A k \in 0 .. n : S[k] <= S[n]
  <2> DEFINE T == {d \in 0 .. n : ~(S[n - d] <= S[n])}
  <2>1. ASSUME T # {} PROVE FALSE
    <3> T \subseteq Nat
      BY <1>1
    <3>1. PICK m \in T : \A y \in T : ~(y < m)
      BY <2>1, LeastNumber
    <3>2. m # 0
      BY <1>1, <1>2, <3>1
    <3>3. m - 1 \in 0 .. n /\ m - 1 < m /\ n - m \in 0 .. n /\ n - m + 1 \in 1 .. n
      BY <1>1, <3>1, <3>2
    <3>4. S[n - (m - 1)] <= S[n]
      BY <3>1, <3>3
    <3>5. n - (m - 1) = n - m + 1 /\ (n - m + 1) - 1 = n - m
      BY <1>1, <3>3
    <3>6. S[n - m + 1] = S[n - m] + r.parts[n - m + 1] /\ r.parts[n - m + 1] \in Nat
      BY <1>1, <3>3, <3>5
    <3>7. S[n - m] \in Nat /\ S[n] \in Nat /\ S[n - m] <= S[n]
      BY <1>1, <1>2, <3>3, <3>4, <3>5, <3>6
    <3>8. QED
      BY <3>1, <3>7
  <2>2. ASSUME NEW k \in 0 .. n
        PROVE  S[k] <= S[n]
    <3>1. n - k \in 0 .. n /\ n - (n - k) = k
      BY <1>1
    <3>2. QED
      BY <2>1, <3>1
  <2>3. QED
    BY <2>2
<1>4. QED
  BY <1>2, <1>3 DEF n, S, Size

IsJoined(cs, s, n) == s = [k \in 0 .. n |-> IF k = 0 THEN <<>> ELSE s[k - 1] \o cs[k]]

LEMMA JoinExists ==
  ASSUME NEW cs, NEW N \in Nat
  PROVE  \E s : IsJoined(cs, s, N)
<1> DEFINE Defined(n) == \E s : IsJoined(cs, s, n)
           T == {n \in Nat : ~Defined(n)}
<1>1. CASE T = {}
  BY <1>1
<1>2. CASE T # {}
  <2> HIDE DEF Defined
  <2>1. PICK m \in T : \A y \in T : ~(y < m)
    BY <1>2, LeastNumber
  <2>2. CASE m = 0
    <3> DEFINE s == [k \in 0 .. 0 |-> <<>>]
    <3>1. s = [k \in 0 .. 0 |-> IF k = 0 THEN <<>> ELSE s[k - 1] \o cs[k]]
      OBVIOUS
    <3>2. Defined(0)
      BY <3>1 DEF Defined, IsJoined
    <3>3. QED
      BY <2>1, <2>2, <3>2
  <2>3. CASE m # 0
    <3>1. m - 1 \in Nat /\ Defined(m - 1)
      BY <2>1, <2>3
    <3>2. PICK v : v = [k \in 0 .. m - 1 |-> IF k = 0 THEN <<>> ELSE v[k - 1] \o cs[k]]
      BY <3>1 DEF Defined, IsJoined
    <3> DEFINE s == [k \in 0 .. m |-> IF k = m THEN v[m - 1] \o cs[m] ELSE v[k]]
    <3>3. ASSUME NEW k \in 0 .. m
          PROVE  s[k] = IF k = 0 THEN <<>> ELSE s[k - 1] \o cs[k]
      <4>1. CASE k = m
        BY <2>1, <2>3, <4>1
      <4>2. CASE k # m
        <5>1. k \in 0 .. m - 1
          BY <2>1, <4>2
        <5>2. s[k] = v[k] /\ v[k] = IF k = 0 THEN <<>> ELSE v[k - 1] \o cs[k]
          BY <3>2, <4>2, <5>1
        <5>3. k # 0 => s[k - 1] = v[k - 1]
          BY <2>1, <5>1
        <5>4. QED
          BY <5>2, <5>3
      <4>3. QED
        BY <4>1, <4>2
    <3>4. s = [k \in 0 .. m |-> IF k = 0 THEN <<>> ELSE s[k - 1] \o cs[k]]
      BY <3>3
    <3>5. Defined(m)
      BY <3>4 DEF Defined, IsJoined
    <3>6. QED
      BY <2>1, <3>5
  <2>4. QED
    BY <2>2, <2>3
<1>3. QED
  BY <1>1, <1>2

LEMMA FirstChunksAre ==
  ASSUME NEW r \in Response
  PROVE  /\ FirstChunks(r)[0] = <<>>
         /\ \A k \in 1 .. Len(r.parts) :
              FirstChunks(r)[k] = FirstChunks(r)[k - 1] \o Chunk(r, k)
<1> DEFINE n == Len(r.parts)
           cs == [k \in 1 .. n |-> Chunk(r, k)]
           F == FirstChunks(r)
<1>1. n \in Nat
  BY SumsAre
<1>2. \A k \in 1 .. n : cs[k] = Chunk(r, k)
  OBVIOUS
<1> HIDE DEF cs, n
<1>3. PICK s : s = [k \in 0 .. n |-> IF k = 0 THEN <<>> ELSE s[k - 1] \o cs[k]]
  BY <1>1, JoinExists DEF IsJoined
<1>4. s = [k \in 0 .. n |-> IF k = 0 THEN <<>> ELSE s[k - 1] \o Chunk(r, k)]
  BY <1>1, <1>2, <1>3
<1>5. F = CHOOSE t : t = [k \in 0 .. n |-> IF k = 0 THEN <<>> ELSE t[k - 1] \o Chunk(r, k)]
  BY DEF FirstChunks, n
<1> HIDE DEF F
<1>6. F = [k \in 0 .. n |-> IF k = 0 THEN <<>> ELSE F[k - 1] \o Chunk(r, k)]
  BY <1>4, <1>5
<1>7. F[0] = <<>> /\ \A k \in 1 .. n : F[k] = F[k - 1] \o Chunk(r, k)
  <2>1. \A k \in 0 .. n : F[k] = IF k = 0 THEN <<>> ELSE F[k - 1] \o Chunk(r, k)
    BY <1>6, Zenon
  <2>2. 0 \in 0 .. n /\ \A k \in 1 .. n : k \in 0 .. n /\ k # 0
    BY <1>1
  <2>3. QED
    BY <2>1, <2>2, Zenon
<1>8. QED
  BY <1>7 DEF F, n

Tags == {"status", "location", "length", "chunked", "blank", "size"}
Tokens == [at : Nat, end : BOOLEAN] \cup [tag : Tags, n : Nat, at : {0}, end : BOOLEAN]

\* At place a of w a line begins.
IsLine(w, a, tag, n) ==
  /\ w[a + 1] = [tag |-> tag, n |-> n, at |-> 0, end |-> FALSE]
  /\ w[a + 2] = [tag |-> tag, n |-> n, at |-> 0, end |-> TRUE]

\* The bytes behind place a of w are those of the body behind the first p.
IsBody(w, a, p, n) == \A i \in 1 .. n : w[a + i].at = p + i

LEMMA JoinAt ==
  ASSUME NEW s \in Seq(Tokens), NEW t \in Seq(Tokens)
  PROVE  /\ s \o t \in Seq(Tokens) /\ Len(s \o t) = Len(s) + Len(t)
         /\ Len(s) \in Nat /\ Len(t) \in Nat
         /\ \A i \in 1 .. Len(s) : (s \o t)[i] = s[i]
         /\ \A i \in 1 .. Len(t) : (s \o t)[Len(s) + i] = t[i]
OBVIOUS

\* What is in a part is in the whole, where the part is.
LEMMA LineBefore ==
  ASSUME NEW s \in Seq(Tokens), NEW t \in Seq(Tokens), NEW a \in Nat, NEW tag, NEW n,
         IsLine(s, a, tag, n), a + 2 <= Len(s)
  PROVE  IsLine(s \o t, a, tag, n)
<1>1. a + 1 \in 1 .. Len(s) /\ a + 2 \in 1 .. Len(s)
  OBVIOUS
<1>2. (s \o t)[a + 1] = s[a + 1] /\ (s \o t)[a + 2] = s[a + 2]
  BY <1>1, JoinAt
<1>3. QED
  BY <1>2 DEF IsLine

LEMMA LineBehind ==
  ASSUME NEW s \in Seq(Tokens), NEW t \in Seq(Tokens), NEW a \in Nat, NEW tag, NEW n,
         IsLine(t, a, tag, n), a + 2 <= Len(t), NEW c, c = Len(s) + a
  PROVE  IsLine(s \o t, c, tag, n)
<1>1. a + 1 \in 1 .. Len(t) /\ a + 2 \in 1 .. Len(t)
  OBVIOUS
<1>2. (s \o t)[Len(s) + (a + 1)] = t[a + 1] /\ (s \o t)[Len(s) + (a + 2)] = t[a + 2]
  BY <1>1, JoinAt
<1>3. c + 1 = Len(s) + (a + 1) /\ c + 2 = Len(s) + (a + 2)
  OBVIOUS
<1>4. QED
  BY <1>2, <1>3 DEF IsLine

LEMMA BodyBefore ==
  ASSUME NEW s \in Seq(Tokens), NEW t \in Seq(Tokens), NEW a \in Nat, NEW p, NEW n \in Nat,
         IsBody(s, a, p, n), a + n <= Len(s)
  PROVE  IsBody(s \o t, a, p, n)
<1> SUFFICES ASSUME NEW i \in 1 .. n PROVE (s \o t)[a + i].at = p + i
  BY DEF IsBody
<1>1. a + i \in 1 .. Len(s)
  OBVIOUS
<1>2. (s \o t)[a + i] = s[a + i]
  BY <1>1, JoinAt
<1>3. QED
  BY <1>2 DEF IsBody

LEMMA BodyBehind ==
  ASSUME NEW s \in Seq(Tokens), NEW t \in Seq(Tokens), NEW a \in Nat, NEW p, NEW n \in Nat,
         IsBody(t, a, p, n), a + n <= Len(t), NEW c, c = Len(s) + a
  PROVE  IsBody(s \o t, c, p, n)
<1> SUFFICES ASSUME NEW i \in 1 .. n PROVE (s \o t)[c + i].at = p + i
  BY DEF IsBody
<1>1. a + i \in 1 .. Len(t) /\ c + i = Len(s) + (a + i)
  OBVIOUS
<1>2. (s \o t)[c + i] = t[a + i]
  BY <1>1, JoinAt
<1>3. QED
  BY <1>2 DEF IsBody

LEMMA LineIs ==
  ASSUME NEW tag \in Tags, NEW n \in Nat
  PROVE  Line(tag, n) \in Seq(Tokens) /\ Len(Line(tag, n)) = 2 /\ IsLine(Line(tag, n), 0, tag, n)
BY DEF Line, Tokens, IsLine

LEMMA CRLFIs == CRLF \in Seq(Tokens) /\ Len(CRLF) = 2
BY DEF CRLF, Tokens

LEMMA BytesAre ==
  ASSUME NEW p \in Nat, NEW n \in Nat
  PROVE  Bytes(p, n) \in Seq(Tokens) /\ Len(Bytes(p, n)) = n /\ IsBody(Bytes(p, n), 0, p, n)
<1>1. \A k \in 1 .. n : [at |-> p + k, end |-> FALSE] \in Tokens
  BY DEF Tokens
<1>2. Bytes(p, n) \in Seq(Tokens) /\ Len(Bytes(p, n)) = n
  BY <1>1 DEF Bytes
<1>3. \A i \in 1 .. n : 0 + i = i /\ Bytes(p, n)[i].at = p + i
  BY DEF Bytes
<1>4. QED
  BY <1>2, <1>3 DEF IsBody

LEMMA ThreeParts ==
  ASSUME NEW h \in Seq(Tokens), NEW b \in Seq(Tokens), NEW e \in Seq(Tokens),
         NEW p \in Nat, NEW n \in Nat, Len(h) = 2, Len(b) = n, Len(e) = 2,
         IsLine(h, 0, "size", n), IsBody(b, 0, p, n)
  PROVE  /\ (h \o b) \o e \in Seq(Tokens) /\ Len((h \o b) \o e) = n + 4
         /\ IsLine((h \o b) \o e, 0, "size", n) /\ IsBody((h \o b) \o e, 2, p, n)
<1>1. h \o b \in Seq(Tokens) /\ Len(h \o b) = 2 + n
  <2>1. h \o b \in Seq(Tokens) /\ Len(h \o b) = Len(h) + Len(b)
    BY JoinAt
  <2>2. QED
    BY <2>1
<1>2. IsLine(h \o b, 0, "size", n)
  <2>1. 0 \in Nat /\ 0 + 2 <= Len(h)
    OBVIOUS
  <2>2. QED
    BY <2>1, LineBefore, Zenon
<1>3. IsBody(h \o b, 2, p, n)
  <2>1. 0 \in Nat /\ 0 + n <= Len(b) /\ 2 = Len(h) + 0
    OBVIOUS
  <2>2. QED
    BY <2>1, BodyBehind, Zenon
<1>4. IsLine((h \o b) \o e, 0, "size", n)
  <2>1. 0 \in Nat /\ 0 + 2 <= Len(h \o b)
    BY <1>1
  <2>2. QED
    BY <1>1, <1>2, <2>1, LineBefore, Zenon
<1>5. IsBody((h \o b) \o e, 2, p, n)
  <2>1. 2 \in Nat /\ 2 + n <= Len(h \o b)
    BY <1>1
  <2>2. QED
    BY <1>1, <1>3, <2>1, BodyBefore, Zenon
<1>6. (h \o b) \o e \in Seq(Tokens) /\ Len((h \o b) \o e) = Len(h \o b) + Len(e)
  BY <1>1, JoinAt
<1>7. QED
  BY <1>1, <1>4, <1>5, <1>6

LEMMA ChunkIs ==
  ASSUME NEW r \in Response, NEW k \in 1 .. Len(r.parts)
  PROVE  /\ Chunk(r, k) \in Seq(Tokens) /\ Len(Chunk(r, k)) = r.parts[k] + 4
         /\ IsLine(Chunk(r, k), 0, "size", r.parts[k])
         /\ IsBody(Chunk(r, k), 2, Sums(r)[k - 1], r.parts[k])
<1>1. PICK n \in Nat, p \in Nat : n = r.parts[k] /\ p = Sums(r)[k - 1]
  <2>1. k - 1 \in 0 .. Len(r.parts)
    BY SumsAre
  <2>2. QED
    BY <2>1, SumsAre, SumsGrow
<1>2. PICK h \in Seq(Tokens) :
        h = Line("size", n) /\ Len(h) = 2 /\ IsLine(h, 0, "size", n)
  BY LineIs DEF Tags
<1>3. PICK b \in Seq(Tokens) : b = Bytes(p, n) /\ Len(b) = n /\ IsBody(b, 0, p, n)
  BY BytesAre
<1>4. Chunk(r, k) = (h \o b) \o CRLF
  BY <1>1, <1>2, <1>3 DEF Chunk
<1>5. /\ Chunk(r, k) \in Seq(Tokens) /\ Len(Chunk(r, k)) = n + 4
      /\ IsLine(Chunk(r, k), 0, "size", n) /\ IsBody(Chunk(r, k), 2, p, n)
  BY <1>2, <1>3, <1>4, CRLFIs, ThreeParts
<1>6. QED
  BY <1>1, <1>5

\* The parts, and the empty one that ends the body; where they begin in it.
Parts(r)     == 1 .. Len(r.parts) + 1
Part(r, k)   == IF k <= Len(r.parts) THEN r.parts[k] ELSE 0
Offset(r, k) == 4 * (k - 1) + Sums(r)[k - 1]

LEMMA PartsAre ==
  ASSUME NEW r \in Response, NEW k \in Parts(r)
  PROVE  /\ k \in Nat \ {0} /\ Sums(r)[k - 1] \in Nat
         /\ Part(r, k) \in Nat /\ Offset(r, k) \in Nat
         /\ Sums(r)[k - 1] + Part(r, k) <= Size(r)
         /\ k <= Len(r.parts) => Part(r, k) = r.parts[k] /\ Part(r, k) # 0
         /\ k > Len(r.parts) => Part(r, k) = 0 /\ Sums(r)[k - 1] = Size(r)
<1> DEFINE n == Len(r.parts)
           S == Sums(r)
<1>1. n \in Nat /\ \A j \in 1 .. n : r.parts[j] \in Nat \ {0} /\ S[j] = S[j - 1] + r.parts[j]
  BY SumsAre
<1>2. \A j \in 0 .. n : S[j] \in Nat /\ S[j] <= S[n]
  BY SumsGrow DEF Size
<1> HIDE DEF n, S
<1>3. k \in 1 .. n + 1
  BY DEF Parts, n
<1>4. k - 1 \in 0 .. n /\ k \in Nat \ {0}
  BY <1>1, <1>3
<1>5. CASE k <= n
  <2>1. k \in 1 .. n /\ k \in 0 .. n
    BY <1>1, <1>3, <1>5
  <2>2. Part(r, k) = r.parts[k] /\ r.parts[k] \in Nat \ {0}
    BY <1>1, <1>5, <2>1 DEF Part, n
  <2>3. S[k - 1] + r.parts[k] <= S[n]
    BY <1>1, <1>2, <2>1
  <2>4. QED
    BY <1>1, <1>2, <1>4, <1>5, <2>2, <2>3 DEF Offset, Size, n, S
<1>6. CASE ~(k <= n)
  <2>1. k - 1 = n /\ Part(r, k) = 0
    BY <1>1, <1>3, <1>6 DEF Part, n
  <2>2. QED
    BY <1>1, <1>2, <1>4, <1>6, <2>1 DEF Offset, Size, n, S
<1>7. QED
  BY <1>5, <1>6

\* Behind place c of w are the parts, and k is one of them.
HasChunk(r, w, c, k) ==
  /\ c + Offset(r, k) + 2 + Part(r, k) <= Len(w)
  /\ IsLine(w, c + Offset(r, k), "size", Part(r, k))
  /\ IsBody(w, c + Offset(r, k) + 2, Sums(r)[k - 1], Part(r, k))

LEMMA ChunkBefore ==
  ASSUME NEW s \in Seq(Tokens), NEW t \in Seq(Tokens), NEW c \in Nat,
         NEW r \in Response, NEW k \in Parts(r), HasChunk(r, s, c, k)
  PROVE  HasChunk(r, s \o t, c, k)
<1>1. PICK o \in Nat, n \in Nat, p \in Nat :
        o = Offset(r, k) /\ n = Part(r, k) /\ p = Sums(r)[k - 1]
  BY PartsAre
<1>2. c + o + 2 + n <= Len(s) /\ IsLine(s, c + o, "size", n) /\ IsBody(s, c + o + 2, p, n)
  BY <1>1 DEF HasChunk
<1>3. c + o \in Nat /\ (c + o) + 2 <= Len(s) /\ c + o + 2 \in Nat /\ (c + o + 2) + n <= Len(s)
  BY <1>2
<1>4. IsLine(s \o t, c + o, "size", n)
  BY <1>2, <1>3, LineBefore, Zenon
<1>5. IsBody(s \o t, c + o + 2, p, n)
  BY <1>2, <1>3, BodyBefore, Zenon
<1>6. Len(s \o t) = Len(s) + Len(t) /\ Len(s) \in Nat /\ Len(t) \in Nat
  BY JoinAt
<1>7. c + o + 2 + n <= Len(s \o t)
  BY <1>2, <1>6
<1>8. QED
  BY <1>1, <1>4, <1>5, <1>7 DEF HasChunk

LEMMA ChunkBehind ==
  ASSUME NEW s \in Seq(Tokens), NEW t \in Seq(Tokens), NEW c \in Nat,
         NEW r \in Response, NEW k \in Parts(r), HasChunk(r, t, c, k), NEW d, d = Len(s) + c
  PROVE  HasChunk(r, s \o t, d, k)
<1>1. PICK o \in Nat, n \in Nat, p \in Nat :
        o = Offset(r, k) /\ n = Part(r, k) /\ p = Sums(r)[k - 1]
  BY PartsAre
<1>2. c + o + 2 + n <= Len(t) /\ IsLine(t, c + o, "size", n) /\ IsBody(t, c + o + 2, p, n)
  BY <1>1 DEF HasChunk
<1>3. /\ c + o \in Nat /\ (c + o) + 2 <= Len(t) /\ c + o + 2 \in Nat /\ (c + o + 2) + n <= Len(t)
      /\ d + o = Len(s) + (c + o) /\ d + o + 2 = Len(s) + (c + o + 2)
  BY <1>2
<1>4. IsLine(s \o t, d + o, "size", n)
  BY <1>2, <1>3, LineBehind, Zenon
<1>5. IsBody(s \o t, d + o + 2, p, n)
  BY <1>2, <1>3, BodyBehind, Zenon
<1>6. Len(s \o t) = Len(s) + Len(t) /\ Len(s) \in Nat /\ Len(t) \in Nat
  BY JoinAt
<1>7. d + o + 2 + n <= Len(s \o t)
  BY <1>2, <1>6
<1>8. QED
  BY <1>1, <1>4, <1>5, <1>7 DEF HasChunk

\* The first k chunks.
Chunked(r, k) ==
  /\ FirstChunks(r)[k] \in Seq(Tokens) /\ Len(FirstChunks(r)[k]) = Sums(r)[k] + 4 * k
  /\ \A j \in 1 .. k : HasChunk(r, FirstChunks(r)[k], 0, j)

LEMMA ChunkAdded ==
  ASSUME NEW r \in Response, NEW k \in 1 .. Len(r.parts), Chunked(r, k - 1)
  PROVE  Chunked(r, k)
<1>1. PICK s \in Seq(Tokens) : /\ s = FirstChunks(r)[k - 1]
                               /\ Len(s) = Sums(r)[k - 1] + 4 * (k - 1)
                               /\ \A j \in 1 .. k - 1 : HasChunk(r, s, 0, j)
  BY DEF Chunked
<1>2. PICK t \in Seq(Tokens) : /\ t = Chunk(r, k) /\ Len(t) = r.parts[k] + 4
                               /\ IsLine(t, 0, "size", r.parts[k])
                               /\ IsBody(t, 2, Sums(r)[k - 1], r.parts[k])
  BY ChunkIs
<1>3. FirstChunks(r)[k] = s \o t
  BY <1>1, <1>2, FirstChunksAre
<1>4. /\ Len(r.parts) \in Nat /\ k \in Parts(r) /\ k <= Len(r.parts)
      /\ \A j \in 1 .. k - 1 : j \in Parts(r)
  BY SumsAre DEF Parts
<1>5. PICK o \in Nat, n \in Nat, p \in Nat :
        o = Offset(r, k) /\ n = Part(r, k) /\ p = Sums(r)[k - 1] /\ n = r.parts[k]
  BY <1>4, PartsAre
<1>6. Len(s) = o /\ Len(t) = n + 4 /\ Sums(r)[k] = p + n
  <2>1. Sums(r)[k] = p + n
    BY <1>5, SumsAre
  <2>2. o = 4 * (k - 1) + p
    BY <1>5 DEF Offset
  <2>3. QED
    BY <1>1, <1>2, <1>5, <2>1, <2>2
<1>7. HasChunk(r, s \o t, 0, k)
  <2>1. 0 \in Nat /\ 0 + 2 <= Len(t) /\ 0 + o = Len(s) + 0
    BY <1>6
  <2>2. IsLine(s \o t, 0 + o, "size", n)
    BY <1>2, <1>5, <2>1, LineBehind, Zenon
  <2>3. 2 \in Nat /\ 2 + n <= Len(t) /\ 0 + o + 2 = Len(s) + 2
    BY <1>6
  <2>4. IsBody(s \o t, 0 + o + 2, p, n)
    BY <1>2, <1>5, <2>3, BodyBehind, Zenon
  <2>5. Len(s \o t) = Len(s) + Len(t)
    BY JoinAt
  <2>6. 0 + o + 2 + n <= Len(s \o t)
    BY <1>6, <2>5
  <2>7. QED
    BY <1>5, <2>2, <2>4, <2>6 DEF HasChunk
<1>8. ASSUME NEW j \in 1 .. k - 1
      PROVE  HasChunk(r, s \o t, 0, j)
  BY <1>1, <1>4, ChunkBefore
<1>9. \A j \in 1 .. k : HasChunk(r, s \o t, 0, j)
  BY <1>7, <1>8
<1>10. s \o t \in Seq(Tokens) /\ Len(s \o t) = Len(s) + Len(t)
  BY JoinAt
<1>11. Len(s \o t) = Sums(r)[k] + 4 * k
  <2>1. Len(s) = p + 4 * (k - 1)
    BY <1>1, <1>5
  <2>2. 4 * k = 4 * (k - 1) + 4
    BY <1>4
  <2>3. 4 * (k - 1) \in Int /\ 4 * k \in Int
    BY <1>4
  <2>4. QED
    BY <1>6, <1>10, <2>1, <2>2, <2>3
<1>12. QED
  BY <1>3, <1>9, <1>10, <1>11 DEF Chunked

LEMMA AllChunked ==
  ASSUME NEW r \in Response
  PROVE  Chunked(r, Len(r.parts))
<1> DEFINE n == Len(r.parts)
           T == {k \in 0 .. n : ~Chunked(r, k)}
<1>1. n \in Nat
  BY SumsAre
<1>2. Chunked(r, 0)
  <2>1. FirstChunks(r)[0] \in Seq(Tokens) /\ Len(FirstChunks(r)[0]) = 0
    <3>1. <<>> \in Seq(Tokens) /\ Len(<<>>) = 0
      OBVIOUS
    <3>2. FirstChunks(r)[0] = <<>>
      BY FirstChunksAre
    <3>3. QED
      BY <3>1, <3>2
  <2>2. Sums(r)[0] = 0
    BY SumsAre
  <2>3. QED
    BY <2>1, <2>2 DEF Chunked
<1>3. ASSUME T # {} PROVE FALSE
  <2>1. T \subseteq Nat
    BY <1>1
  <2>2. PICK m \in T : \A y \in T : ~(y < m)
    BY <1>3, <2>1, LeastNumber
  <2>3. m # 0
    BY <1>2, <2>2
  <2>4. m \in 1 .. n /\ m - 1 \in 0 .. n /\ m - 1 < m
    BY <1>1, <2>2, <2>3
  <2>5. Chunked(r, m - 1)
    BY <2>2, <2>4
  <2>6. QED
    BY <2>2, <2>4, <2>5, ChunkAdded
<1>4. QED
  BY <1>1, <1>3

LEMMA ChunksAre ==
  ASSUME NEW r \in Response
  PROVE  Chunks(r) \in Seq(Tokens) /\ \A k \in Parts(r) : HasChunk(r, Chunks(r), 0, k)
<1>1. PICK s \in Seq(Tokens), n \in Nat :
        /\ n = Len(r.parts) /\ s = FirstChunks(r)[n] /\ Len(s) = Sums(r)[n] + 4 * n
        /\ \A j \in 1 .. n : HasChunk(r, s, 0, j)
  BY AllChunked, SumsAre DEF Chunked
<1>2. PICK t \in Seq(Tokens) : t = Line("size", 0) /\ Len(t) = 2 /\ IsLine(t, 0, "size", 0)
  BY LineIs DEF Tags
<1>3. Chunks(r) = (s \o t) \o CRLF
  BY <1>1, <1>2 DEF Chunks
<1>4. n + 1 \in Parts(r) /\ \A j \in Parts(r) : j \in 1 .. n \/ j = n + 1
  <2>1. Parts(r) = 1 .. n + 1
    BY <1>1 DEF Parts
  <2>2. QED
    BY <2>1
<1>5. PICK o \in Nat : o = Offset(r, n + 1) /\ o = Len(s)
  BY <1>1, <1>4, PartsAre DEF Offset
<1>6. Part(r, n + 1) = 0
  BY <1>1 DEF Part
<1>7. HasChunk(r, s \o t, 0, n + 1)
  <2> Len(t) = 2 /\ Len(s) = o
    BY <1>2, <1>5
  <2>1. 0 \in Nat /\ 0 + 2 <= Len(t) /\ 0 + o = Len(s) + 0
    OBVIOUS
  <2>2. IsLine(s \o t, 0 + o, "size", 0)
    BY <1>2, <2>1, LineBehind, Zenon
  <2>3. Len(s \o t) = Len(s) + Len(t)
    BY JoinAt
  <2>4. 0 + o + 2 + 0 <= Len(s \o t)
    BY <2>3
  <2>5. IsBody(s \o t, 0 + o + 2, Sums(r)[n + 1 - 1], 0)
    BY DEF IsBody
  <2>6. QED
    BY <1>5, <1>6, <2>2, <2>4, <2>5 DEF HasChunk
<1>8. ASSUME NEW k \in Parts(r)
      PROVE  HasChunk(r, s \o t, 0, k)
  BY <1>1, <1>4, <1>7, ChunkBefore
<1>9. s \o t \in Seq(Tokens)
  BY JoinAt
<1>10. ASSUME NEW k \in Parts(r)
       PROVE  HasChunk(r, (s \o t) \o CRLF, 0, k)
  BY <1>8, <1>9, CRLFIs, ChunkBefore
<1>11. (s \o t) \o CRLF \in Seq(Tokens)
  BY <1>9, CRLFIs, JoinAt
<1>12. QED
  BY <1>3, <1>10, <1>11

Fielded(r)   == r.status = 302 \/ r.framing \in {"length", "chunked"}
BlankAt(r)   == IF Fielded(r) THEN 4 ELSE 2
BodyAt(r)    == BlankAt(r) + 2
IsChunked(r) == r.status # 302 /\ r.framing = "chunked"
LengthOf(r)  == IF r.status # 302 /\ r.framing = "length" THEN Size(r) ELSE 0

\* The field that a header has besides the status.
FieldTag(r) == IF r.status = 302 THEN "location" ELSE r.framing
FieldNum(r) == LengthOf(r)

LEMMA AnswerIs ==
  ASSUME NEW r \in Response
  PROVE  /\ Answer(r) \in Seq(Tokens)
         /\ IsLine(Answer(r), 0, "status", r.status)
         /\ Fielded(r) => IsLine(Answer(r), 2, FieldTag(r), FieldNum(r))
         /\ IsLine(Answer(r), BlankAt(r), "blank", 0)
         /\ r.status # 302 /\ ~IsChunked(r) => IsBody(Answer(r), BodyAt(r), 0, Size(r))
         /\ IsChunked(r) => \A k \in Parts(r) : HasChunk(r, Answer(r), BodyAt(r), k)
<1>1. /\ r.status \in Nat /\ r.framing \in {"length", "chunked", "close"} /\ Size(r) \in Nat
  <2>1. Len(r.parts) \in 0 .. Len(r.parts)
    BY SumsAre
  <2>2. QED
    BY <2>1, SumsGrow DEF Size, Response
<1>2. PICK s \in Seq(Tokens) :
        s = Line("status", r.status) /\ Len(s) = 2 /\ IsLine(s, 0, "status", r.status)
  BY <1>1, LineIs DEF Tags
<1>3. /\ Fielded(r) => /\ Field(r) = Line(FieldTag(r), FieldNum(r))
                        /\ FieldTag(r) \in Tags /\ FieldNum(r) \in Nat
      /\ ~Fielded(r) => Field(r) = <<>>
  <2>1. CASE r.status = 302
    BY <2>1 DEF Field, Fielded, FieldTag, FieldNum, LengthOf, Tags
  <2>2. CASE r.status # 302 /\ r.framing = "length"
    BY <1>1, <2>2 DEF Field, Fielded, FieldTag, FieldNum, LengthOf, Tags
  <2>3. CASE r.status # 302 /\ r.framing = "chunked"
    BY <2>3 DEF Field, Fielded, FieldTag, FieldNum, LengthOf, Tags
  <2>4. CASE r.status # 302 /\ r.framing = "close"
    BY <2>4 DEF Field, Fielded
  <2>5. QED
    BY <1>1, <2>1, <2>2, <2>3, <2>4
<1>4. PICK f \in Seq(Tokens) :
        /\ f = Field(r) /\ Len(f) = BlankAt(r) - 2
        /\ Fielded(r) => IsLine(f, 0, FieldTag(r), FieldNum(r))
  <2>1. CASE Fielded(r)
    <3>1. Field(r) \in Seq(Tokens) /\ Len(Field(r)) = 2 /\ IsLine(Field(r), 0, FieldTag(r), FieldNum(r))
      BY <1>3, <2>1, LineIs
    <3>2. BlankAt(r) = 4
      BY <2>1 DEF BlankAt
    <3>3. QED
      BY <3>1, <3>2
  <2>2. CASE ~Fielded(r)
    <3>1. <<>> \in Seq(Tokens) /\ Len(<<>>) = 0
      OBVIOUS
    <3>2. Field(r) \in Seq(Tokens) /\ Len(Field(r)) = 0
      BY <1>3, <2>2, <3>1
    <3>3. BlankAt(r) - 2 = 0
      BY <2>2 DEF BlankAt
    <3>4. Field(r) \in Seq(Tokens) /\ Len(Field(r)) = BlankAt(r) - 2
      BY <3>2, <3>3, Zenon
    <3>5. QED
      BY <2>2, <3>4
  <2>3. QED
    BY <2>1, <2>2
<1>5. PICK b \in Seq(Tokens) : b = Line("blank", 0) /\ Len(b) = 2 /\ IsLine(b, 0, "blank", 0)
  BY LineIs DEF Tags
<1>6. PICK d \in Seq(Tokens) :
        /\ d = IF r.framing = "chunked" THEN Chunks(r) ELSE Bytes(0, Size(r))
        /\ r.framing = "chunked" => \A k \in Parts(r) : HasChunk(r, d, 0, k)
        /\ r.framing # "chunked" => IsBody(d, 0, 0, Size(r)) /\ Len(d) = Size(r)
  BY <1>1, ChunksAre, BytesAre
<1>7. Answer(r) = ((s \o f) \o b) \o d
  BY <1>2, <1>4, <1>5, <1>6 DEF Answer
<1>8. /\ s \o f \in Seq(Tokens) /\ Len(s \o f) = BlankAt(r)
      /\ BlankAt(r) \in {2, 4} /\ (Fielded(r) => BlankAt(r) = 4)
  <2>1. s \o f \in Seq(Tokens) /\ Len(s \o f) = Len(s) + Len(f)
    BY JoinAt
  <2>2. BlankAt(r) \in {2, 4} /\ (Fielded(r) => BlankAt(r) = 4)
    BY DEF BlankAt
  <2>3. Len(s) = 2 /\ Len(f) = BlankAt(r) - 2
    BY <1>2, <1>4
  <2>4. QED
    BY <2>1, <2>2, <2>3
<1>9. (s \o f) \o b \in Seq(Tokens) /\ Len((s \o f) \o b) = BodyAt(r)
  <2>1. (s \o f) \o b \in Seq(Tokens) /\ Len((s \o f) \o b) = Len(s \o f) + Len(b)
    BY <1>8, JoinAt
  <2>2. QED
    BY <1>5, <1>8, <2>1 DEF BodyAt
<1>10. ASSUME NEW a \in {0, 2}, NEW tag, NEW n, IsLine(s \o f, a, tag, n), a + 2 <= BlankAt(r)
      PROVE  IsLine(Answer(r), a, tag, n)
  <2>1. a \in Nat /\ a + 2 <= Len(s \o f) /\ a + 2 <= Len((s \o f) \o b)
    BY <1>8, <1>9, <1>10 DEF BodyAt
  <2>2. IsLine((s \o f) \o b, a, tag, n)
    BY <1>8, <1>10, <2>1, LineBefore, Zenon
  <2>3. IsLine(((s \o f) \o b) \o d, a, tag, n)
    BY <1>9, <2>1, <2>2, LineBefore, Zenon
  <2>4. QED
    BY <1>7, <2>3
<1>11. IsLine(Answer(r), 0, "status", r.status)
  <2> Len(s) = 2 /\ BlankAt(r) \in {2, 4}
    BY <1>2, <1>8
  <2>1. 0 \in Nat /\ 0 + 2 <= Len(s) /\ 0 + 2 <= BlankAt(r)
    OBVIOUS
  <2>2. IsLine(s \o f, 0, "status", r.status)
    BY <1>2, <2>1, LineBefore, Zenon
  <2>3. QED
    BY <1>10, <2>1, <2>2
<1>12. Fielded(r) => IsLine(Answer(r), 2, FieldTag(r), FieldNum(r))
  <2> SUFFICES ASSUME Fielded(r) PROVE IsLine(Answer(r), 2, FieldTag(r), FieldNum(r))
    OBVIOUS
  <2> Len(s) = 2 /\ Len(f) = 2 /\ BlankAt(r) = 4
    <3>1. Len(s) = 2 /\ Len(f) = BlankAt(r) - 2 /\ BlankAt(r) = 4
      BY <1>2, <1>4, <1>8
    <3>2. QED
      BY <3>1
  <2>1. 0 \in Nat /\ 0 + 2 <= Len(f) /\ 2 = Len(s) + 0 /\ 2 + 2 <= BlankAt(r)
    OBVIOUS
  <2>2. IsLine(s \o f, 2, FieldTag(r), FieldNum(r))
    BY <1>4, <2>1, LineBehind, Zenon
  <2>3. QED
    BY <1>10, <2>1, <2>2
<1>13. IsLine(Answer(r), BlankAt(r), "blank", 0)
  <2>1. /\ 0 \in Nat /\ 0 + 2 <= Len(b) /\ BlankAt(r) = Len(s \o f) + 0
        /\ BlankAt(r) \in Nat /\ BlankAt(r) + 2 <= Len((s \o f) \o b)
    BY <1>5, <1>8, <1>9 DEF BodyAt
  <2>2. IsLine((s \o f) \o b, BlankAt(r), "blank", 0)
    BY <1>5, <1>8, <2>1, LineBehind, Zenon
  <2>3. IsLine(((s \o f) \o b) \o d, BlankAt(r), "blank", 0)
    BY <1>9, <2>1, <2>2, LineBefore, Zenon
  <2>4. QED
    BY <1>7, <2>3
<1>14. BodyAt(r) = Len((s \o f) \o b) + 0 /\ 0 \in Nat
  BY <1>8, <1>9 DEF BodyAt
<1>15. r.framing # "chunked" => IsBody(Answer(r), BodyAt(r), 0, Size(r))
  <2> SUFFICES ASSUME r.framing # "chunked" PROVE IsBody(Answer(r), BodyAt(r), 0, Size(r))
    OBVIOUS
  <2>1. IsBody(d, 0, 0, Size(r)) /\ 0 + Size(r) <= Len(d)
    BY <1>1, <1>6
  <2>2. IsBody(((s \o f) \o b) \o d, BodyAt(r), 0, Size(r))
    BY <1>1, <1>9, <1>14, <2>1, BodyBehind, Zenon
  <2>3. QED
    BY <1>7, <2>2
<1>16. ASSUME r.framing = "chunked", NEW k \in Parts(r)
       PROVE  HasChunk(r, Answer(r), BodyAt(r), k)
  <2>1. HasChunk(r, d, 0, k)
    BY <1>6, <1>16
  <2>2. HasChunk(r, ((s \o f) \o b) \o d, BodyAt(r), k)
    BY <1>9, <1>14, <2>1, ChunkBehind, Zenon
  <2>3. QED
    BY <1>7, <2>2
<1>17. Answer(r) \in Seq(Tokens)
  BY <1>7, <1>9, JoinAt
<1>18. QED
  BY <1>11, <1>12, <1>13, <1>15, <1>16, <1>17 DEF IsChunked

(***************************************************************************)
(* The reader's place in the response.  As long as no line has been read   *)
(* in pieces and no write has begun again, what has arrived and what is    *)
(* still to come go on at the place that the reader's state stands for, no *)
(* length is below 0; or the connection has ended and nothing more comes.  *)
(***************************************************************************)

\* What has arrived and what is still to come go on behind place a of w.
Continues(w, a) ==
  /\ a + Len(stream) + Len(rest) <= Len(w)
  /\ \A i \in 1 .. Len(stream) : stream[i] = w[a + i]
  /\ \A i \in 1 .. Len(rest) : rest[i] = w[a + Len(stream) + i]

\* The first p bytes of the body are in the file.
Stored(p) == IF save_file THEN file = [i \in 1 .. p |-> i] ELSE p = 0 /\ file = OldFile

Untouched == save_file = FALSE /\ file = OldFile

StatusPlace(a) == pc = "status" /\ a = 0 /\ ~chunked_flag /\ len = 0

FieldPlace(a) ==
  /\ pc = "header" /\ status_code = answer.status
  /\ a = 2 /\ Fielded(answer) /\ ~chunked_flag /\ len = 0

BlankPlace(a) ==
  /\ pc = "header" /\ status_code = answer.status
  /\ a = BlankAt(answer) /\ (chunked_flag <=> IsChunked(answer)) /\ len = LengthOf(answer)

PlainPlace(a, p) ==
  /\ pc = "data" /\ ~chunked_flag /\ ~IsChunked(answer) /\ answer.status # 302
  /\ a = BodyAt(answer) + p /\ total_len \in Nat /\ p + total_len = LengthOf(answer)

SizePlace(a, p) ==
  /\ pc = "size" /\ chunked_flag /\ IsChunked(answer)
  /\ \E k \in Parts(answer) : p = Sums(answer)[k - 1] /\ a = BodyAt(answer) + Offset(answer, k)

PartPlace(a, p) ==
  /\ pc = "data" \/ (pc = "crlf" /\ total_len = 0)
  /\ chunked_flag /\ IsChunked(answer) /\ total_len \in Nat
  /\ \E k \in Parts(answer) : /\ part_len = Part(answer, k) /\ total_len <= part_len
                              /\ p + total_len = Sums(answer)[k - 1] + part_len
                              /\ a = BodyAt(answer) + 4 * (k - 1) + 2 + p

Place(a, p) ==
  \/ StatusPlace(a) \/ FieldPlace(a) \/ BlankPlace(a)
  \/ PlainPlace(a, p) \/ SizePlace(a, p) \/ PartPlace(a, p)

Reading == {"status", "header", "data", "size", "crlf"}

InPlace ==
  \E a \in Nat, p \in 0 .. Size(answer) :
    Continues(Answer(answer), a) /\ Place(a, p) /\ Stored(p)

\* Only half a line had come when the connection ended, or nothing of it.
Dry ==
  /\ stream = <<>> /\ sock \in {"fin", "rst"}
  /\ pc = "header" \/ (pc # "status" /\ chunked_flag /\ total_len \in Nat)
  /\ \E p \in 0 .. Size(answer) : Stored(p)

\* Nothing is written yet, nor will it be where a torn header makes the program crash.
Early == {"call", "send", "status", "header", "failed", "redirect", "crashed"}

\* A download that ends with 0 has all of the body, if the response says its length.
Finished ==
  /\ \E p \in 0 .. Size(answer) : Stored(p)
  /\ result = 0 /\ flaw = "none" /\ answer.framing # "close" => Stored(Size(answer))

Flowing ==
  /\ stream \in Seq(Tokens) /\ rest \in Seq(Tokens)
  /\ sock # "up" => rest = <<>>
  /\ pc \in {"call", "send"} => stream = <<>> /\ rest = <<>> /\ ~chunked_flag /\ len = 0

FileInv ==
  Sound =>
    /\ pc \in Early => Untouched
    /\ pc \in Reading => InPlace \/ Dry
    /\ pc = "clean_up" => Finished
    /\ pc = "done" => FileIsPrefix /\ ZeroMeansComplete

BodyInv == TypeInv /\ Flowing /\ FileInv

LEMMA AnswerTyped ==
  ASSUME Modes
  PROVE  answer \in Response /\ Size(answer) \in Nat
<1>1. NoAnswer \in Response
  <2>1. <<>> \in Seq(Nat \ {0})
    OBVIOUS
  <2>2. QED
    BY <2>1 DEF NoAnswer, Response
<1>2. answer \in Response
  BY <1>1, HttpAssumption DEF Modes, Response
<1>3. \A r \in Response : Len(r.parts) \in 0 .. Len(r.parts)
  BY SumsAre
<1>4. QED
  BY <1>2, <1>3, SumsGrow DEF Size

\* A line read in pieces is not forgotten, and neither is a write that began again.
LEMMA FlawStays ==
  ASSUME Next, Sound'
  PROVE  Sound
<1>1. CASE Network \/ Connects
  BY <1>1 DEF Network, Arrive, PeerCloses, PeerBreaks, Connects, connect_server_fails,
     connect_server, send_request, Sound
<1>2. CASE Whole \/ Pieces
  BY <1>2 DEF Whole, StatusLine, HeaderLine, SizeLine, Pieces, StatusLineTorn, HeaderLineTorn,
     SizeLineTorn, Torn, Sound
<1>3. CASE Saves \/ ReadsNegative
  <2>1. flaw' \in {flaw, "rewritten"}
    BY <1>3, SaveFacts, NegativeFacts DEF Saves, Reads, Interrupted, EndTakenForSignal
  <2>2. QED
    BY <2>1 DEF Sound
<1>4. CASE Ending \/ Leaving
  BY <1>4 DEF Ending, UnknownStatus, ReadFails, BodyRead, PartEnds, PartEndFails, Leaving,
     clean_up, Redirect, Sound
<1>5. QED
  BY <1>1, <1>2, <1>3, <1>4, NextParts

\* What is read from the front, and what arrives at the end, keep to the response.
LEMMA ReadOn ==
  ASSUME NEW w, NEW a \in Nat, NEW n \in Nat, Flowing, Continues(w, a), n <= Len(stream),
         stream' = SubSeq(stream, n + 1, Len(stream)), rest' = rest
  PROVE  Continues(w, a + n)' /\ a + n \in Nat
<1>1. PICK m \in Nat, l \in Nat, c \in Nat :
        m = Len(stream) /\ l = Len(rest) /\ c = Len(stream') /\ m = n + c
  BY DEF Flowing
<1>2. \A i \in 1 .. c : stream'[i] = stream[n + i] /\ n + i \in 1 .. m
  BY <1>1 DEF Flowing
<1>3. \A i \in 1 .. c : stream'[i] = w[a + n + i]
  <2> SUFFICES ASSUME NEW i \in 1 .. c PROVE stream'[i] = w[a + n + i]
    OBVIOUS
  <2>1. stream'[i] = stream[n + i] /\ stream[n + i] = w[a + (n + i)]
    BY <1>1, <1>2 DEF Continues
  <2>2. a + (n + i) = a + n + i
    OBVIOUS
  <2>3. QED
    BY <2>1, <2>2
<1>4. \A i \in 1 .. l : rest[i] = w[a + n + c + i]
  <2> SUFFICES ASSUME NEW i \in 1 .. l PROVE rest[i] = w[a + n + c + i]
    OBVIOUS
  <2>1. rest[i] = w[a + m + i]
    BY <1>1 DEF Continues
  <2>2. a + n + c + i = a + m + i
    <3>1. m = n + c
      BY <1>1
    <3>2. a + n + c = a + (n + c)
      OBVIOUS
    <3>3. QED
      BY <3>1, <3>2
  <2>3. QED
    BY <2>1, <2>2
<1>5. a + n + c + l <= Len(w)
  <2>1. a + m + l <= Len(w)
    BY <1>1 DEF Continues
  <2>2. a + n + c + l = a + m + l
    <3>1. m = n + c
      BY <1>1
    <3>2. a + n + c = a + (n + c)
      OBVIOUS
    <3>3. QED
      BY <3>1, <3>2
  <2>3. QED
    BY <2>1, <2>2
<1>6. Len(rest') = l
  BY <1>1
<1>7. Continues(w, a + n)'
  BY <1>1, <1>3, <1>4, <1>5, <1>6 DEF Continues
<1>8. QED
  BY <1>7

LEMMA ArriveOn ==
  ASSUME NEW w, NEW a \in Nat, Flowing, Continues(w, a), Arrive
  PROVE  Continues(w, a)'
<1>1. rest # <<>> /\ stream' = Append(stream, Head(rest)) /\ rest' = Tail(rest)
  BY DEF Arrive
<1>2. PICK m \in Nat, l \in Nat \ {0} :
        m = Len(stream) /\ l = Len(rest) /\ Len(stream') = m + 1 /\ Len(rest') = l - 1
  BY <1>1 DEF Flowing
<1>3. /\ \A i \in 1 .. m : stream'[i] = stream[i]
      /\ stream'[m + 1] = rest[1]
      /\ \A i \in 1 .. l - 1 : rest'[i] = rest[i + 1]
  BY <1>1, <1>2 DEF Flowing
<1>4. \A i \in 1 .. m + 1 : stream'[i] = w[a + i]
  <2> SUFFICES ASSUME NEW i \in 1 .. m + 1 PROVE stream'[i] = w[a + i]
    OBVIOUS
  <2>1. CASE i \in 1 .. m
    BY <1>2, <1>3, <2>1 DEF Continues
  <2>2. CASE i = m + 1
    <3>1. 1 \in 1 .. l /\ rest[1] = w[a + m + 1]
      BY <1>2 DEF Continues
    <3>2. a + m + 1 = a + i
      BY <2>2
    <3>3. QED
      BY <1>3, <2>2, <3>1, <3>2
  <2>3. QED
    BY <2>1, <2>2
<1>5. \A i \in 1 .. l - 1 : rest'[i] = w[a + (m + 1) + i]
  <2> SUFFICES ASSUME NEW i \in 1 .. l - 1 PROVE rest'[i] = w[a + (m + 1) + i]
    OBVIOUS
  <2>1. i + 1 \in 1 .. l
    OBVIOUS
  <2>2. rest[i + 1] = w[a + m + (i + 1)]
    BY <1>2, <2>1 DEF Continues
  <2>3. a + m + (i + 1) = a + (m + 1) + i
    OBVIOUS
  <2>4. QED
    BY <1>3, <2>2, <2>3
<1>6. a + (m + 1) + (l - 1) <= Len(w)
  <2>1. a + m + l <= Len(w)
    BY <1>2 DEF Continues
  <2>2. a + (m + 1) + (l - 1) = a + m + l
    OBVIOUS
  <2>3. QED
    BY <2>1, <2>2
<1>7. QED
  BY <1>2, <1>4, <1>5, <1>6 DEF Continues

\* A whole line that is read is the line at the reader's place.
LEMMA LineRead ==
  ASSUME NEW w, NEW a \in Nat, Flowing, Continues(w, a), NEW tag, NEW n, IsLine(w, a, tag, n),
         NEW line, Gets(line), rest' = rest
  PROVE  line = Line(tag, n) /\ Continues(w, a + 2)' /\ a + 2 \in Nat
<1>1. PICK k \in Ends : /\ \A j \in Ends : k <= j
                        /\ line = SubSeq(stream, 1, k)
                        /\ stream' = SubSeq(stream, k + 1, Len(stream))
  BY DEF Gets
<1>2. Len(stream) \in Nat /\ \A j : j \in Ends <=> j \in 1 .. Len(stream) /\ stream[j].end
  BY DEF Ends, Flowing
<1>3. \A j \in 1 .. Len(stream) : stream[j] = w[a + j]
  BY DEF Continues
<1>4. w[a + 1].end = FALSE /\ w[a + 2].end = TRUE
  BY DEF IsLine
<1>5. 1 \notin Ends
  BY <1>2, <1>3, <1>4
<1>6. k \in 2 .. Len(stream)
  <2>1. Len(stream) \in Nat /\ k \in 1 .. Len(stream) /\ k # 1
    BY <1>2, <1>5
  <2>2. QED
    BY <2>1
<1>7. 2 \in Ends
  <2>1. 2 \in 1 .. Len(stream)
    BY <1>2, <1>6
  <2>2. stream[2] = w[a + 2]
    BY <1>3, <2>1
  <2>3. QED
    BY <1>2, <1>4, <2>1, <2>2
<1>8. k = 2 /\ 2 <= Len(stream)
  <2>1. k <= 2
    BY <1>1, <1>7
  <2>2. QED
    BY <1>2, <1>6, <2>1
<1>9. line = <<w[a + 1], w[a + 2]>>
  <2>1. line \in Seq(Tokens) /\ Len(line) = 2 /\ line[1] = stream[1] /\ line[2] = stream[2]
    BY <1>1, <1>8 DEF Flowing
  <2>2. stream[1] = w[a + 1] /\ stream[2] = w[a + 2]
    BY <1>2, <1>3, <1>8
  <2>3. line = <<line[1], line[2]>>
    BY <2>1
  <2>4. QED
    BY <2>1, <2>2, <2>3, Zenon
<1>10. line = Line(tag, n)
  BY <1>9 DEF IsLine, Line
<1>11. Continues(w, a + 2)' /\ a + 2 \in Nat
  BY <1>1, <1>8, ReadOn
<1>12. QED
  BY <1>10, <1>11

\* What is shown of the place before a step, and of the place behind it.
LEMMA Placed ==
  ASSUME InPlace
  PROVE  \E w : w = Answer(answer) /\ \E a \in Nat, p \in 0 .. Size(answer) :
                  Continues(w, a) /\ Place(a, p) /\ Stored(p)
BY DEF InPlace

LEMMA PlacedNext ==
  ASSUME NEW w, w = Answer(answer)', NEW a \in Nat, NEW p, p \in 0 .. Size(answer)',
         Continues(w, a)', Place(a, p)', Stored(p)'
  PROVE  InPlace'
BY DEF InPlace, Continues

LEMMA SameStored ==
  ASSUME UNCHANGED <<save_file, file>>, NEW p
  PROVE  Stored(p)' = Stored(p) /\ (Untouched' <=> Untouched)
BY DEF Stored, Untouched

\* While nothing is stored the file is that of before.
LEMMA UntouchedStored ==
  ASSUME Untouched, NEW p
  PROVE  Stored(p) <=> p = 0
BY DEF Stored, Untouched

LEMMA SamePlace ==
  ASSUME UNCHANGED <<answer, pc, status_code, chunked_flag, len, total_len, part_len>>,
         NEW a, NEW p, Place(a, p)
  PROVE  Place(a, p)'
<1>1. StatusPlace(a)' = StatusPlace(a) /\ FieldPlace(a)' = FieldPlace(a)
      /\ BlankPlace(a)' = BlankPlace(a)
  BY DEF StatusPlace, FieldPlace, BlankPlace
<1>2. PlainPlace(a, p)' = PlainPlace(a, p) /\ SizePlace(a, p)' = SizePlace(a, p)
      /\ PartPlace(a, p)' = PartPlace(a, p)
  BY DEF PlainPlace, SizePlace, PartPlace
<1>3. QED
  BY <1>1, <1>2 DEF Place

LEMMA NetworkFlows ==
  ASSUME Flowing, NEW w \in Seq(Tokens), NEW a \in Nat, Continues(w, a), Network
  PROVE  Continues(w, a)'
<1>1. CASE Arrive
  BY <1>1, ArriveOn
<1>2. CASE UNCHANGED <<stream, rest>>
  BY <1>2 DEF Continues
<1>3. CASE stream' \in {stream, <<>>} /\ rest' = <<>>
  <2>1. PICK m \in Nat, l \in Nat, z \in Nat : m = Len(stream) /\ l = Len(rest) /\ z = Len(w)
    BY DEF Flowing
  <2>2. a + m + l <= z /\ \A i \in 1 .. m : stream[i] = w[a + i]
    BY <2>1 DEF Continues
  <2>3. PICK c \in Nat : c = Len(stream') /\ c \in {m, 0} /\ (c = m => stream' = stream)
    BY <1>3, <2>1
  <2>4. Len(rest') = 0
    BY <1>3
  <2>5. a + c + 0 <= z
    BY <2>2, <2>3
  <2>6. \A i \in 1 .. c : stream'[i] = w[a + i]
    BY <2>2, <2>3
  <2>7. QED
    BY <2>1, <2>3, <2>4, <2>5, <2>6 DEF Continues
<1>4. QED
  BY <1>1, <1>2, <1>3 DEF Network, PeerCloses, PeerBreaks, peer

LEMMA SizeIs ==
  ASSUME NEW r \in Response
  PROVE  Size(r) \in Nat /\ Answer(r) \in Seq(Tokens)
<1>1. Len(r.parts) \in 0 .. Len(r.parts)
  BY SumsAre
<1>2. QED
  BY <1>1, SumsGrow, AnswerIs DEF Size

\* What FileInv says of each part of a call.
LEMMA Invariants ==
  ASSUME BodyInv, Sound
  PROVE  /\ TypeInv /\ Modes /\ Flowing /\ answer \in Response /\ Size(answer) \in Nat
         /\ pc \in Early => Untouched
         /\ pc \in Reading => InPlace \/ Dry
         /\ pc = "clean_up" => Finished
         /\ pc = "done" => FileIsPrefix /\ ZeroMeansComplete
BY AnswerTyped DEF BodyInv, FileInv, TypeInv, TypeOK

LEMMA NetworkPlaced ==
  ASSUME BodyInv, Network, Sound
  PROVE  FileInv'
<1>1. /\ UNCHANGED <<answer, pc, result, status_code, chunked_flag, len, total_len, part_len>>
      /\ UNCHANGED <<save_file, file, flaw>> /\ sock = "up"
  BY DEF Network, Arrive, PeerCloses, PeerBreaks, header, body, disk, peer
<1>2. ~Dry
  BY <1>1 DEF Dry
<1>3. InPlace => InPlace'
  <2> SUFFICES ASSUME InPlace PROVE InPlace'
    OBVIOUS
  <2>1. PICK w : /\ w = Answer(answer)
                 /\ \E a \in Nat, p \in 0 .. Size(answer) :
                      Continues(w, a) /\ Place(a, p) /\ Stored(p)
    BY Placed
  <2>2. PICK a \in Nat, p \in 0 .. Size(answer) : Continues(w, a) /\ Place(a, p) /\ Stored(p)
    BY <2>1
  <2>3. w \in Seq(Tokens) /\ Flowing
    BY <2>1, Invariants, SizeIs
  <2>4. Continues(w, a)'
    BY <2>2, <2>3, NetworkFlows
  <2>5. Place(a, p)' /\ Stored(p)'
    BY <1>1, <2>2, SamePlace, SameStored
  <2>6. w = Answer(answer)' /\ p \in 0 .. Size(answer)'
    BY <1>1, <2>1
  <2>7. QED
    BY <2>4, <2>5, <2>6, PlacedNext
<1>4. (Untouched => Untouched') /\ (Finished => Finished')
  BY <1>1 DEF Untouched, Finished, Stored
<1>5. FileIsPrefix /\ ZeroMeansComplete => FileIsPrefix' /\ ZeroMeansComplete'
  BY <1>1 DEF FileIsPrefix, ZeroMeansComplete
<1>6. QED
  BY <1>1, <1>2, <1>3, <1>4, <1>5, Invariants DEF FileInv

\* A download that fails has some of the body.
LEMMA FailsFinished ==
  ASSUME NEW p, p \in 0 .. Size(answer)', Stored(p)', result' = -1
  PROVE  Finished'
BY DEF Finished

LEMMA ConnectsPlaced ==
  ASSUME BodyInv, Connects, Sound
  PROVE  FileInv'
<1>1. UNCHANGED <<save_file, file, chunked_flag, len>> /\ pc \in {"call", "send"}
  BY DEF Connects, connect_server_fails, connect_server, send_request, header, disk
<1>2. Untouched' /\ Stored(0)'
  BY <1>1, Invariants DEF Early, Untouched, Stored
<1>3. CASE pc' = "clean_up"
  <2>1. result' = -1 /\ answer' = answer
    BY <1>3 DEF Connects, connect_server_fails, connect_server, send_request, Gives, peer
  <2>2. 0 \in 0 .. Size(answer)'
    BY <2>1, Invariants
  <2>3. QED
    BY <1>2, <1>3, <2>1, <2>2, FailsFinished DEF FileInv, Early, Reading
<1>4. CASE pc' = "send"
  BY <1>2, <1>4 DEF FileInv, Early, Reading
<1>5. CASE pc' = "status"
  <2>1. PICK r \in Responses : /\ answer' = r /\ rest' = Answer(r) /\ stream' = stream
                               /\ pc = "send"
    BY <1>5 DEF Connects, connect_server_fails, connect_server, send_request, Gives, link
  <2>2. PICK w \in Seq(Tokens), z \in Nat : w = Answer(r) /\ z = Len(w) /\ Size(r) \in Nat
    BY SizeIs, HttpAssumption DEF Response
  <2>3. stream' = <<>> /\ Len(stream') = 0 /\ rest' = w
    BY <2>1, <2>2, Invariants DEF Flowing
  <2>4. Continues(w, 0)'
    BY <2>2, <2>3 DEF Continues
  <2>5. Place(0, 0)'
    BY <1>1, <1>5, <2>1, Invariants DEF Place, StatusPlace, Flowing
  <2>6. w = Answer(answer)' /\ 0 \in 0 .. Size(answer)' /\ 0 \in Nat
    BY <2>1, <2>2
  <2>7. InPlace'
    BY <1>2, <2>4, <2>5, <2>6, PlacedNext
  <2>8. QED
    BY <1>2, <1>5, <2>7 DEF FileInv, Early, Reading
<1>6. QED
  BY <1>3, <1>4, <1>5 DEF Connects, connect_server_fails, connect_server, send_request, Gives

LEMMA LinesDiffer ==
  ASSUME NEW t, NEW n, NEW u, NEW m
  PROVE  /\ Line(t, n)[1].n = n /\ Line(t, n)[1].tag = t
         /\ t # u => Line(t, n) # Line(u, m)
<1>1. \A x, y : Line(x, y)[1] = [tag |-> x, n |-> y, at |-> 0, end |-> FALSE]
  BY DEF Line
<1>2. ASSUME NEW x, NEW y PROVE Line(x, y)[1].n = y /\ Line(x, y)[1].tag = x
  <2>1. PICK e : e = Line(x, y)[1] /\ e = [tag |-> x, n |-> y, at |-> 0, end |-> FALSE]
    BY <1>1
  <2>2. e.n = y /\ e.tag = x
    BY <2>1
  <2>3. QED
    BY <2>1, <2>2
<1>3. QED
  BY <1>2

\* Where a whole line is read, the reader is at its place.
LEMMA WholePlaced ==
  ASSUME BodyInv, Sound, pc \in Reading, NEW line, Gets(line)
  PROVE  \E w \in Seq(Tokens) : w = Answer(answer) /\ \E a \in Nat, p \in 0 .. Size(answer) :
           Continues(w, a) /\ Place(a, p) /\ Stored(p)
<1>1. PICK k \in Ends : k \in DOMAIN stream
  BY DEF Gets, Ends
<1>2. stream # <<>>
  <2>1. k \in 1 .. Len(stream)
    BY <1>1, Invariants DEF Flowing
  <2>2. QED
    BY <2>1
<1>3. InPlace
  BY <1>2, Invariants DEF Dry
<1>4. Answer(answer) \in Seq(Tokens)
  BY Invariants, SizeIs
<1>5. QED
  BY <1>3, <1>4, Placed

LEMMA StatusPlaced ==
  ASSUME BodyInv, StatusLine, Sound
  PROVE  FileInv'
<1>1. /\ UNCHANGED <<answer, rest, save_file, file, chunked_flag, len>>
      /\ pc = "status" /\ pc' = "header" /\ status_code' = answer.status
  BY DEF StatusLine, disk, peer
<1>2. PICK line : Gets(line)
  BY DEF StatusLine
<1>3. PICK w \in Seq(Tokens) : w = Answer(answer) /\ \E a \in Nat, p \in 0 .. Size(answer) :
                                 Continues(w, a) /\ Place(a, p) /\ Stored(p)
  BY <1>1, <1>2, WholePlaced DEF Reading
<1>4. PICK a \in Nat, p \in 0 .. Size(answer) : Continues(w, a) /\ Place(a, p) /\ Stored(p)
  BY <1>3
<1>5. a = 0 /\ ~chunked_flag /\ len = 0
  BY <1>1, <1>4 DEF Place, StatusPlace, FieldPlace, BlankPlace, PlainPlace, SizePlace, PartPlace
<1>6. IsLine(w, a, "status", answer.status)
  BY <1>3, <1>5, Invariants, AnswerIs
<1>7. Continues(w, a + 2)' /\ a + 2 \in Nat
  BY <1>1, <1>2, <1>4, <1>6, Invariants, LineRead
<1>8. a + 2 = 2
  BY <1>5
<1>9. Place(2, p)'
  <2>1. CASE Fielded(answer)
    BY <1>1, <1>5, <2>1 DEF Place, FieldPlace
  <2>2. CASE ~Fielded(answer)
    <3>1. BlankAt(answer) = 2 /\ ~IsChunked(answer) /\ LengthOf(answer) = 0
      BY <2>2 DEF Fielded, BlankAt, IsChunked, LengthOf
    <3>2. QED
      BY <1>1, <1>5, <3>1 DEF Place, BlankPlace
  <2>3. QED
    BY <2>1, <2>2
<1>10. Untouched' /\ Stored(p)'
  BY <1>1, <1>4, Invariants, SameStored DEF Early
<1>11. Continues(w, 2)' /\ w = Answer(answer)' /\ p \in 0 .. Size(answer)'
  BY <1>1, <1>3, <1>7, <1>8
<1>12. InPlace'
  BY <1>9, <1>10, <1>11, PlacedNext
<1>13. QED
  BY <1>1, <1>10, <1>12 DEF FileInv, Early, Reading

LEMMA SizeLinePlaced ==
  ASSUME BodyInv, SizeLine, Sound
  PROVE  FileInv'
<1>1. UNCHANGED <<answer, rest, save_file, file, chunked_flag>> /\ pc = "size" /\ pc' = "data"
  BY DEF SizeLine, ReadsPart, disk, peer, header
<1>2. PICK line : /\ Gets(line)
                  /\ IF \E n \in 0 .. Size(answer) : line = Line("size", n)
                     THEN ReadsPart(line[1].n)
                     ELSE \E n \in -MaxPart .. MaxPart : ReadsPart(n)
  BY DEF SizeLine
<1>3. PICK w \in Seq(Tokens) : w = Answer(answer) /\ \E a \in Nat, p \in 0 .. Size(answer) :
                                 Continues(w, a) /\ Place(a, p) /\ Stored(p)
  BY <1>1, <1>2, WholePlaced DEF Reading
<1>4. PICK a \in Nat, p \in 0 .. Size(answer) : Continues(w, a) /\ Place(a, p) /\ Stored(p)
  BY <1>3
<1>5. SizePlace(a, p)
  BY <1>1, <1>4 DEF Place, StatusPlace, FieldPlace, BlankPlace, PlainPlace, PartPlace
<1>6. PICK k \in Parts(answer) : /\ p = Sums(answer)[k - 1]
                                 /\ a = BodyAt(answer) + Offset(answer, k)
  BY <1>5 DEF SizePlace
<1>7. chunked_flag /\ IsChunked(answer)
  BY <1>5 DEF SizePlace
<1>8. PICK n \in Nat : /\ n = Part(answer, k) /\ IsLine(w, a, "size", n) /\ n <= Size(answer)
  <2>1. HasChunk(answer, w, BodyAt(answer), k)
    BY <1>3, <1>7, Invariants, AnswerIs
  <2>2. /\ Part(answer, k) \in Nat /\ p + Part(answer, k) <= Size(answer)
        /\ IsLine(w, a, "size", Part(answer, k))
    BY <1>6, <2>1, Invariants, PartsAre DEF HasChunk
  <2>3. QED
    BY <2>2, Invariants
<1>9. line = Line("size", n) /\ Continues(w, a + 2)' /\ a + 2 \in Nat
  BY <1>1, <1>2, <1>4, <1>8, Invariants, LineRead
<1>10. part_len' = n /\ total_len' = n
  <2>1. n \in 0 .. Size(answer)
    BY <1>8, Invariants
  <2>2. line[1].n = n
    BY <1>9, LinesDiffer
  <2>3. QED
    BY <1>2, <1>9, <2>1, <2>2 DEF ReadsPart
<1>11. a + 2 = BodyAt(answer) + 4 * (k - 1) + 2 + p
  <2>1. PICK b \in Nat, q \in Int : b = BodyAt(answer) /\ q = 4 * (k - 1)
    BY DEF BodyAt, BlankAt, Parts
  <2>2. a = b + (q + p)
    BY <1>6, <2>1 DEF Offset
  <2>3. a + 2 = b + q + 2 + p
    BY <2>2
  <2>4. QED
    BY <2>1, <2>3
<1>12. Place(a + 2, p)'
  <2>1. n <= n
    OBVIOUS
  <2>2. p + n = Sums(answer)[k - 1] + n
    BY <1>6
  <2>3. PartPlace(a + 2, p)'
    BY <1>1, <1>7, <1>8, <1>10, <1>11, <2>1, <2>2 DEF PartPlace
  <2>4. QED
    BY <2>3 DEF Place
<1>13. Stored(p)' /\ w = Answer(answer)' /\ p \in 0 .. Size(answer)'
  BY <1>1, <1>3, <1>4, SameStored
<1>14. InPlace'
  BY <1>9, <1>12, <1>13, PlacedNext
<1>15. QED
  BY <1>1, <1>14 DEF FileInv, Early, Reading

\* The field says how long the body is, or that it comes in chunks.
LEMMA FieldPlaced ==
  ASSUME BodyInv, HeaderLine, Sound, NEW w \in Seq(Tokens), w = Answer(answer),
         NEW a \in Nat, NEW p \in 0 .. Size(answer), Continues(w, a), FieldPlace(a), Stored(p)
  PROVE  FileInv'
<1>1. UNCHANGED <<answer, rest, save_file, file, status_code>> /\ pc = "header"
  BY DEF HeaderLine, disk, peer
<1>2. PICK line :
        /\ Gets(line)
        /\ len' = IF \E n \in 0 .. Size(answer) : line = Line("length", n) THEN line[1].n ELSE len
        /\ chunked_flag' = (chunked_flag \/ line = Line("chunked", 0))
        /\ line # Line("blank", 0) => UNCHANGED pc
  BY DEF HeaderLine
<1>3. PICK tag \in {"location", "length", "chunked"}, n \in Nat :
        tag = FieldTag(answer) /\ n = FieldNum(answer)
  <2>1. FieldNum(answer) \in Nat
    BY Invariants DEF FieldNum, LengthOf
  <2>2. FieldTag(answer) \in {"location", "length", "chunked"}
    BY DEF FieldPlace, Fielded, FieldTag
  <2>3. QED
    BY <2>1, <2>2
<1>4. a = 2 /\ Fielded(answer) /\ ~chunked_flag /\ len = 0 /\ status_code = answer.status
  BY DEF FieldPlace
<1>5. IsLine(w, a, tag, n)
  BY <1>3, <1>4, Invariants, AnswerIs
<1>6. line = Line(tag, n) /\ Continues(w, a + 2)' /\ a + 2 \in Nat
  BY <1>1, <1>2, <1>5, Invariants, LineRead
<1>7. a + 2 = 4 /\ BlankAt(answer) = 4
  BY <1>4 DEF BlankAt
<1>8. /\ answer.status = 302 => tag = "location" /\ ~IsChunked(answer) /\ LengthOf(answer) = 0
      /\ answer.status # 302 =>
           /\ tag = answer.framing /\ tag \in {"length", "chunked"} /\ n = LengthOf(answer)
           /\ IsChunked(answer) <=> tag = "chunked"
           /\ tag = "chunked" => n = 0
           /\ tag = "length" => n = Size(answer)
  BY <1>3, <1>4 DEF FieldTag, FieldNum, LengthOf, IsChunked, Fielded
<1>9. tag # "blank"
  OBVIOUS
<1>10. line # Line("blank", 0)
  BY <1>6, <1>9, LinesDiffer
<1>11. chunked_flag' <=> IsChunked(answer)
  <2>1. tag # "chunked" => line # Line("chunked", 0)
    BY <1>6, LinesDiffer
  <2>2. tag = "chunked" => line = Line("chunked", 0)
    BY <1>6, <1>8
  <2>3. IsChunked(answer) <=> tag = "chunked"
    BY <1>8
  <2>4. QED
    BY <1>2, <1>4, <2>1, <2>2, <2>3
<1>12. len' = LengthOf(answer)
  <2>1. CASE tag = "length"
    <3>1. n \in 0 .. Size(answer) /\ n = LengthOf(answer)
      BY <1>8, <2>1, Invariants
    <3>2. line[1].n = n /\ line = Line("length", n)
      BY <1>6, <2>1, LinesDiffer
    <3>3. QED
      BY <1>2, <3>1, <3>2
  <2>2. CASE tag # "length"
    <3>1. ~ \E m \in 0 .. Size(answer) : line = Line("length", m)
      BY <1>6, <2>2, LinesDiffer
    <3>2. LengthOf(answer) = 0
      BY <1>8, <2>2
    <3>3. QED
      BY <1>2, <1>4, <3>1, <3>2
  <2>3. QED
    BY <2>1, <2>2
<1>13. Place(4, p)'
  BY <1>1, <1>2, <1>4, <1>7, <1>10, <1>11, <1>12 DEF Place, BlankPlace
<1>14. Untouched' /\ Stored(p)'
  BY <1>1, Invariants, SameStored DEF Early
<1>15. Continues(w, 4)' /\ w = Answer(answer)' /\ p \in 0 .. Size(answer)'
  BY <1>1, <1>6, <1>7
<1>16. InPlace'
  BY <1>13, <1>14, <1>15, PlacedNext
<1>17. QED
  BY <1>1, <1>2, <1>10, <1>14, <1>16 DEF FileInv, Early, Reading

\* Behind the blank line is the body, or nothing is read any more.
LEMMA BlankPlaced ==
  ASSUME BodyInv, HeaderLine, Sound, NEW w \in Seq(Tokens), w = Answer(answer),
         NEW a \in Nat, NEW p \in 0 .. Size(answer), Continues(w, a), BlankPlace(a), Stored(p)
  PROVE  FileInv'
<1>1. UNCHANGED <<answer, rest, save_file, file, status_code>> /\ pc = "header"
  BY DEF HeaderLine, disk, peer
<1>2. PICK line :
        /\ Gets(line)
        /\ len' = IF \E n \in 0 .. Size(answer) : line = Line("length", n) THEN line[1].n ELSE len
        /\ chunked_flag' = (chunked_flag \/ line = Line("chunked", 0))
        /\ line = Line("blank", 0) => pc' = Goes /\ total_len' = len
  BY DEF HeaderLine
<1>3. /\ a = BlankAt(answer) /\ (chunked_flag <=> IsChunked(answer))
      /\ len = LengthOf(answer) /\ status_code = answer.status
  BY DEF BlankPlace
<1>4. IsLine(w, a, "blank", 0)
  BY <1>3, Invariants, AnswerIs
<1>5. line = Line("blank", 0) /\ Continues(w, a + 2)' /\ a + 2 \in Nat
  BY <1>1, <1>2, <1>4, Invariants, LineRead
<1>6. pc' = Goes /\ total_len' = LengthOf(answer) /\ chunked_flag' = chunked_flag
  <2>1. line # Line("chunked", 0)
    BY <1>5, LinesDiffer
  <2>2. chunked_flag \in BOOLEAN
    BY Invariants DEF Modes
  <2>3. QED
    BY <1>2, <1>3, <1>5, <2>1, <2>2
<1>7. Untouched' /\ Stored(p)' /\ p = 0
  BY <1>1, Invariants, SameStored, UntouchedStored DEF Early
<1>8. a + 2 = BodyAt(answer) /\ w = Answer(answer)' /\ p \in 0 .. Size(answer)'
  BY <1>1, <1>3 DEF BodyAt
<1>9. CASE pc' \in {"redirect", "failed"}
  BY <1>7, <1>9 DEF FileInv, Early, Reading
<1>10. CASE pc' = "data" /\ ~chunked_flag /\ status_code = 200
  <2>1. /\ 0 + LengthOf(answer) = LengthOf(answer) /\ BodyAt(answer) = BodyAt(answer) + 0
        /\ LengthOf(answer) \in Nat
    BY Invariants DEF LengthOf, BodyAt, BlankAt
  <2>2. PlainPlace(a + 2, p)'
    BY <1>1, <1>3, <1>6, <1>7, <1>8, <1>10, <2>1 DEF PlainPlace
  <2>3. InPlace'
    BY <1>5, <1>7, <1>8, <2>2, PlacedNext DEF Place
  <2>4. QED
    BY <1>10, <2>3 DEF FileInv, Early, Reading
<1>11. CASE pc' = "size" /\ chunked_flag
  <2>1. /\ 1 \in Parts(answer) /\ Sums(answer)[1 - 1] = 0 /\ Offset(answer, 1) = 0
        /\ BodyAt(answer) = BodyAt(answer) + 0
    <3>1. Sums(answer)[0] = 0 /\ Len(answer.parts) \in Nat /\ 1 - 1 = 0
      BY Invariants, SumsAre
    <3>2. QED
      BY <3>1 DEF Parts, Offset, BodyAt, BlankAt
  <2>2. SizePlace(a + 2, p)'
    BY <1>1, <1>3, <1>6, <1>7, <1>8, <1>11, <2>1 DEF SizePlace
  <2>3. InPlace'
    BY <1>5, <1>7, <1>8, <2>2, PlacedNext DEF Place
  <2>4. QED
    BY <1>11, <2>3 DEF FileInv, Early, Reading
<1>12. QED
  BY <1>6, <1>9, <1>10, <1>11, Invariants DEF Goes, Modes

LEMMA HeaderPlaced ==
  ASSUME BodyInv, HeaderLine, Sound
  PROVE  FileInv'
<1>1. pc = "header" /\ pc \in Reading
  BY DEF HeaderLine, Reading
<1>2. PICK line : Gets(line)
  BY DEF HeaderLine
<1>3. PICK w \in Seq(Tokens) : w = Answer(answer) /\ \E a \in Nat, p \in 0 .. Size(answer) :
                                 Continues(w, a) /\ Place(a, p) /\ Stored(p)
  BY <1>1, <1>2, WholePlaced
<1>4. PICK a \in Nat, p \in 0 .. Size(answer) : Continues(w, a) /\ Place(a, p) /\ Stored(p)
  BY <1>3
<1>5. FieldPlace(a) \/ BlankPlace(a)
  BY <1>1, <1>4 DEF Place, StatusPlace, PlainPlace, SizePlace, PartPlace
<1>6. QED
  BY <1>3, <1>4, <1>5, FieldPlaced, BlankPlaced

\* What is stored, wherever the reader is.
LEMMA SomeStored ==
  ASSUME BodyInv, Sound, pc \in Early \cup Reading
  PROVE  \E p \in 0 .. Size(answer) : Stored(p)
<1>1. CASE pc \in Reading
  BY <1>1, Invariants DEF InPlace, Dry
<1>2. CASE pc \in Early
  <2>1. 0 \in 0 .. Size(answer) /\ Untouched
    BY <1>2, Invariants
  <2>2. QED
    BY <2>1, UntouchedStored
<1>3. QED
  BY <1>1, <1>2

\* A step that fails and writes nothing.
LEMMA FailurePlaced ==
  ASSUME BodyInv, Sound, pc \in Early \cup Reading, pc' = "clean_up", result' = -1,
         UNCHANGED <<answer, save_file, file>>
  PROVE  FileInv'
<1>1. PICK p \in 0 .. Size(answer) : Stored(p)
  BY SomeStored
<1>2. Stored(p)' /\ p \in 0 .. Size(answer)'
  BY <1>1, SameStored
<1>3. Finished'
  BY <1>2, FailsFinished
<1>4. QED
  BY <1>3 DEF FileInv, Early, Reading

\* A line comes in pieces that are not noted only where the connection has ended.
LEMMA PiecesPlaced ==
  ASSUME BodyInv, Pieces, Sound', Sound
  PROVE  FileInv'
<1>1. UNCHANGED <<answer, save_file, file>> /\ pc \in {"status", "header", "size"}
  BY DEF Pieces, StatusLineTorn, HeaderLineTorn, SizeLineTorn, disk, peer
<1>2. AfterReset /\ sock # "up" /\ (pc = "size" => total_len' \in Nat)
  <2>1. CASE StatusLineTorn \/ HeaderLineTorn
    <3>1. AfterReset /\ flaw' = Torn /\ pc # "size"
      BY <2>1 DEF StatusLineTorn, HeaderLineTorn
    <3>2. QED
      BY <3>1 DEF Torn, Sound
  <2>2. CASE SizeLineTorn
    <3>1. PICK n \in -MaxPart .. MaxPart :
            ReadsPart(n) /\ flaw' = IF n < 0 THEN "torn" ELSE Torn
      BY <2>2 DEF SizeLineTorn
    <3>2. ~(n < 0) /\ sock # "up"
      BY <3>1 DEF Torn, Sound
    <3>3. n \in Nat /\ total_len' = n
      BY <3>1, <3>2, HttpAssumption DEF ReadsPart
    <3>4. AfterReset
      BY <2>2 DEF SizeLineTorn
    <3>5. QED
      BY <3>1, <3>2, <3>3, <3>4
  <2>3. QED
    BY <2>1, <2>2 DEF Pieces
<1>3. sock \in {"fin", "rst"}
  <2>1. TypeInv /\ Modes
    BY Invariants
  <2>2. OpenSock = 1
    BY <1>1, <2>1 DEF TypeInv, HeldInv
  <2>3. sock # "none"
    BY <2>2 DEF OpenSock
  <2>4. QED
    BY <1>2, <2>1, <2>3 DEF Modes
<1>4. sock' = "fin"
  BY <1>2, <1>3 DEF AfterReset
<1>5. stream' = <<>>
  BY DEF Pieces, StatusLineTorn, HeaderLineTorn, SizeLineTorn, GetsLess
<1>6. CASE pc' = "clean_up"
  <2>1. result' = -1
    BY <1>1, <1>6 DEF Pieces, StatusLineTorn, HeaderLineTorn, SizeLineTorn, ReadsPart, Gives
  <2>2. QED
    BY <1>1, <1>6, <2>1, FailurePlaced DEF Early, Reading
<1>7. PICK p \in 0 .. Size(answer) : Stored(p)
  BY <1>1, SomeStored DEF Reading
<1>8. Stored(p)' /\ p \in 0 .. Size(answer)'
  BY <1>1, <1>7, SameStored
<1>9. CASE pc' = "header"
  <2>1. Untouched'
    BY <1>1, <1>9, Invariants, SameStored
    DEF Pieces, StatusLineTorn, HeaderLineTorn, SizeLineTorn, ReadsPart, Early
  <2>2. Dry'
    BY <1>4, <1>5, <1>8, <1>9 DEF Dry
  <2>3. QED
    BY <1>9, <2>1, <2>2 DEF FileInv, Early, Reading
<1>10. CASE pc' = "data"
  <2>1. pc = "size" /\ chunked_flag' = chunked_flag
    BY <1>10 DEF Pieces, StatusLineTorn, HeaderLineTorn, SizeLineTorn, ReadsPart, Gives, header
  <2>4. total_len' \in Nat
    BY <1>2, <2>1
  <2>2. chunked_flag
    BY <2>1, Invariants DEF InPlace, Place, StatusPlace, FieldPlace, BlankPlace, PlainPlace,
       SizePlace, PartPlace, Dry, Reading
  <2>3. Dry'
    BY <1>4, <1>5, <1>8, <1>10, <2>1, <2>2, <2>4 DEF Dry
  <2>5. QED
    BY <1>10, <2>3 DEF FileInv, Early, Reading
<1>12. CASE pc' = "crashed"
  <2>1. pc = "header"
    BY <1>12 DEF Pieces, StatusLineTorn, HeaderLineTorn, SizeLineTorn, ReadsPart, Gives
  <2>2. Untouched'
    BY <1>1, <2>1, Invariants, SameStored DEF Early
  <2>3. QED
    BY <1>12, <2>2 DEF FileInv, Early, Reading
<1>11. QED
  BY <1>1, <1>6, <1>9, <1>10, <1>12
  DEF Pieces, StatusLineTorn, HeaderLineTorn, SizeLineTorn, ReadsPart, Gives

\* A part of what is ahead is ahead too.
LEMMA BodyPart ==
  ASSUME NEW w, NEW c \in Nat, NEW q \in Nat, NEW n \in Nat, IsBody(w, c, q, n),
         NEW d \in Nat, NEW m \in Nat, d + m <= n
  PROVE  IsBody(w, c + d, q + d, m)
<1> SUFFICES ASSUME NEW i \in 1 .. m PROVE w[c + d + i].at = q + d + i
  BY DEF IsBody
<1>1. d + i \in 1 .. n /\ c + d + i = c + (d + i) /\ q + d + i = q + (d + i)
  OBVIOUS
<1>2. w[c + (d + i)].at = q + (d + i)
  BY <1>1 DEF IsBody
<1>3. QED
  BY <1>1, <1>2

\* What read_data has still to read is the body from where the file ends.
LEMMA DataAhead ==
  ASSUME answer \in Response, NEW w, w = Answer(answer), NEW a \in Nat,
         NEW p \in 0 .. Size(answer), Place(a, p), pc = "data", NEW t \in Nat, t = total_len
  PROVE  p + t <= Size(answer) /\ IsBody(w, a, p, t)
<1>1. PICK b \in Nat, z \in Nat : b = BodyAt(answer) /\ z = Size(answer)
  <2>1. BlankAt(answer) \in {2, 4}
    BY DEF BlankAt
  <2>2. BodyAt(answer) \in Nat
    BY <2>1 DEF BodyAt
  <2>3. QED
    BY <2>2, SizeIs
<1>2. PlainPlace(a, p) \/ PartPlace(a, p)
  BY DEF Place, StatusPlace, FieldPlace, BlankPlace, SizePlace
<1>3. CASE PlainPlace(a, p)
  <2>1. a = b + p /\ p + t \in {z, 0} /\ IsBody(w, b, 0, z)
    BY <1>1, <1>3, AnswerIs DEF PlainPlace, LengthOf
  <2>2. p + t <= z /\ 0 + p = p /\ p \in Nat /\ 0 \in Nat
    BY <1>1, <2>1
  <2>3. IsBody(w, b + p, 0 + p, t)
    BY <2>1, <2>2, BodyPart, Zenon
  <2>4. QED
    BY <1>1, <2>1, <2>2, <2>3
<1>4. CASE PartPlace(a, p)
  <2>1. PICK k \in Parts(answer) : /\ part_len = Part(answer, k) /\ t <= part_len
                                   /\ p + t = Sums(answer)[k - 1] + part_len
                                   /\ a = b + 4 * (k - 1) + 2 + p
    BY <1>1, <1>4 DEF PartPlace
  <2>2. PICK n \in Nat, s \in Nat, o \in Nat :
          n = Part(answer, k) /\ s = Sums(answer)[k - 1] /\ o = Offset(answer, k) /\ s + n <= z
    BY <1>1, PartsAre
  <2>3. o = 4 * (k - 1) + s
    BY <2>2 DEF Offset
  <2>4. IsBody(w, b + o + 2, s, n)
    BY <1>1, <1>4, <2>2, AnswerIs DEF PartPlace, HasChunk
  <2>5. p + t = s + n /\ t <= n /\ p \in Nat /\ k \in Nat
    BY <2>1, <2>2 DEF Parts
  <2>6. PICK d \in Nat : d = p - s /\ d + t = n /\ s + d = p
    <3>1. p - s \in Nat /\ (p - s) + t = n /\ s + (p - s) = p
      BY <2>5
    <3>2. QED
      BY <3>1
  <2>7. a = (b + o + 2) + d
    <3>1. a = b + 4 * (k - 1) + 2 + (s + d)
      BY <2>1, <2>6
    <3>2. QED
      BY <2>3, <2>5, <3>1
  <2>8. d + t <= n /\ b + o + 2 \in Nat
    BY <2>6
  <2>9. IsBody(w, (b + o + 2) + d, s + d, t)
    BY <2>4, <2>8, BodyPart, Zenon
  <2>10. p + t <= z
    BY <2>2, <2>5
  <2>11. QED
    BY <1>1, <2>6, <2>7, <2>9, <2>10
<1>5. QED
  BY <1>2, <1>3, <1>4

\* Where read_data is when it has read n bytes more.
LEMMA DataMoves ==
  ASSUME answer \in Response, NEW a \in Nat, NEW p \in Nat, NEW n \in Nat, NEW t \in Nat,
         Place(a, p), pc = "data", pc' = "data", t = total_len, n <= t, total_len' = t - n,
         UNCHANGED <<answer, chunked_flag, part_len>>
  PROVE  Place(a + n, p + n)'
<1>1. PlainPlace(a, p) \/ PartPlace(a, p)
  BY DEF Place, StatusPlace, FieldPlace, BlankPlace, SizePlace
<1>2. PICK b \in Nat : b = BodyAt(answer)
  <2>1. BlankAt(answer) \in {2, 4}
    BY DEF BlankAt
  <2>2. QED
    BY <2>1 DEF BodyAt
<1>3. t - n \in Nat /\ (p + n) + (t - n) = p + t
  OBVIOUS
<1>4. CASE PlainPlace(a, p)
  <2>1. a = b + p
    BY <1>2, <1>4 DEF PlainPlace
  <2>2. a + n = b + (p + n)
    BY <2>1
  <2>3. PlainPlace(a + n, p + n)'
    BY <1>2, <1>3, <1>4, <2>2 DEF PlainPlace
  <2>4. QED
    BY <2>3 DEF Place
<1>5. CASE PartPlace(a, p)
  <2>1. PICK k \in Parts(answer) : /\ part_len = Part(answer, k) /\ t <= part_len
                                   /\ p + t = Sums(answer)[k - 1] + part_len
                                   /\ a = b + 4 * (k - 1) + 2 + p
    BY <1>2, <1>5 DEF PartPlace
  <2>2. part_len \in Nat
    BY <2>1, PartsAre
  <2>3. t - n <= part_len
    BY <2>1, <2>2
  <2>4. a + n = b + 4 * (k - 1) + 2 + (p + n)
    <3>1. PICK o \in Int : o = 4 * (k - 1)
      BY DEF Parts
    <3>2. a = b + o + 2 + p
      BY <2>1, <3>1
    <3>3. a + n = b + o + 2 + (p + n)
      BY <3>2
    <3>4. QED
      BY <3>1, <3>3
  <2>5. PartPlace(a + n, p + n)'
    BY <1>2, <1>3, <1>5, <2>1, <2>3, <2>4 DEF PartPlace
  <2>6. QED
    BY <2>5 DEF Place
<1>6. QED
  BY <1>1, <1>4, <1>5

LEMMA JoinNumbers ==
  ASSUME NEW s \in Seq(Nat), NEW t \in Seq(Nat)
  PROVE  /\ s \o t \in Seq(Nat) /\ Len(s \o t) = Len(s) + Len(t)
         /\ \A i \in 1 .. Len(s) : (s \o t)[i] = s[i]
         /\ \A i \in 1 .. Len(t) : (s \o t)[Len(s) + i] = t[i]
OBVIOUS

\* So many bytes of the body behind the first p make a longer beginning of it.
LEMMA Counting ==
  ASSUME NEW p \in Nat, NEW m \in Nat, NEW f, \A k \in 1 .. m : f[k].at = p + k
  PROVE  [i \in 1 .. p |-> i] \o [k \in 1 .. m |-> f[k].at] = [i \in 1 .. p + m |-> i]
<1>1. PICK s \in Seq(Nat) : s = [i \in 1 .. p |-> i] /\ Len(s) = p /\ \A i \in 1 .. p : s[i] = i
  <2> DEFINE z == [i \in 1 .. p |-> i]
  <2>1. z \in Seq(Nat) /\ Len(z) = p /\ \A i \in 1 .. p : z[i] = i
    OBVIOUS
  <2> HIDE DEF z
  <2>2. \E s \in Seq(Nat) : s = z /\ Len(s) = p /\ \A i \in 1 .. p : s[i] = i
    BY <2>1
  <2>3. QED
    BY <2>2 DEF z
<1>2. PICK t \in Seq(Nat) : /\ t = [k \in 1 .. m |-> f[k].at] /\ Len(t) = m
                            /\ \A k \in 1 .. m : t[k] = p + k
  <2> DEFINE z == [k \in 1 .. m |-> f[k].at]
  <2>1. z \in Seq(Nat) /\ Len(z) = m /\ \A k \in 1 .. m : z[k] = p + k
    <3>1. \A k \in 1 .. m : f[k].at \in Nat
      OBVIOUS
    <3>2. z \in Seq(Nat) /\ Len(z) = m
      BY <3>1
    <3>3. \A k \in 1 .. m : z[k] = p + k
      OBVIOUS
    <3>4. QED
      BY <3>2, <3>3
  <2> HIDE DEF z
  <2>2. \E t \in Seq(Nat) : t = z /\ Len(t) = m /\ \A k \in 1 .. m : t[k] = p + k
    BY <2>1
  <2>3. QED
    BY <2>2 DEF z
<1>3. PICK x \in Seq(Nat) : x = s \o t /\ Len(x) = Len(s) + Len(t)
  BY JoinNumbers
<1>4. Len(x) = p + m
  BY <1>1, <1>2, <1>3
<1>5. ASSUME NEW i \in 1 .. p + m PROVE x[i] = i
  <2>1. CASE i \in 1 .. p
    BY <1>1, <1>3, <2>1, JoinNumbers
  <2>2. CASE i \notin 1 .. p
    <3>1. i - p \in 1 .. m /\ p + (i - p) = i
      BY <2>2
    <3>2. (s \o t)[p + (i - p)] = t[i - p]
      BY <1>1, <1>2, <3>1, JoinNumbers
    <3>3. QED
      BY <1>2, <1>3, <3>1, <3>2
  <2>3. QED
    BY <2>1, <2>2
<1>6. x = [i \in 1 .. Len(x) |-> x[i]]
  OBVIOUS
<1>7. x = [i \in 1 .. p + m |-> i]
  BY <1>4, <1>5, <1>6
<1>8. QED
  BY <1>1, <1>2, <1>3, <1>7

\* save_data stores the bytes behind those that are stored, or some of them.
LEMMA SaveStores ==
  ASSUME NEW bytes, NEW n \in Nat, Len(bytes) = n, NEW p \in Nat, Stored(p),
         \A i \in 1 .. n : bytes[i].at = p + i, save_data(bytes, "data"), pc = "data", Sound'
  PROVE  \E q \in p .. p + n : /\ Stored(q)'
                               /\ pc' = "data" => q = p + n
                               /\ pc' # "data" => pc' = "clean_up" /\ result' = -1
<1>1. PICK before : before = IF save_file THEN file ELSE <<>>
  OBVIOUS
<1>2. before = [i \in 1 .. p |-> i]
  <2>1. CASE save_file
    BY <1>1, <2>1 DEF Stored
  <2>2. CASE ~save_file
    <3>1. p = 0 /\ before = <<>>
      BY <1>1, <2>2 DEF Stored
    <3>2. [i \in 1 .. 0 |-> i] = <<>>
      OBVIOUS
    <3>3. QED
      BY <3>1, <3>2
  <2>3. QED
    BY <2>1, <2>2
<1>3. ASSUME NEW m \in 0 .. n, save_file' = TRUE,
             file' = before \o [k \in 1 .. m |-> bytes[k].at]
      PROVE  p + m \in p .. p + n /\ Stored(p + m)'
  <2>1. m \in Nat /\ \A k \in 1 .. m : bytes[k].at = p + k
    OBVIOUS
  <2>2. file' = [i \in 1 .. p + m |-> i]
    BY <1>2, <1>3, <2>1, Counting
  <2>3. Stored(p + m)'
    BY <1>3, <2>2, Zenon DEF Stored
  <2>4. p + m \in p .. p + n
    OBVIOUS
  <2>5. QED
    BY <2>3, <2>4
<1>4. \/ /\ save_file' = TRUE /\ file' = before \o [k \in 1 .. n |-> bytes[k].at]
         /\ (pc' = "data" \/ (pc' = "clean_up" /\ result' = -1))
      \/ /\ \E m \in 0 .. n - 1 :
              save_file' = TRUE /\ file' = before \o [k \in 1 .. m |-> bytes[k].at]
         /\ pc' = "clean_up" /\ result' = -1
      \/ UNCHANGED <<save_file, file>> /\ pc' = "clean_up" /\ result' = -1
  BY <1>1 DEF save_data, Gives, disk, Sound
<1>5. CASE /\ save_file' = TRUE /\ file' = before \o [k \in 1 .. n |-> bytes[k].at]
           /\ (pc' = "data" \/ (pc' = "clean_up" /\ result' = -1))
  <2>1. n \in 0 .. n
    OBVIOUS
  <2>2. p + n \in p .. p + n /\ Stored(p + n)'
    BY <1>3, <1>5, <2>1
  <2>3. QED
    BY <1>5, <2>2
<1>6. CASE /\ \E m \in 0 .. n - 1 :
                save_file' = TRUE /\ file' = before \o [k \in 1 .. m |-> bytes[k].at]
           /\ pc' = "clean_up" /\ result' = -1
  <2>1. PICK m \in 0 .. n - 1 :
          save_file' = TRUE /\ file' = before \o [k \in 1 .. m |-> bytes[k].at]
    BY <1>6
  <2>2. m \in 0 .. n
    OBVIOUS
  <2>3. p + m \in p .. p + n /\ Stored(p + m)'
    BY <1>3, <2>1, <2>2
  <2>4. QED
    BY <1>6, <2>3
<1>7. CASE UNCHANGED <<save_file, file>> /\ pc' = "clean_up" /\ result' = -1
  <2>1. Stored(p)' /\ p \in p .. p + n
    BY <1>7, SameStored
  <2>2. QED
    BY <1>7, <2>1
<1>8. QED
  BY <1>4, <1>5, <1>6, <1>7

\* A save takes what it saves from the front of the stream and from the count.
LEMMA SaveTakes ==
  ASSUME Flowing, Lengths, Saves
  PROVE  \E bytes, t : \E n \in 0 .. t :
           /\ t = total_len /\ t \in Nat /\ total_len' = t - n
           /\ Len(bytes) = n /\ n <= Len(stream) /\ \A i \in 1 .. n : bytes[i] = stream[i]
           /\ stream' = SubSeq(stream, n + 1, Len(stream)) /\ save_data(bytes, "data")
<1>1. PICK t \in Nat, m \in Nat, b \in Nat :
        t = total_len /\ m = Len(stream) /\ b = Asked /\ b <= t
  <2>1. total_len \in Nat /\ RECV_BUF \in Nat
    BY HttpAssumption DEF Lengths, Saves, Reads, Interrupted, EndTakenForSignal
  <2>2. Asked \in Nat /\ Asked <= total_len
    BY <2>1 DEF Asked
  <2>3. Len(stream) \in Nat
    BY DEF Flowing
  <2>4. QED
    BY <2>1, <2>2, <2>3
<1>2. b <= t
  BY <1>1
<1>3. CASE Reads
  <2>1. /\ b <= m /\ stream' = SubSeq(stream, b + 1, m) /\ total_len' = t - b
        /\ save_data(SubSeq(stream, 1, b), "data")
    BY <1>1, <1>3 DEF Reads
  <2>2. PICK bytes : bytes = SubSeq(stream, 1, b)
    OBVIOUS
  <2>3. Len(bytes) = b /\ \A i \in 1 .. b : bytes[i] = stream[i]
    BY <1>1, <2>1, <2>2 DEF Flowing
  <2>4. b \in 0 .. t
    BY <1>2
  <2>5. QED
    BY <1>1, <2>1, <2>2, <2>3, <2>4
<1>4. CASE Interrupted \/ EndTakenForSignal
  <2>1. m < b /\ stream' = <<>> /\ total_len' = t - m /\ save_data(stream, "data")
    BY <1>1, <1>4 DEF Interrupted, EndTakenForSignal
  <2>2. m \in 0 .. t /\ m <= m
    BY <1>2, <2>1
  <2>3. SubSeq(stream, m + 1, m) = <<>>
    BY <1>1 DEF Flowing
  <2>4. QED
    BY <1>1, <2>1, <2>2, <2>3
<1>5. QED
  BY <1>3, <1>4 DEF Saves

LEMMA SavesPlaced ==
  ASSUME BodyInv, Saves, Sound, Sound'
  PROVE  FileInv'
<1>1. UNCHANGED <<answer, rest, sock, chunked_flag, part_len>> /\ pc = "data"
  BY DEF Saves, Reads, Interrupted, EndTakenForSignal, peer, header
<1>2. answer \in Response /\ Flowing /\ Lengths /\ Size(answer) \in Nat
  BY Invariants DEF TypeInv, TypeOK
<1>3. PICK bytes, t : \E n \in 0 .. t :
        /\ t = total_len /\ t \in Nat /\ total_len' = t - n
        /\ Len(bytes) = n /\ n <= Len(stream) /\ \A i \in 1 .. n : bytes[i] = stream[i]
        /\ stream' = SubSeq(stream, n + 1, Len(stream)) /\ save_data(bytes, "data")
  BY <1>2, SaveTakes
<1>4. t = total_len /\ t \in Nat
  BY <1>3
<1>5. PICK n \in 0 .. t :
        /\ total_len' = t - n
        /\ Len(bytes) = n /\ n <= Len(stream) /\ \A i \in 1 .. n : bytes[i] = stream[i]
        /\ stream' = SubSeq(stream, n + 1, Len(stream)) /\ save_data(bytes, "data")
  BY <1>3
<1>6. n \in Nat /\ n <= t
  BY <1>4
<1>11. total_len' \in Nat
  <2>1. t - n \in Nat
    BY <1>4, <1>6
  <2>2. QED
    BY <1>5, <2>1
<1>7. ASSUME NEW q, q \in 0 .. Size(answer)', Stored(q)', pc' = "clean_up", result' = -1
      PROVE  FileInv'
  BY <1>7, FailsFinished DEF FileInv, Early, Reading
<1>8. CASE InPlace
  <2>1. PICK w : /\ w = Answer(answer)
                 /\ \E a \in Nat, p \in 0 .. Size(answer) :
                      Continues(w, a) /\ Place(a, p) /\ Stored(p)
    BY <1>8, Placed
  <2>2. PICK a \in Nat, p \in 0 .. Size(answer) : Continues(w, a) /\ Place(a, p) /\ Stored(p)
    BY <2>1
  <2>3. p + t <= Size(answer) /\ IsBody(w, a, p, t) /\ p \in Nat
    BY <1>1, <1>2, <1>4, <2>1, <2>2, DataAhead
  <2>4. \A i \in 1 .. n : bytes[i].at = p + i
    <3> SUFFICES ASSUME NEW i \in 1 .. n PROVE bytes[i].at = p + i
      OBVIOUS
    <3>1. PICK m \in Nat : m = Len(stream) /\ n <= m
      BY <1>2, <1>5 DEF Flowing
    <3>2. i \in 1 .. m /\ i \in 1 .. t
      <4>1. n \in Nat /\ n <= t /\ t \in Nat /\ n <= m
        BY <1>4, <1>6, <3>1
      <4>2. QED
        BY <4>1
    <3>3. bytes[i] = w[a + i]
      BY <1>5, <2>2, <3>1, <3>2 DEF Continues
    <3>4. QED
      BY <2>3, <3>2, <3>3 DEF IsBody
  <2>5. PICK q \in p .. p + n : /\ Stored(q)'
                                /\ pc' = "data" => q = p + n
                                /\ pc' # "data" => pc' = "clean_up" /\ result' = -1
    BY <1>1, <1>5, <1>6, <2>2, <2>3, <2>4, SaveStores
  <2>6. q \in 0 .. Size(answer)'
    <3>1. PICK z \in Nat : z = Size(answer) /\ z = Size(answer)' /\ p + t <= z
      BY <1>1, <1>2, <2>3
    <3>2. p \in Nat /\ t \in Nat /\ n \in Nat /\ n <= t /\ p + t <= z
      BY <1>4, <1>6, <2>3, <3>1
    <3>3. q \in 0 .. z
      BY <3>2
    <3>4. QED
      BY <3>1, <3>3
  <2>7. CASE pc' = "data"
    <3>1. Continues(w, a + n)' /\ a + n \in Nat
      BY <1>1, <1>2, <1>5, <1>6, <2>2, ReadOn
    <3>2. Place(a + n, p + n)'
      BY <1>1, <1>2, <1>4, <1>5, <1>6, <2>2, <2>3, <2>7, DataMoves
    <3>3. q = p + n /\ w = Answer(answer)'
      BY <1>1, <2>1, <2>5, <2>7
    <3>4. InPlace'
      BY <2>5, <2>6, <3>1, <3>2, <3>3, PlacedNext
    <3>5. QED
      BY <2>7, <3>4 DEF FileInv, Early, Reading
  <2>8. QED
    BY <1>7, <2>5, <2>6, <2>7
<1>9. CASE Dry
  <2>1. PICK p \in 0 .. Size(answer) : Stored(p)
    BY <1>9 DEF Dry
  <2>2. n = 0 /\ stream = <<>> /\ chunked_flag
    BY <1>1, <1>5, <1>6, <1>9 DEF Dry
  <2>3. p \in Nat /\ \A i \in 1 .. n : bytes[i].at = p + i
    BY <1>2, <2>2
  <2>4. PICK q \in p .. p + n : /\ Stored(q)'
                                /\ pc' # "data" => pc' = "clean_up" /\ result' = -1
    BY <1>1, <1>5, <1>6, <2>1, <2>3, SaveStores
  <2>5. q = p
    BY <2>2, <2>3
  <2>6. q \in 0 .. Size(answer)'
    BY <1>1, <2>5
  <2>7. CASE pc' = "data"
    <3>1. stream' = <<>>
      BY <1>5, <2>2
    <3>2. Dry'
      BY <1>1, <1>9, <1>11, <2>2, <2>4, <2>6, <2>7, <3>1 DEF Dry
    <3>3. QED
      BY <2>7, <3>2 DEF FileInv, Early, Reading
  <2>8. QED
    BY <1>7, <2>4, <2>6, <2>7
<1>10. QED
  BY <1>1, <1>8, <1>9, Invariants DEF Reading

LEMMA BodyReadPlaced ==
  ASSUME BodyInv, BodyRead, Sound
  PROVE  FileInv'
<1>1. /\ UNCHANGED <<answer, rest, stream, sock, chunked_flag, part_len, total_len>>
      /\ UNCHANGED <<save_file, file>> /\ pc = "data" /\ total_len = 0
  BY DEF BodyRead, peer, link, header, body, disk
<1>2. \/ pc' = "clean_up" /\ result' = -1
      \/ chunked_flag /\ pc' = "crlf"
      \/ ~chunked_flag /\ pc' = "clean_up" /\ result' = 0
  BY DEF BodyRead, Gives
<1>3. CASE pc' = "clean_up" /\ result' = -1
  BY <1>1, <1>3, FailurePlaced DEF Reading
<1>4. CASE InPlace /\ ~(pc' = "clean_up" /\ result' = -1)
  <2>1. PICK w : /\ w = Answer(answer)
                 /\ \E a \in Nat, p \in 0 .. Size(answer) :
                      Continues(w, a) /\ Place(a, p) /\ Stored(p)
    BY <1>4, Placed
  <2>2. PICK a \in Nat, p \in 0 .. Size(answer) : Continues(w, a) /\ Place(a, p) /\ Stored(p)
    BY <2>1
  <2>3. PlainPlace(a, p) \/ PartPlace(a, p)
    BY <1>1, <2>2 DEF Place, StatusPlace, FieldPlace, BlankPlace, SizePlace
  <2>4. Stored(p)' /\ p \in 0 .. Size(answer)'
    BY <1>1, <2>2, SameStored
  <2>5. CASE chunked_flag
    <3>1. PartPlace(a, p) /\ pc' = "crlf"
      BY <1>2, <1>4, <2>3, <2>5 DEF PlainPlace
    <3>2. PartPlace(a, p)'
      BY <1>1, <3>1 DEF PartPlace
    <3>3. Continues(w, a)' /\ w = Answer(answer)'
      BY <1>1, <2>1, <2>2 DEF Continues
    <3>4. InPlace'
      BY <2>4, <3>2, <3>3, PlacedNext DEF Place
    <3>5. QED
      BY <3>1, <3>4 DEF FileInv, Early, Reading
  <2>6. CASE ~chunked_flag
    <3>1. PlainPlace(a, p) /\ pc' = "clean_up"
      BY <1>2, <1>4, <2>3, <2>6 DEF PartPlace
    <3>2. p = LengthOf(answer)
      BY <1>1, <3>1 DEF PlainPlace
    <3>3. answer.framing # "close" => p = Size(answer)
      BY <3>1, <3>2, Invariants DEF PlainPlace, LengthOf, IsChunked, Response
    <3>4. Finished'
      BY <1>1, <2>4, <3>3 DEF Finished
    <3>5. QED
      BY <3>1, <3>4 DEF FileInv, Early, Reading
  <2>7. QED
    BY <2>5, <2>6
<1>5. CASE Dry /\ ~(pc' = "clean_up" /\ result' = -1)
  <2>1. chunked_flag /\ pc' = "crlf"
    BY <1>1, <1>2, <1>5 DEF Dry
  <2>2. Dry'
    BY <1>1, <1>5, <2>1 DEF Dry, Stored
  <2>3. QED
    BY <2>1, <2>2 DEF FileInv, Early, Reading
<1>6. QED
  BY <1>1, <1>3, <1>4, <1>5, Invariants DEF Reading

\* The next part begins where one ends, and behind the empty one nothing is missing.
LEMMA PartEndsPlaced ==
  ASSUME BodyInv, PartEnds, Sound
  PROVE  FileInv'
<1>1. /\ UNCHANGED <<answer, rest, chunked_flag, part_len, save_file, file>>
      /\ pc = "crlf" /\ Len(stream) >= 2 /\ stream' = SubSeq(stream, 2 + 1, Len(stream))
      /\ part_len = 0 => pc' = "clean_up"
      /\ part_len # 0 => pc' = "size"
  BY DEF PartEnds, Gives, peer, header, body, disk
<1>2. answer \in Response /\ Flowing /\ Size(answer) \in Nat
  BY Invariants
<1>3. 2 \in Nat /\ 2 <= Len(stream)
  BY <1>1, <1>2 DEF Flowing
<1>4. InPlace
  <2>1. stream # <<>>
    BY <1>3
  <2>2. QED
    BY <1>1, <2>1, Invariants DEF Dry, Reading
<1>5. PICK w : /\ w = Answer(answer)
               /\ \E a \in Nat, p \in 0 .. Size(answer) :
                    Continues(w, a) /\ Place(a, p) /\ Stored(p)
  BY <1>4, Placed
<1>6. PICK a \in Nat, p \in 0 .. Size(answer) : Continues(w, a) /\ Place(a, p) /\ Stored(p)
  BY <1>5
<1>7. PartPlace(a, p)
  BY <1>1, <1>6 DEF Place, StatusPlace, FieldPlace, BlankPlace, PlainPlace, SizePlace
<1>8. PICK k \in Parts(answer) : /\ part_len = Part(answer, k)
                                 /\ p + 0 = Sums(answer)[k - 1] + part_len
                                 /\ a = BodyAt(answer) + 4 * (k - 1) + 2 + p
  BY <1>1, <1>7 DEF PartPlace
<1>9. PICK n \in Nat, s \in Nat, m \in Nat :
        /\ n = part_len /\ s = Sums(answer)[k - 1] /\ m = Len(answer.parts)
        /\ k \in 1 .. m + 1
        /\ k <= m => n = answer.parts[k] /\ n # 0
        /\ k > m => n = 0 /\ s = Size(answer)
  <2>1. Len(answer.parts) \in Nat
    BY <1>2, SumsAre
  <2>2. k \in 1 .. Len(answer.parts) + 1
    BY DEF Parts
  <2>3. part_len \in Nat /\ Sums(answer)[k - 1] \in Nat
    BY <1>2, <1>8, PartsAre
  <2>4. /\ k <= Len(answer.parts) => part_len = answer.parts[k] /\ part_len # 0
        /\ k > Len(answer.parts) => part_len = 0 /\ Sums(answer)[k - 1] = Size(answer)
    BY <1>2, <1>8, PartsAre
  <2>5. QED
    BY <2>1, <2>2, <2>3, <2>4
<1>10. p \in Nat /\ p = s + n /\ k \in Nat
  <2>1. p \in Nat /\ k \in Nat
    BY <1>2, <1>9
  <2>2. p + 0 = s + n
    BY <1>8, <1>9
  <2>3. QED
    BY <2>1, <2>2
<1>11. Stored(p)' /\ p \in 0 .. Size(answer)'
  BY <1>1, <1>6, SameStored
<1>12. CASE n = 0
  <2>1. k > m
    BY <1>9, <1>12
  <2>2. p = Size(answer)
    BY <1>9, <1>10, <1>12, <2>1
  <2>3. Stored(Size(answer))'
    BY <1>1, <1>11, <2>2
  <2>4. Finished'
    BY <1>11, <2>3 DEF Finished
  <2>5. QED
    BY <1>1, <1>9, <1>12, <2>4 DEF FileInv, Early, Reading
<1>13. CASE n # 0
  <2>1. k <= m
    BY <1>9, <1>10, <1>13
  <2>2. k \in 1 .. m /\ k + 1 \in 1 .. m + 1 /\ (k + 1) - 1 = k
    BY <1>9, <2>1
  <2>3. k + 1 \in Parts(answer)
    BY <1>9, <2>2 DEF Parts
  <2>4. Sums(answer)[k] = s + n
    BY <1>2, <1>9, <2>1, <2>2, SumsAre
  <2>5. p = Sums(answer)[(k + 1) - 1]
    BY <1>10, <2>2, <2>4
  <2>6. Offset(answer, k + 1) = 4 * k + p
    BY <1>10, <2>2, <2>4 DEF Offset
  <2>7. a + 2 = BodyAt(answer) + Offset(answer, k + 1)
    <3>1. PICK b \in Nat : b = BodyAt(answer)
      <4>1. BlankAt(answer) \in {2, 4}
        BY DEF BlankAt
      <4>2. QED
        BY <4>1 DEF BodyAt
    <3>2. a = b + 4 * (k - 1) + 2 + p
      BY <1>8, <3>1
    <3>3. a + 2 = b + (4 * k + p)
      BY <1>10, <3>2
    <3>4. QED
      BY <2>6, <3>1, <3>3
  <2>8. Continues(w, a + 2)' /\ a + 2 \in Nat
    BY <1>1, <1>2, <1>3, <1>6, ReadOn
  <2>9. pc' = "size"
    BY <1>1, <1>9, <1>13
  <2>10. SizePlace(a + 2, p)'
    BY <1>1, <1>7, <2>3, <2>5, <2>7, <2>9 DEF SizePlace, PartPlace
  <2>11. w = Answer(answer)'
    BY <1>1, <1>5
  <2>12. InPlace'
    BY <1>11, <2>8, <2>10, <2>11, PlacedNext DEF Place
  <2>13. QED
    BY <2>9, <2>12 DEF FileInv, Early, Reading
<1>14. QED
  BY <1>12, <1>13

LEMMA EndingPlaced ==
  ASSUME BodyInv, Ending, Sound
  PROVE  FileInv'
<1>1. CASE UnknownStatus \/ ReadFails \/ PartEndFails
  <2>1. /\ UNCHANGED <<answer, save_file, file>> /\ pc' = "clean_up" /\ result' = -1
        /\ pc \in {"failed", "data", "crlf"}
    BY <1>1 DEF UnknownStatus, ReadFails, PartEndFails, Gives, peer, disk
  <2>2. QED
    BY <2>1, FailurePlaced DEF Early, Reading
<1>2. QED
  BY <1>1, BodyReadPlaced, PartEndsPlaced DEF Ending

\* While no line is torn no length is below 0.
LEMMA NeverNegative ==
  ASSUME BodyInv, Sound, ReadsNegative
  PROVE  FALSE
<1>1. pc = "data" /\ total_len < 0
  BY DEF ReadsNegative
<1>2. total_len \in Nat
  BY <1>1, Invariants DEF InPlace, Place, StatusPlace, FieldPlace, BlankPlace, PlainPlace,
     SizePlace, PartPlace, Dry, Reading
<1>3. QED
  BY <1>1, <1>2

\* What is stored is a beginning of the body, or all of it.
LEMMA StoredIsPrefix ==
  ASSUME answer \in Response, NEW p \in 0 .. Size(answer), Stored(p)
  PROVE  /\ FileIsPrefix
         /\ p = Size(answer) => file = Body(answer) \/ (Body(answer) = <<>> /\ file = OldFile)
         /\ save_file => /\ Len(file) = p
                         /\ \A n \in 0 .. p : SubSeq(file, 1, n) = SubSeq(Body(answer), 1, n)
<1>1. PICK z \in Nat : z = Size(answer)
  BY SizeIs
<1>2. p \in Nat /\ p <= z
  BY <1>1
<1>3. PICK x : x = Body(answer) /\ x = [k \in 1 .. z |-> k]
  BY <1>1 DEF Body
<1>4. \A n \in 0 .. z : SubSeq(x, 1, n) = [k \in 1 .. n |-> k]
  BY <1>3
<1>5. CASE save_file
  <2>1. file = [k \in 1 .. p |-> k]
    BY <1>5 DEF Stored
  <2>2. file = SubSeq(x, 1, p)
    BY <1>1, <1>4, <2>1
  <2>3. Len(file) = p /\ \A n \in 0 .. p : SubSeq(file, 1, n) = [k \in 1 .. n |-> k]
    BY <1>2, <2>1
  <2>4. \A n \in 0 .. p : n \in 0 .. z
    BY <1>2
  <2>5. \A n \in 0 .. p : SubSeq(file, 1, n) = SubSeq(x, 1, n)
    BY <1>4, <2>3, <2>4
  <2>6. FileIsPrefix
    BY <1>3, <2>2 DEF FileIsPrefix
  <2>7. p = z => file = x
    BY <1>3, <2>1
  <2>8. QED
    BY <1>1, <1>3, <2>3, <2>5, <2>6, <2>7
<1>6. CASE ~save_file
  <2>1. p = 0 /\ file = OldFile
    BY <1>6 DEF Stored
  <2>2. p = z => x = <<>>
    BY <1>3, <2>1
  <2>3. QED
    BY <1>1, <1>3, <1>6, <2>1, <2>2 DEF FileIsPrefix
<1>7. QED
  BY <1>5, <1>6

LEMMA LeavingPlaced ==
  ASSUME BodyInv, Leaving, Sound
  PROVE  FileInv'
<1>1. CASE Redirect
  <2>1. pc = "redirect" /\ pc' = "call" /\ save_file' = FALSE /\ file' = file
    BY <1>1 DEF Redirect, Cleared
  <2>2. Untouched'
    BY <2>1, Invariants DEF Untouched, Early
  <2>3. QED
    BY <2>1, <2>2 DEF FileInv, Early, Reading
<1>2. CASE clean_up
  <2>1. /\ pc = "clean_up" /\ pc' = "done" /\ answer' = answer /\ result' = result
        /\ \/ file' = file /\ flaw' = flaw
           \/ /\ save_file /\ flaw' # "none"
              /\ \E n \in 0 .. Len(file) - 1 : file' = SubSeq(file, 1, n)
    BY <1>2 DEF clean_up
  <2>2. answer \in Response /\ Size(answer) \in Nat /\ Finished
    BY <2>1, Invariants
  <2>3. PICK p \in 0 .. Size(answer) : Stored(p)
    BY <2>2 DEF Finished
  <2>4. FileIsPrefix
    BY <2>2, <2>3, StoredIsPrefix
  <2>5. CASE file' = file /\ flaw' = flaw
    <3>1. FileIsPrefix'
      BY <2>1, <2>4, <2>5 DEF FileIsPrefix
    <3>2. result = 0 /\ flaw = "none" /\ answer.framing # "close" =>
            file = Body(answer) \/ (Body(answer) = <<>> /\ file = OldFile)
      <4>1. Size(answer) \in 0 .. Size(answer)
        BY <2>2
      <4>2. QED
        BY <2>2, <4>1, StoredIsPrefix DEF Finished
    <3>3. ZeroMeansComplete'
      BY <2>1, <2>5, <3>2 DEF ZeroMeansComplete
    <3>4. QED
      BY <2>1, <3>1, <3>3 DEF FileInv, Early, Reading
  <2>6. CASE /\ save_file /\ flaw' # "none"
             /\ \E n \in 0 .. Len(file) - 1 : file' = SubSeq(file, 1, n)
    <3>1. PICK n \in 0 .. Len(file) - 1 : file' = SubSeq(file, 1, n)
      BY <2>6
    <3>2. /\ Len(file) = p
          /\ \A i \in 0 .. p : SubSeq(file, 1, i) = SubSeq(Body(answer), 1, i)
      BY <2>2, <2>3, <2>6, StoredIsPrefix
    <3>3. n \in 0 .. p /\ n \in 0 .. Size(answer)
      BY <2>2, <3>2
    <3>4. file' = SubSeq(Body(answer), 1, n)
      BY <3>1, <3>2, <3>3
    <3>5. FileIsPrefix'
      BY <2>1, <3>3, <3>4 DEF FileIsPrefix
    <3>6. ZeroMeansComplete'
      BY <2>6 DEF ZeroMeansComplete
    <3>7. QED
      BY <2>1, <3>5, <3>6 DEF FileInv, Early, Reading
  <2>7. QED
    BY <2>1, <2>5, <2>6
<1>3. QED
  BY <1>1, <1>2 DEF Leaving

LEMMA FlowingKept ==
  ASSUME TypeInv, Flowing, Next
  PROVE  Flowing'
<1>1. CASE Network
  <2>1. /\ UNCHANGED <<pc, chunked_flag, len>> /\ sock = "up"
        /\ stream' \in Seq(Tokens) /\ rest' \in Seq(Tokens)
    <3>1. CASE Arrive
      <4>1. rest # <<>> /\ rest \in Seq(Tokens) /\ stream \in Seq(Tokens)
        BY <3>1 DEF Arrive, Flowing
      <4>2. Head(rest) \in Tokens /\ Tail(rest) \in Seq(Tokens)
        BY <4>1
      <4>3. Append(stream, Head(rest)) \in Seq(Tokens)
        BY <4>1, <4>2
      <4>4. QED
        BY <3>1, <4>2, <4>3 DEF Arrive, header
    <3>2. CASE PeerCloses \/ PeerBreaks
      <4>1. stream' \in {stream, <<>>} /\ rest' \in {rest, <<>>}
        BY <3>2 DEF PeerCloses, PeerBreaks, peer
      <4>2. stream' \in Seq(Tokens) /\ rest' \in Seq(Tokens)
        <5>1. stream \in Seq(Tokens) /\ rest \in Seq(Tokens)
          BY DEF Flowing
        <5>2. <<>> \in Seq(Tokens)
          OBVIOUS
        <5>3. QED
          BY <4>1, <5>1, <5>2, Zenon
      <4>3. QED
        BY <3>2, <4>2 DEF PeerCloses, PeerBreaks, header
    <3>3. QED
      BY <1>1, <3>1, <3>2 DEF Network
  <2>2. sock' # "up" => rest' = <<>>
    BY <1>1, <2>1 DEF Network, Arrive, PeerCloses, PeerBreaks, peer
  <2>3. pc \in {"call", "send"} => stream' = <<>> /\ rest' = <<>>
    BY <1>1 DEF Flowing, Network, Arrive, PeerCloses, PeerBreaks, peer
  <2>4. QED
    BY <2>1, <2>2, <2>3 DEF Flowing
<1>2. CASE connect_server_fails \/ connect_server
  BY <1>2 DEF Flowing, connect_server_fails, connect_server, Gives, header, link, peer
<1>3. CASE send_request
  <2>1. CASE \E r \in Responses : sock = "up" /\ pc' = "status" /\ rest' = Answer(r)
    <3>1. PICK r \in Responses : rest' = Answer(r)
      BY <2>1
    <3>2. rest' \in Seq(Tokens)
      BY <3>1, SizeIs, HttpAssumption DEF Response
    <3>3. QED
      BY <1>3, <2>1, <3>2 DEF Flowing, send_request, link
  <2>2. CASE sock # "up" /\ pc' = "clean_up" /\ rest' = rest
    BY <1>3, <2>2 DEF Flowing, send_request, link
  <2>3. QED
    BY <1>3, <2>1, <2>2 DEF send_request, Gives, peer
<1>4. CASE Whole \/ Pieces \/ Saves \/ Ending
  <2>1. rest' = rest /\ pc \notin {"call", "send"}
    BY <1>4 DEF Whole, StatusLine, HeaderLine, SizeLine, Pieces, StatusLineTorn, HeaderLineTorn,
       SizeLineTorn, Saves, Reads, Interrupted, EndTakenForSignal, Ending, UnknownStatus,
       ReadFails, BodyRead, PartEnds, PartEndFails, peer
  <2>2. pc' \notin {"call", "send"}
    <3>1. CASE Whole \/ Pieces
      BY <3>1 DEF Whole, StatusLine, HeaderLine, SizeLine, Pieces, StatusLineTorn, HeaderLineTorn,
         SizeLineTorn, ReadsPart, Gives, Goes
    <3>2. CASE Saves \/ Ending
      BY <3>2, SaveFacts DEF Saves, Reads, Interrupted, EndTakenForSignal, Ending, UnknownStatus,
         ReadFails, BodyRead, PartEnds, PartEndFails, Gives
    <3>3. QED
      BY <1>4, <3>1, <3>2
  <2>3. sock' = sock \/ (sock = "rst" /\ sock' = "fin")
    BY <1>4 DEF Whole, StatusLine, HeaderLine, SizeLine, Pieces, StatusLineTorn, HeaderLineTorn,
       SizeLineTorn, AfterReset, Saves, Reads, Interrupted, EndTakenForSignal, Ending,
       UnknownStatus, ReadFails, BodyRead, PartEnds, PartEndFails, Stops, link
  <2>4. stream' \in {stream, <<>>} \/ \E i \in Nat : stream' = SubSeq(stream, i + 1, Len(stream))
    <3>1. CASE Whole
      <4>1. PICK line : Gets(line)
        BY <3>1 DEF Whole, StatusLine, HeaderLine, SizeLine
      <4>2. PICK k \in Ends : stream' = SubSeq(stream, k + 1, Len(stream))
        BY <4>1 DEF Gets
      <4>3. k \in Nat
        BY DEF Ends, Flowing
      <4>4. QED
        BY <4>2, <4>3
    <3>2. CASE Pieces
      BY <3>2 DEF Pieces, StatusLineTorn, HeaderLineTorn, SizeLineTorn, GetsLess
    <3>3. CASE Saves
      <4>1. PICK bytes, t : \E n \in 0 .. t : stream' = SubSeq(stream, n + 1, Len(stream)) /\ t \in Nat
        BY <3>3, SaveTakes DEF TypeInv, TypeOK
      <4>2. PICK n \in 0 .. t : stream' = SubSeq(stream, n + 1, Len(stream)) /\ t \in Nat
        BY <4>1
      <4>3. n \in Nat
        BY <4>2
      <4>4. QED
        BY <4>2, <4>3
    <3>4. CASE Ending
      <4>1. stream' \in {stream, <<>>} \/ stream' = SubSeq(stream, 2 + 1, Len(stream))
        BY <3>4 DEF Ending, UnknownStatus, ReadFails, BodyRead, PartEnds, PartEndFails, link
      <4>2. QED
        BY <4>1
    <3>5. QED
      BY <1>4, <3>1, <3>2, <3>3, <3>4
  <2>5. stream' \in Seq(Tokens)
    <3>1. stream \in Seq(Tokens) /\ <<>> \in Seq(Tokens)
      BY DEF Flowing
    <3>2. ASSUME NEW i \in Nat PROVE SubSeq(stream, i + 1, Len(stream)) \in Seq(Tokens)
      BY <3>1
    <3>3. QED
      BY <2>4, <3>1, <3>2
  <2>6. QED
    BY <2>1, <2>2, <2>3, <2>5 DEF Flowing
<1>5. CASE Leaving
  <2>1. Cleared
    BY <1>5 DEF Leaving, clean_up, Redirect
  <2>2. QED
    BY <2>1 DEF Cleared, Flowing
<1>6. CASE ReadsNegative
  <2>1. /\ pc' \notin {"call", "send"} /\ rest' = rest /\ stream' = <<>>
        /\ sock' = sock \/ (sock = "rst" /\ sock' = "fin")
    BY <1>6, NegativeFacts
  <2>2. <<>> \in Seq(Tokens)
    OBVIOUS
  <2>3. QED
    BY <2>1, <2>2 DEF Flowing
<1>7. QED
  BY <1>1, <1>2, <1>3, <1>4, <1>5, <1>6, NextParts DEF Connects

LEMMA InitBody == Init => BodyInv
<1> SUFFICES ASSUME Init PROVE BodyInv
  OBVIOUS
<1>1. TypeInv
  BY InitTypes
<1>2. Flowing
  BY DEF Init, Flowing
<1>3. FileInv
  BY DEF Init, FileInv, Untouched, Early, Reading
<1>4. QED
  BY <1>1, <1>2, <1>3 DEF BodyInv

LEMMA NextBody == BodyInv /\ [Next]_vars => BodyInv'
<1> SUFFICES ASSUME BodyInv, [Next]_vars PROVE BodyInv'
  OBVIOUS
<1>1. TypeInv'
  BY NextTypes DEF BodyInv
<1>2. CASE Next
  <2>1. Flowing'
    BY <1>2, FlowingKept DEF BodyInv
  <2>2. FileInv'
    <3>1. CASE ~Sound'
      BY <3>1 DEF FileInv
    <3>2. CASE Sound'
      <4>1. Sound
        BY <1>2, <3>2, FlawStays
      <4>2. QED
        BY <1>2, <3>2, <4>1, NextParts, NetworkPlaced, ConnectsPlaced, StatusPlaced, HeaderPlaced,
           SizeLinePlaced, PiecesPlaced, SavesPlaced, NeverNegative, EndingPlaced, LeavingPlaced
        DEF Whole
    <3>3. QED
      BY <3>1, <3>2
  <2>3. QED
    BY <1>1, <2>1, <2>2 DEF BodyInv
<1>3. CASE UNCHANGED vars
  <2>1. UNCHANGED <<answer, rest, sock, stream, pc, result, status_code, chunked_flag, len>>
        /\ UNCHANGED <<total_len, part_len, save_file, file, flaw>>
    BY <1>3 DEF vars, peer, link, header, body, disk
  <2>2. Flowing'
    BY <2>1 DEF BodyInv, Flowing
  <2>3. FileInv' 
    <3>1. CASE ~Sound
      BY <2>1, <3>1 DEF FileInv, Sound
    <3>2. CASE Sound
      <4>1. (Untouched => Untouched') /\ (Finished => Finished')
        BY <2>1 DEF Untouched, Finished, Stored
      <4>2. FileIsPrefix /\ ZeroMeansComplete => FileIsPrefix' /\ ZeroMeansComplete'
        BY <2>1, <3>2 DEF FileIsPrefix, ZeroMeansComplete
      <4>3. Dry => Dry'
        BY <2>1 DEF Dry, Stored
      <4>4. InPlace => InPlace'
        <5> SUFFICES ASSUME InPlace PROVE InPlace'
          OBVIOUS
        <5>1. PICK w : /\ w = Answer(answer)
                       /\ \E a \in Nat, p \in 0 .. Size(answer) :
                            Continues(w, a) /\ Place(a, p) /\ Stored(p)
          BY Placed
        <5>2. PICK a \in Nat, p \in 0 .. Size(answer) :
                Continues(w, a) /\ Place(a, p) /\ Stored(p)
          BY <5>1
        <5>3. Continues(w, a)' /\ w = Answer(answer)' /\ p \in 0 .. Size(answer)'
          BY <2>1, <5>1, <5>2 DEF Continues
        <5>4. Place(a, p)' /\ Stored(p)'
          BY <2>1, <5>2, SamePlace, SameStored
        <5>5. QED
          BY <5>3, <5>4, PlacedNext
      <4>5. QED
        BY <2>1, <3>2, <4>1, <4>2, <4>3, <4>4, Invariants DEF FileInv
    <3>3. QED
      BY <3>1, <3>2
  <2>4. QED
    BY <1>1, <2>2, <2>3 DEF BodyInv
<1>4. QED
  BY <1>2, <1>3

\* In any state what is in the file is a beginning of the body, and if the call has
\* returned 0 all of it.
LEMMA BodyIs == BodyInv => FileIsPrefix /\ ZeroMeansComplete
<1> SUFFICES ASSUME BodyInv PROVE FileIsPrefix /\ ZeroMeansComplete
  OBVIOUS
<1>1. CASE ~Sound
  BY <1>1 DEF FileIsPrefix, ZeroMeansComplete, Sound
<1>2. CASE Sound /\ pc = "done"
  BY <1>2, Invariants
<1>3. CASE Sound /\ pc # "done"
  <2>1. pc \in Early \cup Reading \/ pc = "clean_up"
    BY <1>3, Invariants DEF Modes, Early, Reading
  <2>2. \E p \in 0 .. Size(answer) : Stored(p)
    BY <1>3, <2>1, SomeStored, Invariants DEF Finished
  <2>3. FileIsPrefix
    BY <1>3, <2>2, Invariants, StoredIsPrefix
  <2>4. ZeroMeansComplete
    BY <1>3 DEF ZeroMeansComplete
  <2>5. QED
    BY <2>3, <2>4
<1>4. QED
  BY <1>1, <1>2, <1>3

\* Over chunks, full buffers, interrupted reads and redirects, for any responses: what
\* is in the file is the beginning of the body, every byte once and in its place,
\* unless a line of the response was read in pieces or a signal interrupted a write of
\* the file, which save_data then begins again.
THEOREM FileStaysPrefix == Spec => []FileIsPrefix
<1>1. BodyInv => FileIsPrefix
  BY BodyIs
<1>2. QED
  BY <1>1, InitBody, NextBody, PTL DEF Spec

\* If http_download returns 0 the file holds all of the body, whatever has failed on
\* the way, but for the exceptions that ZeroMeansComplete names.
THEOREM ZeroIsComplete == Spec => []ZeroMeansComplete
<1>1. BodyInv => ZeroMeansComplete
  BY BodyIs
<1>2. QED
  BY <1>1, InitBody, NextBody, PTL DEF Spec
=============================================================================
