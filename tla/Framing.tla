------------------------------ MODULE Framing ------------------------------
(***************************************************************************)
(* From bytes to messages: the I/O thread's read loop (async_worker.hpp,   *)
(* doRead and readEnd) and the dispatch of one read (callback.hpp,         *)
(* readCallback, handle and handle_nmea) on the Reader of UbxFrame.        *)
(*                                                                         *)
(* What the receiver sends is a line of pieces, [kind, bytes]: frames, and *)
(* what a serial line makes of frames, between NMEA sentences and noise.   *)
(* A stream may transfer any part of it per read; a datagram is read whole *)
(* or cut to the room there is, and the network may drop it.               *)
(***************************************************************************)
EXTENDS UbxFrame, FiniteSets

CONSTANTS
  Lines,       \* what the receiver may send
  Transports,  \* how it may arrive
  Subscribed,  \* class and id of the messages that have a handler
  Capacity,    \* bytes in_ holds
  MaxErrors    \* bound: reads that fail or transfer nothing

Kinds == {"frame", "damaged", "cut", "sentence", "noise"}

ASSUME FramingAssumption ==
  /\ \A l \in Lines : l \in Seq([kind : Kinds, bytes : Seq(Byte)])
  /\ Transports \subseteq {"stream", "datagram"}
  /\ Capacity \in Nat /\ Capacity >= WrapperLength
  /\ MaxErrors \in Nat

VARIABLES
  line,        \* what the receiver sends, never changed
  transport,   \* how it arrives, never changed
  rest,        \* what is still to be read: one stream, or one item per datagram
  in,          \* in_, up to in_buffer_size_
  pc,          \* where the I/O thread is
  buf,         \* the Reader: the bytes from pos() to end()
  found,       \* the Reader: found_
  extra,       \* the Reader: extra_data_
  delivered,   \* history: frames a handler decoded
  sentences,   \* history: sentences given to the NMEA callback
  errors       \* reads that failed

vars == <<line, transport, rest, in, pc, buf, found, extra, delivered,
          sentences, errors>>

reader == <<buf, found, extra>>
history == <<delivered, sentences>>

-----------------------------------------------------------------------------

PieceBytes(l) == [i \in 1 .. Len(l) |-> l[i].bytes]

Init ==
  /\ line \in Lines /\ transport \in Transports
  /\ rest = IF transport = "stream" THEN <<FlattenSeq(PieceBytes(line))>>
            ELSE PieceBytes(line)
  /\ in = <<>> /\ pc = "posted"
  /\ buf = <<>> /\ found = FALSE /\ extra = <<>>
  /\ delivered = <<>> /\ sentences = <<>>
  /\ errors = 0

\* Defective variant, for mutation: a full buffer is read into as it is.
MakeRoomNever(held) == held

\* A buffer without room holds the start of a frame that never fits.
MakeRoom(held) == IF Capacity - Len(held) = 0 THEN <<>> ELSE held

DoRead ==
  /\ pc = "posted"
  /\ in' = MakeRoom(in)
  /\ pc' = "reading"
  /\ UNCHANGED <<line, transport, rest, reader, history, errors>>

\* Defective variant, for mutation: the whole buffer is asked for, not its rest.
TransfersUpToCapacity(bytes, room) ==
  LET most == IF Len(bytes) < Capacity THEN Len(bytes) ELSE Capacity
  IN  IF transport = "stream" THEN 1 .. most ELSE {most}

\* How many of the bytes at hand one read may transfer.
Transfers(bytes, room) ==
  LET most == IF Len(bytes) < room THEN Len(bytes) ELSE room
  IN  IF transport = "stream" THEN 1 .. most ELSE {most}

Unread(bytes, n) ==
  IF transport = "stream" /\ n < Len(bytes) THEN <<From(bytes, n)>> \o Tail(rest)
  ELSE Tail(rest)

\* readEnd() up to read_callback_: the read is appended, a Reader is made.
ReadEnd ==
  /\ pc = "reading" /\ rest # <<>>
  /\ \E n \in Transfers(Head(rest), Capacity - Len(in)) :
       /\ in' = in \o SubSeq(Head(rest), 1, n)
       /\ rest' = Unread(Head(rest), n)
  /\ buf' = in' /\ found' = FALSE /\ extra' = <<>>
  /\ pc' = "searching"
  /\ UNCHANGED <<line, transport, history, errors>>

\* An error, or zero bytes, is logged, and the read posted again.
ReadFails ==
  /\ pc = "reading" /\ errors < MaxErrors
  /\ errors' = errors + 1
  /\ pc' = "posted"
  /\ UNCHANGED <<line, transport, rest, in, reader, history>>

\* Reader::next(), which search() calls first: past the frame found before.
Passed(b) == IF found THEN From(b, FrameSize(b)) ELSE b

\* The condition of the loop in readCallback(): search(), then found().
Search ==
  /\ pc = "searching"
  /\ LET b == Passed(buf)
         n == Skipped(b)
     IN  /\ buf' = From(b, n)
         /\ extra' = extra \o SubSeq(b, 1, n)
  /\ found' = Found(buf')
  /\ pc' = IF found' THEN "handling" ELSE "ending"
  /\ UNCHANGED <<line, transport, rest, in, history, errors>>

\* Defective variant, for mutation: whatever has the header of a message is one.
AcceptsAny(frame) == Key(frame) \in Subscribed

\* A handler is registered for the class and id, and read() takes the frame.
Accepts(frame) == Key(frame) \in Subscribed /\ Intact(frame)

Handle ==
  /\ pc = "handling"
  /\ delivered' = IF Accepts(Whole(buf)) THEN Append(delivered, Whole(buf))
                  ELSE delivered
  /\ pc' = "searching"
  /\ UNCHANGED <<line, transport, rest, in, reader, sentences, errors>>

Dollar == 36
NewLine == 10

\* The positions of byte b in s after position n.
After(s, b, n) == {i \in n + 1 .. Len(s) : s[i] = b}
First(S) == CHOOSE i \in S : \A j \in S : i <= j

\* handle_nmea(): from each '$' to the next newline, and on from there.
SentencesOf(s) ==
  LET cut[n \in 0 .. Len(s)] ==
        IF After(s, Dollar, n) = {} THEN <<>>
        ELSE LET start == First(After(s, Dollar, n))
                 ends  == After(s, NewLine, start)
             IN  IF ends = {} THEN <<>>
                 ELSE <<SubSeq(s, start, First(ends))>> \o cut[First(ends)]
  IN  cut[0]

\* Defective variant, for mutation: the bytes read are not deleted.
KeptWhole(b) == in

\* readCallback() moves pos() .. end() to the front and reports the rest consumed.
Kept(b) == b

\* The loop is over: NMEA, the bytes kept, and the next read is posted.
FinishRead ==
  /\ pc = "ending"
  /\ sentences' = sentences \o SentencesOf(extra)
  /\ in' = Kept(buf)
  /\ pc' = "posted"
  /\ UNCHANGED <<line, transport, rest, reader, delivered, errors>>

\* The network drops a datagram.
DropDatagram ==
  /\ transport = "datagram" /\ pc = "reading" /\ rest # <<>>
  /\ rest' = Tail(rest)
  /\ UNCHANGED <<line, transport, in, pc, reader, history, errors>>

Next ==
  \/ DoRead \/ ReadEnd \/ ReadFails
  \/ Search \/ Handle \/ FinishRead
  \/ DropDatagram

Spec == Init /\ [][Next]_vars

\* The I/O thread runs, and what the receiver sent arrives.
FairSpec == Spec /\ WF_vars(DoRead \/ ReadEnd \/ Search \/ Handle \/ FinishRead)

-----------------------------------------------------------------------------
(* What the line carries.                                                  *)

IsFrame(piece) == piece.kind = "frame"

\* The first byte of the i-th piece, counted from 0.
StartOf(l, i) == Len(FlattenSeq(SubSeq(PieceBytes(l), 1, i - 1)))

\* Pieces whose header announces more than they hold, or than fits.
Reaches(piece) ==
  \/ piece.kind = "cut"
  \/ IsFrame(piece) /\ Len(piece.bytes) > Capacity

\* The bytes such a header keeps from the frames behind it: those it announces,
\* but no more than the buffer holds.
Reach(piece) ==
  IF FrameSize(piece.bytes) < Capacity THEN FrameSize(piece.bytes) ELSE Capacity

Sure(l, i) ==
  /\ transport = "stream"
  /\ Len(l[i].bytes) <= Capacity
  /\ \A j \in 1 .. i - 1 :
       Reaches(l[j]) => StartOf(l, j) + Reach(l[j]) <= StartOf(l, i)

\* What the handlers wait for of the i-th piece: its frame, or nothing.
Wanted(l, i) ==
  IF IsFrame(l[i]) /\ Key(l[i].bytes) \in Subscribed
  THEN <<[frame |-> l[i].bytes, sure |-> Sure(l, i)]>> ELSE <<>>

\* The frames a handler waits for, in the order sent.
Sent(l) == FlattenSeq([i \in 1 .. Len(l) |-> Wanted(l, i)])

\* A frame whose header says what it holds, and that the buffer holds; a line
\* that damages it leaves that header alone, and the checksum shows the damage.
Framed(piece) == piece.kind \in {"frame", "damaged"}
WellFramed(piece) ==
  /\ Found(piece.bytes) /\ Len(piece.bytes) = FrameSize(piece.bytes)
  /\ Len(piece.bytes) <= Capacity
  /\ IsFrame(piece) <=> Intact(piece.bytes)

\* Bytes that start no frame, whatever stands before or behind them.
Silent(bytes) ==
  /\ bytes # <<>> /\ bytes[1] # SyncB
  /\ \A n \in 1 .. Len(bytes) - 1 : ~(bytes[n] = SyncA /\ bytes[n + 1] = SyncB)

\* A line without cut frames, and with no frame in what is between the frames.
Clean(l) ==
  \A i \in 1 .. Len(l) :
    IF Framed(l[i]) THEN WellFramed(l[i]) ELSE l[i].kind # "cut" /\ Silent(l[i].bytes)

\* Every piece fits the buffer behind a byte that was kept.
Small(l) == \A i \in 1 .. Len(l) : Len(l[i].bytes) < Capacity

\* Between the frames a '$' starts a sentence and a newline ends one, and what is
\* no sentence has neither.
Spoken(l) ==
  \A i \in 1 .. Len(l) :
    ~Framed(l[i]) =>
      \A k \in 1 .. Len(l[i].bytes) :
        /\ l[i].bytes[k] = Dollar <=> l[i].kind = "sentence" /\ k = 1
        /\ l[i].bytes[k] = NewLine <=> l[i].kind = "sentence" /\ k = Len(l[i].bytes)

\* No two frames of the line are the same.
FramesDiffer(l) ==
  \A i, j \in 1 .. Len(l) :
    IsFrame(l[i]) /\ IsFrame(l[j]) /\ l[i].bytes = l[j].bytes => i = j

\* Those behind the last one delivered (the frames of a line differ).
Pending ==
  LET sent == Sent(line)
      done == {k \in 1 .. Len(sent) : delivered # <<>> /\ sent[k].frame = Last(delivered)}
      last == IF done = {} THEN 0 ELSE CHOOSE k \in done : TRUE
  IN  SubSeq(sent, last + 1, Len(sent))

Channel == INSTANCE FrameDelivery WITH pending <- Pending

-----------------------------------------------------------------------------
(* Properties.                                                             *)

TypeOK ==
  /\ in \in Seq(Byte) /\ Len(in) <= Capacity
  /\ buf \in Seq(Byte) /\ extra \in Seq(Byte) /\ found \in BOOLEAN
  /\ pc \in {"posted", "reading", "searching", "handling", "ending"}
  /\ rest \in Seq(Seq(Byte))
  /\ errors \in 0 .. MaxErrors

\* A read always has room: asio would complete a read of zero bytes at once,
\* for ever, and the thread would never see a byte again (doRead, readEnd).
RoomToRead == pc = "reading" => Len(in) < Capacity

\* The read loop implements FrameDelivery: however the line is cut into reads,
\* and whatever else is on it, a handler gets the frames sent, once, in order
\* and undamaged, and no frame is lost that no damaged header reaches.
DeliversFrames == Channel!Spec

\* The sentences sent, in order.
SentSentences(l) ==
  FlattenSeq([i \in 1 .. Len(l) |->
                IF l[i].kind = "sentence" THEN <<l[i].bytes>> ELSE <<>>])

\* s is t with some of its items left out.
Within(s, t) ==
  \E at \in [1 .. Len(s) -> 1 .. Len(t)] :
    /\ \A k \in 1 .. Len(s) : s[k] = t[at[k]]
    /\ \A k \in 2 .. Len(s) : at[k - 1] < at[k]

\* The NMEA callback gets sentences the receiver sent, whole and in order, with
\* no byte of a frame among them, though it may miss some (handle_nmea): no two
\* halves of different sentences are joined, however the reads fall.
SentencesAsSent ==
  (\A i \in 1 .. Len(line) : line[i].kind # "cut")
    => Within(sentences, SentSentences(line))

=============================================================================
