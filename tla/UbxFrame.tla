------------------------------ MODULE UbxFrame ------------------------------
(***************************************************************************)
(* The u-blox frame (serialization.hpp, checksum.hpp): how the Writer      *)
(* wraps a payload and how the Reader finds a frame in a buffer.  A byte   *)
(* is a number below 256; a buffer is the sequence of bytes from data_ to  *)
(* data_ + count_.                                                         *)
(***************************************************************************)
EXTENDS Integers, Sequences, SequencesExt

Byte == 0 .. 255

SyncA == 181
SyncB == 98
HeaderLength == 6
ChecksumLength == 2
WrapperLength == HeaderLength + ChecksumLength

-----------------------------------------------------------------------------
(* Writing.                                                                *)

\* calculateChecksum(): two running sums, each in a byte.
Summed(ck, b) == LET a == (ck[1] + b) % 256 IN <<a, (ck[2] + a) % 256>>

Checksum(bytes) ==
  LET sums[n \in 0 .. Len(bytes)] ==
        IF n = 0 THEN <<0, 0>> ELSE Summed(sums[n - 1], bytes[n])
  IN  sums[Len(bytes)]

\* The header: both sync bytes, class, id and the low and high length byte.
Header(class, id, length) ==
  <<SyncA, SyncB, class, id, length % 256, (length \div 256) % 256>>

Checked(bytes) == SubSeq(bytes, 3, Len(bytes))

\* Writer::write() of an encoded payload: the checksum leaves the sync bytes out.
Frame(class, id, payload) ==
  LET start == Header(class, id, Len(payload)) \o payload
  IN  start \o Checksum(Checked(start))

-----------------------------------------------------------------------------
(* Reading.                                                                *)

PayloadLength(buf) == 256 * buf[6] + buf[5]
FrameSize(buf) == PayloadLength(buf) + WrapperLength
Key(buf) == <<buf[3], buf[4]>>

Whole(buf) == SubSeq(buf, 1, FrameSize(buf))
From(buf, n) == SubSeq(buf, n + 1, Len(buf))

\* Defective variant, for mutation: a sync byte that ends the buffer is no start.
StartsPairOnly(buf, n) == n < Len(buf) /\ buf[n] = SyncA /\ buf[n + 1] = SyncB

\* A frame may start at the n-th byte: SyncB may still be to come.
Starts(buf, n) == buf[n] = SyncA /\ (n = Len(buf) \/ buf[n + 1] = SyncB)

\* Reader::search(): the number of bytes before the first place a frame may start.
Skipped(buf) ==
  CHOOSE n \in 0 .. Len(buf) :
    /\ n < Len(buf) => Starts(buf, n + 1)
    /\ \A i \in 1 .. n : ~Starts(buf, i)

\* Reader::found(): a header, and all the bytes it announces.
Found(buf) ==
  /\ Len(buf) >= WrapperLength
  /\ buf[1] = SyncA /\ buf[2] = SyncB
  /\ Len(buf) >= FrameSize(buf)

\* Reader::checksum() against calculateChecksum(): read() takes the frame.
Intact(frame) ==
  LET size == FrameSize(frame)
  IN  SubSeq(frame, size - 1, size)
        = Checksum(SubSeq(frame, 3, size - ChecksumLength))

=============================================================================
