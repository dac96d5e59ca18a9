----------------------------- MODULE MCFraming -----------------------------
(***************************************************************************)
(* Lines for model checking Framing: NAV-PVT frames (class 1, id 7) of a   *)
(* few bytes, of which some carry the sync bytes, between what a serial    *)
(* line adds.                                                              *)
(***************************************************************************)
EXTENDS Framing

Piece(kind, bytes) == [kind |-> kind, bytes |-> bytes]
Good(payload) == Piece("frame", Frame(1, 7, payload))

\* A frame of a message nobody subscribed to.
Other == Piece("frame", Frame(10, 4, <<36>>))

\* The checksum does not match.
Damaged(payload) == Piece("damaged", [Frame(1, 7, payload) EXCEPT ![7] = @ + 1])

\* The first n bytes of a frame: the others never arrive.
Cut(payload, n) == Piece("cut", SubSeq(Frame(1, 7, payload), 1, n))

\* A header whose length field reads 8192.
Huge == Piece("cut", <<SyncA, SyncB, 1, 7, 0, 32, 9>>)

Sentence(c) == Piece("sentence", <<36, c, 10>>)
Noise == Piece("noise", <<SyncA>>)

MCLines == {
  <<Sentence(65), Good(<<1>>), Sentence(66), Good(<<SyncA, SyncB>>), Other,
    Sentence(67), Good(<<SyncA>>)>>,
  <<Good(<<1>>), Damaged(<<2>>), Good(<<3>>)>>,
  <<Good(<<1>>), Cut(<<2, 3>>, 7), Good(<<4>>), Good(<<5>>)>>,
  <<Good(<<1>>), Huge, Good(<<2>>), Good(<<3>>), Good(<<4>>)>>,
  <<Noise, Good(<<1>>), Sentence(65), Noise, Noise, Good(<<2>>)>>,
  <<Good([i \in 1 .. 17 |-> i]), Good(<<1>>), Good(<<2>>)>> }

MCSubscribed == {<<1, 7>>}

\* What the proofs suppose of a line holds of half of these.
ASSUME CleanLines ==
  Cardinality({l \in MCLines :
                 Clean(l) /\ Small(l) /\ FramesDiffer(l) /\ Spoken(l)}) = 3
=============================================================================
