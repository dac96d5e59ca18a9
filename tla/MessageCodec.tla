---------------------------- MODULE MessageCodec ----------------------------
(***************************************************************************)
(* Encoding and decoding the payload of a message: Writer::write() and     *)
(* Reader::read() (ublox_serialization) over the layouts of MessageLayout. *)
(* The receiver lays a message out as its .msg file says.  A handler       *)
(* decodes one message after the other into the same object, message_ of   *)
(* CallbackHandler_; what the driver sends it composes anew.               *)
(*                                                                         *)
(* A byte is named after where it belongs: <<message, group, element,      *)
(* field, byte>>, with group 0 for the head, so that a field read from the *)
(* wrong place, or left over from another message, does not look right.    *)
(***************************************************************************)
EXTENDS MessageLayout, SequencesExt

CONSTANTS
  Received,     \* the messages handlers decode
  Composed,     \* the messages the driver encodes
  Counts,       \* how many elements a group may have
  Trailing,     \* bytes a newer receiver may append to a message
  WriterSize,   \* kWriterSize
  MaxMessages   \* bound: messages decoded into one object, or encoded

ASSUME CodecAssumption ==
  /\ Received \cup Composed \subseteq DOMAIN Layouts
  /\ Counts \subseteq Nat /\ Trailing \subseteq Nat
  /\ WriterSize \in Nat /\ MaxMessages \in Nat

HeaderLength == 6
WrapperLength == 8

VARIABLES
  type,      \* the message this handler, or this call, is for
  object,    \* message_, or the message to encode
  wire,      \* the frame between the two sides
  result,    \* of the last read() or write()
  reach,     \* the bytes of the payload, or of the buffer, it touched
  sent,      \* history: the message that was sent, as its sender had it
  declared,  \* history: how many elements its sender counted in each group
  messages   \* messages so far

vars == <<type, object, wire, result, reach, sent, declared, messages>>

-----------------------------------------------------------------------------
(* Messages.                                                               *)

Zero == <<0, 0, 0, 0, 0>>
Zeros(width) == [b \in 1 .. width |-> Zero]

Total(s) == FoldLeft(+, 0, s)

\* Message v with so many elements in each group.
Message(l, v, counts) ==
  [head   |-> [f \in DOMAIN l.head |-> [b \in 1 .. l.head[f] |-> <<v, 0, 1, f, b>>]],
   groups |-> [g \in DOMAIN l.groups |->
                 [e \in 1 .. counts[g] |->
                    [f \in DOMAIN l.groups[g] |->
                       [b \in 1 .. l.groups[g][f] |-> <<v, g, e, f, b>>]]]]]

BlankElement(l, g) == [f \in DOMAIN l.groups[g] |-> Zeros(l.groups[g][f])]

\* A message as its constructor leaves it.
Blank(l) ==
  [head |-> [f \in DOMAIN l.head |-> Zeros(l.head[f])],
   groups |-> [g \in DOMAIN l.groups |-> <<>>]]

Sizes(m) == [g \in DOMAIN m.groups |-> Len(m.groups[g])]

\* How many elements the groups of a message may have.
CountsOf(l) ==
  CASE l.sizing = "words"   -> {[g \in DOMAIN l.groups |-> n] : n \in {0, 8}}
    [] l.sizing = "flagged" -> {<<n, c>> : n \in Counts, c \in {0, 1}}
    [] OTHER                -> [DOMAIN l.groups -> Counts]

\* How many its sender counts: the elements, or a field beside them.  Firmware 7
\* sets that of CFG-GNSS to one; without GLONASS it then stores to blocks[0] of an
\* empty vector, which is undefined, and if it survives that the vector is empty.
DeclaredCounts(l, counts) ==
  {counts} \cup IF l.sizing = "counted" /\ counts = <<0>> THEN {<<1>>} ELSE {}

\* The bytes of a message in order, but for the fields of the head in omitted.
Laid(m, omitted) ==
  FlattenSeq([f \in DOMAIN m.head |-> IF f \in omitted THEN <<>> ELSE m.head[f]])
    \o FlattenSeq([g \in DOMAIN m.groups |->
         FlattenSeq([e \in DOMAIN m.groups[g] |-> FlattenSeq(m.groups[g][e])])])

-----------------------------------------------------------------------------
(* Encoding.                                                               *)

\* Defective variant, for mutation: the elements are not counted.
LengthOfHead(l, count) == l.base

\* serializedLength(), from what the sender counted.
SerializedLength(l, count) ==
  l.base + Total([g \in DOMAIN l.groups |-> l.units[g] * count[g]])

\* Defective variant, for mutation: no room for header and checksum.
FitsPayloadOnly(length) == length <= WriterSize

\* The check for overflow in Writer::write().
Fits(length) == length + WrapperLength <= WriterSize

\* What is between header and checksum: the buffer was zero, and what the
\* serializer writes past the declared length gives way to the checksum.
Encoded(l, m, count) ==
  LET written == Laid(m, l.unwritten)
  IN  [k \in 1 .. SerializedLength(l, count) |->
         IF k <= Len(written) THEN written[k] ELSE Zero]

-----------------------------------------------------------------------------
(* Decoding.                                                               *)

\* A field of this width at this place; past the payload is what follows it.
Slice(payload, at, width) ==
  [b \in 1 .. width |-> IF at + b <= Len(payload) THEN payload[at + b] ELSE Zero]

\* The width of what read() takes of the head before field f.
Before(l, f) ==
  Total([i \in 1 .. f - 1 |-> IF i \in l.unread THEN 0 ELSE l.head[i]])

HeadLength(l) == Before(l, Len(l.head) + 1)

\* Defective variant, for mutation: a partial element at the end counts.
WholeElementsRoundedUp(rest, unit) == (rest + unit - 1) \div unit

WholeElements(rest, unit) == rest \div unit

\* How many elements of each group read() takes from the payload.
Taken(l, frame, old) ==
  LET length == Len(frame.payload)
  IN  CASE l.sizing = "counted" -> frame.counts
        [] l.sizing = "rest" ->
             <<WholeElements(length - l.base, l.units[1]) % l.modulus>>
        [] l.sizing = "words" ->
             [g \in DOMAIN l.groups |->
                IF length = l.base + 8 * Total(l.units) THEN 8 ELSE 0]
        [] l.sizing = "flagged" ->
             <<(length - (IF frame.counts[2] = 1 THEN 12 ELSE 8)) \div 4,
               frame.counts[2]>>
        [] l.sizing \in {"kept", "fixed"} -> Sizes(old)

\* What is in group g before the elements read: the eight words are appended to
\* eight that resize() made.
Padding(l, g, n) ==
  IF l.sizing = "words" THEN [e \in 1 .. n |-> BlankElement(l, g)] ELSE <<>>

\* A group nobody sizes stays as it was.
Untouched(l, g, n) == l.sizing = "flagged" /\ g = 2 /\ n = 0

ElementsAt(l, payload, g, at, n) ==
  LET widths == l.groups[g]
  IN  [e \in 1 .. n |-> [f \in DOMAIN widths |->
         Slice(payload, at + (e - 1) * Total(widths) + Total(SubSeq(widths, 1, f - 1)),
               widths[f])]]

\* Where group g starts in the payload.
GroupStart(l, taken, g) ==
  HeadLength(l) + Total([h \in 1 .. g - 1 |-> taken[h] * Total(l.groups[h])])

\* Defective variant, for mutation: the object is only ever enlarged.
DecodedEnlarging(l, frame, old) ==
  LET taken == Taken(l, frame, old)
  IN  [head |-> [f \in DOMAIN l.head |->
                   Slice(frame.payload, Before(l, f), l.head[f])],
       groups |-> [g \in DOMAIN l.groups |->
          ElementsAt(l, frame.payload, g, GroupStart(l, taken, g), taken[g])
            \o SubSeq(old.groups[g], taken[g] + 1, Len(old.groups[g]))]]

\* UbloxSerializer::read() into the object that held old.
Decoded(l, frame, old) ==
  LET taken == Taken(l, frame, old)
  IN  [head |-> [f \in DOMAIN l.head |->
                   IF f \in l.unread THEN old.head[f]
                   ELSE Slice(frame.payload, Before(l, f), l.head[f])],
       groups |-> [g \in DOMAIN l.groups |->
                     IF Untouched(l, g, taken[g]) THEN old.groups[g]
                     ELSE Padding(l, g, taken[g]) \o
                          ElementsAt(l, frame.payload, g,
                                     GroupStart(l, taken, g), taken[g])]]

\* The last byte of the payload that read() looks at.
ReadReach(l, frame, old) ==
  GroupStart(l, Taken(l, frame, old), Len(l.groups) + 1)

-----------------------------------------------------------------------------
(* The two sides.                                                          *)

None == [payload |-> <<>>, counts |-> <<>>]

Init ==
  /\ type \in Received \cup Composed
  /\ object = Blank(Layouts[type])
  /\ sent = Blank(Layouts[type]) /\ declared = Sizes(sent)
  /\ wire = None /\ result = "none" /\ reach = 0
  /\ messages = 0

\* A newer receiver may append fields; behind elements without end it can only be
\* part of one (CFG-VALGET answers with values of one and two bytes).
MayAppend(l, more) ==
  \/ l.sizing \in {"fixed", "counted"}
  \/ l.sizing = "rest" /\ more < l.units[1]

\* The receiver sends a message.
Arrive ==
  /\ type \in Received /\ result # "arrived" /\ messages < MaxMessages
  /\ \E counts \in CountsOf(Layouts[type]), more \in Trailing :
       /\ more = 0 \/ MayAppend(Layouts[type], more)
       /\ sent' = Message(Layouts[type], messages + 1, counts)
       /\ wire' = [payload |-> Laid(sent', {}) \o Zeros(more), counts |-> counts]
       /\ declared' = counts
  /\ result' = "arrived" /\ messages' = messages + 1
  /\ UNCHANGED <<type, object, reach>>

\* CallbackHandler_::handle(): the frame is intact, and read into message_.
Read ==
  /\ result = "arrived"
  /\ object' = Decoded(Layouts[type], wire, object)
  /\ reach' = ReadReach(Layouts[type], wire, object)
  /\ result' = "read"
  /\ UNCHANGED <<type, wire, sent, declared, messages>>

\* configure(): the message is encoded into a buffer of its own, or refused.
Write ==
  /\ type \in Composed /\ result # "arrived" /\ messages < MaxMessages
  /\ \E counts \in CountsOf(Layouts[type]) :
     \E count \in DeclaredCounts(Layouts[type], counts) :
       LET l == Layouts[type]
           m == Message(l, messages + 1, counts)
           length == SerializedLength(l, count)
           last == HeaderLength + Len(Laid(m, l.unwritten))
           end == length + WrapperLength
       IN  /\ sent' = m /\ declared' = count
           /\ IF Fits(length)
                THEN /\ wire' = [payload |-> Encoded(l, m, count), counts |-> counts]
                     /\ reach' = IF last > end THEN last ELSE end
                     /\ result' = "written"
                ELSE /\ result' = "refused" /\ UNCHANGED <<wire, reach>>
  /\ messages' = messages + 1
  /\ UNCHANGED <<type, object>>

Next == Arrive \/ Read \/ Write

Spec == Init /\ [][Next]_vars

-----------------------------------------------------------------------------
(* Properties.                                                             *)

\* What a handler's callback is given is the message the receiver sent, field
\* by field and element by element, whatever the object held before and
\* whatever a newer receiver appends (read of every UbloxSerializer).
DecodedAsSent == result = "read" => object = sent

\* read() never looks past the payload: UbloxStream::advance() would not stop it.
ReadsInsidePayload == result = "read" => reach <= Len(wire.payload)

\* What goes to the receiver is every field write() takes, in order, none cut off
\* by the checksum; and if the sender's count of the elements is right, nothing
\* else (serializedLength against write, of every message the driver composes).
EncodedAsDocumented ==
  result = "written" =>
    LET fields == Laid(sent, Layouts[type].unwritten)
    IN  /\ IsPrefix(fields, wire.payload)
        /\ declared = Sizes(sent) => wire.payload = fields

\* Encoding stays inside the buffer, header and checksum included.
WritesInsideBuffer == result = "written" => reach <= WriterSize


-----------------------------------------------------------------------------
(* When a layout is faithful: conditions on its lengths alone, that do not *)
(* depend on how many messages there are, or of how many elements.         *)

\* At most one repeated group.
Plain(l) ==
  /\ l.head \in Seq(Nat) /\ l.groups \in Seq(Seq(Nat)) /\ Len(l.groups) <= 1

\* read() passes nothing over and finds out how many elements there are.
ReadAsSent(l) ==
  /\ Plain(l) /\ l.unread = {}
  /\ \/ l.sizing = "fixed" /\ l.groups = <<>>
     \/ l.sizing = "counted"
     \/ /\ l.sizing = "rest" /\ Len(l.groups) = 1
        /\ l.base = Total(l.head)
        /\ l.units = <<Total(l.groups[1])>> /\ l.units[1] > 0
        /\ l.modulus \in Nat /\ \A n \in Counts : n < l.modulus

Written(l) ==
  [f \in DOMAIN l.head |-> IF f \in l.unwritten THEN 0 ELSE l.head[f]]

\* serializedLength() adds up what write() takes.
DeclaredAsWritten(l) ==
  /\ Plain(l) /\ l.sizing \in {"fixed", "counted", "rest", "kept"}
  /\ l.base = Total(Written(l))
  /\ l.units = [g \in DOMAIN l.groups |-> Total(l.groups[g])]

=============================================================================
