------------------------ MODULE ReceiverLink_proofs ------------------------
(***************************************************************************)
(* Proofs about ReceiverLink, for any kinds of messages, any capacity of   *)
(* the output buffer, and any number of calls, losses and stray messages.  *)
(***************************************************************************)
EXTENDS ReceiverLink, SequenceTheorems, TLAPS

-----------------------------------------------------------------------------
(* The order of what is in transit.  A call's tag travels from out through  *)
(* toDevice, fromDevice and the frames being dispatched to the slot; a     *)
(* stray message has tag 0 and is no part of the order.                    *)

Rising(q) ==
  \A i, j \in DOMAIN q :
    i < j /\ q[i].tag > 0 /\ q[j].tag > 0 => q[i].tag < q[j].tag

Before(p, q) ==
  \A i \in DOMAIN p, j \in DOMAIN q :
    p[i].tag > 0 /\ q[j].tag > 0 => p[i].tag < q[j].tag

Beyond(n, q) == \A i \in DOMAIN q : q[i].tag > 0 => q[i].tag > n

InOrder ==
  /\ Rising(io.frames) /\ Rising(fromDevice) /\ Rising(toDevice) /\ Rising(out)
  /\ Before(io.frames, fromDevice) /\ Before(io.frames, toDevice)
  /\ Before(io.frames, out)
  /\ Before(fromDevice, toDevice) /\ Before(fromDevice, out)
  /\ Before(toDevice, out)

\* What is still in transit was sent after what the slot holds.
SlotIsOldest ==
  /\ Beyond(slot.tag, io.frames) /\ Beyond(slot.tag, fromDevice)
  /\ Beyond(slot.tag, toDevice) /\ Beyond(slot.tag, out)

-----------------------------------------------------------------------------
(* What may be in transit.                                                 *)

\* Where a call waits for an acknowledgement, and where for a message.
AckPcs == {"loading", "checking", "locking", "waiting", "woken"}
PollPcs == {"registering", "registered", "reading", "answered", "unanswered"}
Between == {"ready", "joining", "closed"}

\* Until a call gives up, only the call that waits has anything under way that
\* is acknowledged.
Sendable ==
  {m \in Messages :
     /\ m.tag \in 1 .. exec.tag
     /\ m.op # "poll" => m.kind \in Kinds
     /\ m.tag = exec.tag => m.kind = exec.kind /\ m.op = exec.op /\ exec.pc # "sending"
     /\ m.op = "configure" /\ givenUp = {} => m.tag = exec.tag /\ exec.pc \in AckPcs}

Receivable ==
  {f \in Frames :
     /\ f.tag \in 0 .. exec.tag
     /\ f.type = "stray" <=> f.tag = 0
     /\ f.type \in {"ACK", "NACK"} => f.kind \in Kinds
     /\ f.tag = exec.tag /\ f.tag > 0 =>
          f.kind = exec.kind /\ (f.type = "answer" <=> exec.op = "poll")
                             /\ exec.pc # "sending"
     /\ f.type \in {"ACK", "NACK"} /\ givenUp = {} =>
          f.tag = exec.tag /\ exec.pc \in AckPcs}

Transit ==
  /\ toDevice \in Seq(Sendable) /\ out \in Seq(Sendable)
  /\ fromDevice \in Seq(Receivable) /\ io.frames \in Seq(Receivable)

-----------------------------------------------------------------------------
(* The call and the slot.                                                  *)

CallShape ==
  /\ exec.pc \in AckPcs => exec.op = "configure"
  /\ exec.pc \in PollPcs => exec.op = "poll"
  /\ exec.pc \notin Between => exec.tag > 0
  /\ exec.tag > 0 =>
       IF exec.op = "poll" THEN exec.kind = "poll" ELSE exec.kind \in Kinds
  /\ exec.op = "configure" => exec.tag > 0
  /\ exec.pc = "sending" => exec.told = "WAIT"

SlotShape ==
  /\ slot.tag = 0 => slot = Waiting
  /\ slot.tag > 0 => slot.kind \in Kinds /\ slot.type \in {"ACK", "NACK"}
  /\ slot.tag <= exec.tag
  /\ exec.pc = "sending" => slot.tag < exec.tag

\* What the call loaded is as old as the slot, and what it was told, unless that
\* was overlooked.
SeenShape ==
  exec.pc = "checking" =>
    /\ exec.seen.tag = 0 => exec.seen = Waiting
    /\ exec.seen.tag > 0 => exec.seen.kind \in Kinds /\ exec.seen.type \in {"ACK", "NACK"}
    /\ exec.seen.tag <= slot.tag
    /\ exec.told # "WAIT" /\ ~exec.overlooked =>
         exec.seen.tag = exec.tag /\ exec.seen.type = exec.told /\ exec.seen.kind = exec.kind
    /\ givenUp = {} => exec.seen.tag \in {0, exec.tag}

\* What the call was told is in the slot until the call has looked.
ToldIsKept ==
  (exec.pc \in AckPcs /\ exec.told # "WAIT") =>
    slot.tag = exec.tag /\ slot.type = exec.told /\ slot.kind = exec.kind

SlotIsOwn ==
  (exec.op = "configure" /\ exec.pc \in AckPcs \cup {"sending"} /\ givenUp = {}) =>
    slot.tag \in {0, exec.tag}

Outcomes ==
  (exec.pc \in Between /\ exec.op = "configure") =>
    /\ exec.told # "WAIT" /\ ~exec.overlooked => exec.result = (exec.told = "ACK")
    /\ exec.result /\ givenUp = {} => exec.by = exec.tag

\* No thread is left to a connection that is closed.
ClosedIsEnded == exec.pc = "closed" => io.pc = "ended"

QueueInv ==
  /\ InOrder
  /\ SlotIsOldest
  /\ Transit

CallInv ==
  /\ CallShape
  /\ SlotShape
  /\ SeenShape
  /\ ToldIsKept
  /\ SlotIsOwn
  /\ Outcomes
  /\ ClosedIsEnded

IInv == TypeOK /\ QueueInv /\ CallInv

-----------------------------------------------------------------------------
(* The types of the records, one by one, and what a change of a call       *)
(* leaves alone.                                                           *)

Pcs == Blocked \cup {"ready", "sending", "joining", "closed"}

CallRecords ==
  [pc : Pcs, op : Operations, kind : Kinds \cup {"poll", "none"}, tag : Tags,
   seen : Acks, expired : BOOLEAN, result : BOOLEAN,
   told : AckTypes, overlooked : BOOLEAN, by : Tags]

IoRecords == [pc : {"idle", "dispatching", "ended"}, frames : Seq(Frames)]

WorkRecords ==
  [read : {"posted", "armed", "done", "none"}, write : BOOLEAN, close : BOOLEAN]

SameIdentity(d, e) == d.tag = e.tag /\ d.kind = e.kind /\ d.op = e.op

MovedTo(e, p) == [e EXCEPT !.pc = p]

LEMMA Moved ==
  ASSUME NEW e \in CallRecords, NEW p \in Pcs
  PROVE  LET d == MovedTo(e, p)
         IN  /\ d \in CallRecords /\ SameIdentity(d, e) /\ d.pc = p
             /\ d.told = e.told /\ d.by = e.by /\ d.result = e.result
             /\ d.seen = e.seen /\ d.overlooked = e.overlooked
BY DEF CallRecords, SameIdentity, MovedTo

LEMMA ReturnedWith ==
  ASSUME NEW e \in CallRecords, NEW r \in BOOLEAN
  PROVE  LET d == Return(e, r)
         IN  /\ d \in CallRecords /\ SameIdentity(d, e) /\ d.pc = "ready"
             /\ d.told = e.told /\ d.overlooked = e.overlooked
             /\ d.by = e.by /\ d.result = r
<1>1. "ready" \in Pcs
  BY DEF Pcs
<1> QED BY <1>1 DEF CallRecords, SameIdentity, Return

-----------------------------------------------------------------------------
(* Lemmas about queues: what receiving, sending, writing and splitting one *)
(* do to the order.                                                        *)

LEMMA Retyped ==
  ASSUME NEW S, NEW T, NEW q \in Seq(S), \A i \in DOMAIN q : q[i] \in T
  PROVE  q \in Seq(T)
<1>1. Len(q) \in Nat /\ DOMAIN q = 1 .. Len(q) /\ q \in [1 .. Len(q) -> S]
  BY LenProperties
<1>2. q \in [1 .. Len(q) -> T]
  BY <1>1
<1> QED BY <1>1, <1>2, SeqDef

LEMMA EmptyQueue ==
  ASSUME NEW S, NEW q, NEW n
  PROVE  /\ << >> \in Seq(S)
         /\ Rising(<< >>) /\ Before(<< >>, q) /\ Before(q, << >>) /\ Beyond(n, << >>)
<1>1. DOMAIN << >> = {}
  OBVIOUS
<1> QED BY <1>1, EmptySeq DEF Rising, Before, Beyond

LEMMA TailOfQueue ==
  ASSUME NEW S, NEW q \in Seq(S), q # << >>
  PROVE  /\ Head(q) \in S /\ Tail(q) \in Seq(S)
         /\ Rising(q) => Rising(Tail(q))
         /\ \A p : Before(p, q) => Before(p, Tail(q))
         /\ \A p : Before(q, p) => Before(Tail(q), p)
         /\ \A n : Beyond(n, q) => Beyond(n, Tail(q))
<1>1. /\ Len(q) \in Nat /\ DOMAIN q = 1 .. Len(q)
      /\ Head(q) \in S /\ Tail(q) \in Seq(S)
      /\ DOMAIN Tail(q) = 1 .. Len(q) - 1
      /\ \A i \in 1 .. Len(q) - 1 : i + 1 \in 1 .. Len(q) /\ Tail(q)[i] = q[i + 1]
  BY LenProperties, HeadTailProperties
<1>2. Rising(q) => Rising(Tail(q))
  BY <1>1 DEF Rising
<1>3. \A p : Before(p, q) => Before(p, Tail(q))
  BY <1>1 DEF Before
<1>4. \A p : Before(q, p) => Before(Tail(q), p)
  BY <1>1 DEF Before
<1>5. \A n : Beyond(n, q) => Beyond(n, Tail(q))
  BY <1>1 DEF Beyond
<1> QED BY <1>1, <1>2, <1>3, <1>4, <1>5

\* The first of a queue is the oldest.
LEMMA HeadOfQueue ==
  ASSUME NEW S, NEW q \in Seq(S), q # << >>, Head(q).tag > 0
  PROVE  /\ Rising(q) => Beyond(Head(q).tag, Tail(q))
         /\ \A p : Before(q, p) => Beyond(Head(q).tag, p)
         /\ \A n : Beyond(n, q) => Head(q).tag > n
<1>1. /\ Len(q) \in Nat /\ DOMAIN q = 1 .. Len(q) /\ 1 \in 1 .. Len(q)
      /\ Head(q) = q[1]
      /\ DOMAIN Tail(q) = 1 .. Len(q) - 1
      /\ \A i \in 1 .. Len(q) - 1 : i + 1 \in 1 .. Len(q) /\ i + 1 > 1 /\ Tail(q)[i] = q[i + 1]
  BY LenProperties, HeadTailProperties
<1>2. Rising(q) => Beyond(Head(q).tag, Tail(q))
  BY <1>1 DEF Rising, Beyond
<1>3. \A p : Before(q, p) => Beyond(Head(q).tag, p)
  BY <1>1 DEF Before, Beyond
<1>4. \A n : Beyond(n, q) => Head(q).tag > n
  BY <1>1 DEF Beyond
<1> QED BY <1>2, <1>3, <1>4

LEMMA AppendToQueue ==
  ASSUME NEW S, NEW q \in Seq(S), NEW e \in S
  PROVE  /\ Append(q, e) \in Seq(S)
         /\ (Rising(q) /\ \A i \in DOMAIN q : q[i].tag > 0 /\ e.tag > 0 => q[i].tag < e.tag)
              => Rising(Append(q, e))
         /\ \A p : (Before(p, q) /\ \A i \in DOMAIN p : p[i].tag > 0 /\ e.tag > 0 => p[i].tag < e.tag)
              => Before(p, Append(q, e))
         /\ \A p : (Before(q, p) /\ (e.tag > 0 => Beyond(e.tag, p))) => Before(Append(q, e), p)
         /\ \A n : (Beyond(n, q) /\ (e.tag > 0 => e.tag > n)) => Beyond(n, Append(q, e))
<1> DEFINE r == Append(q, e)
<1>1. /\ Len(q) \in Nat /\ DOMAIN q = 1 .. Len(q)
      /\ r \in Seq(S)
      /\ DOMAIN r = 1 .. Len(q) + 1
      /\ \A i \in DOMAIN r : \/ i \in DOMAIN q /\ r[i] = q[i]
                             \/ i = Len(q) + 1 /\ r[i] = e
  BY LenProperties, AppendProperties
<1> HIDE DEF r
<1>2. (Rising(q) /\ \A i \in DOMAIN q : q[i].tag > 0 /\ e.tag > 0 => q[i].tag < e.tag)
        => Rising(r)
  BY <1>1 DEF Rising
<1>3. \A p : (Before(p, q) /\ \A i \in DOMAIN p : p[i].tag > 0 /\ e.tag > 0 => p[i].tag < e.tag)
        => Before(p, r)
  BY <1>1 DEF Before
<1>4. \A p : (Before(q, p) /\ (e.tag > 0 => Beyond(e.tag, p))) => Before(r, p)
  BY <1>1 DEF Before, Beyond
<1>5. \A n : (Beyond(n, q) /\ (e.tag > 0 => e.tag > n)) => Beyond(n, r)
  BY <1>1 DEF Beyond
<1> QED BY <1>1, <1>2, <1>3, <1>4, <1>5 DEF r

LEMMA JoinedQueues ==
  ASSUME NEW S, NEW q \in Seq(S), NEW r \in Seq(S)
  PROVE  /\ q \o r \in Seq(S)
         /\ Rising(q) /\ Rising(r) /\ Before(q, r) => Rising(q \o r)
         /\ \A p : Before(p, q) /\ Before(p, r) => Before(p, q \o r)
         /\ \A p : Before(q, p) /\ Before(r, p) => Before(q \o r, p)
         /\ \A n : Beyond(n, q) /\ Beyond(n, r) => Beyond(n, q \o r)
<1> DEFINE s == q \o r
<1>1. /\ Len(q) \in Nat /\ DOMAIN q = 1 .. Len(q)
      /\ Len(r) \in Nat /\ DOMAIN r = 1 .. Len(r)
      /\ s \in Seq(S)
      /\ DOMAIN s = 1 .. Len(q) + Len(r)
      /\ \A i \in DOMAIN s :
           \/ i \in DOMAIN q /\ s[i] = q[i]
           \/ i > Len(q) /\ i - Len(q) \in DOMAIN r /\ s[i] = r[i - Len(q)]
  BY LenProperties, ConcatProperties
<1> HIDE DEF s
<1>2. ASSUME Rising(q), Rising(r), Before(q, r) PROVE Rising(s)
  <2> SUFFICES ASSUME NEW i \in DOMAIN s, NEW j \in DOMAIN s,
                      i < j, s[i].tag > 0, s[j].tag > 0
               PROVE  s[i].tag < s[j].tag
    BY DEF Rising
  <2>1. CASE i \in DOMAIN q /\ s[i] = q[i] /\ j \in DOMAIN q /\ s[j] = q[j]
    BY <1>2, <2>1 DEF Rising
  <2>2. CASE i \in DOMAIN q /\ s[i] = q[i] /\ j - Len(q) \in DOMAIN r /\ s[j] = r[j - Len(q)]
    BY <1>2, <2>2 DEF Before
  <2>3. CASE /\ i - Len(q) \in DOMAIN r /\ s[i] = r[i - Len(q)]
             /\ j - Len(q) \in DOMAIN r /\ s[j] = r[j - Len(q)]
    <3>1. i - Len(q) < j - Len(q)
      BY <1>1
    <3> QED BY <1>2, <2>3, <3>1 DEF Rising
  <2> QED BY <1>1, <2>1, <2>2, <2>3
<1>3. \A p : Before(p, q) /\ Before(p, r) => Before(p, s)
  BY <1>1 DEF Before
<1>4. \A p : Before(q, p) /\ Before(r, p) => Before(s, p)
  BY <1>1 DEF Before
<1>5. \A n : Beyond(n, q) /\ Beyond(n, r) => Beyond(n, s)
  BY <1>1 DEF Beyond
<1> QED BY <1>1, <1>2, <1>3, <1>4, <1>5 DEF s

LEMMA SplitQueue ==
  ASSUME NEW S, NEW q \in Seq(S), NEW n \in 0 .. Len(q)
  PROVE  LET a == SubSeq(q, 1, n)
             b == SubSeq(q, n + 1, Len(q))
         IN  /\ a \in Seq(S) /\ b \in Seq(S)
             /\ Rising(q) => Rising(a) /\ Rising(b) /\ Before(a, b)
             /\ \A p : Before(p, q) => Before(p, a) /\ Before(p, b)
             /\ \A p : Before(q, p) => Before(a, p) /\ Before(b, p)
             /\ \A k : Beyond(k, q) => Beyond(k, a) /\ Beyond(k, b)
<1> DEFINE a == SubSeq(q, 1, n)
           b == SubSeq(q, n + 1, Len(q))
<1>1. Len(q) \in Nat /\ n \in Nat /\ DOMAIN q = 1 .. Len(q) /\ \A i \in 1 .. Len(q) : q[i] \in S
  BY LenProperties
<1>2. /\ a \in Seq(S) /\ DOMAIN a = 1 .. n
      /\ \A i \in 1 .. n : i \in DOMAIN q /\ a[i] = q[i]
  <2>1. a \in Seq(S) /\ Len(a) = n
    BY <1>1, SubSeqProperties
  <2>2. \A i \in 1 .. n : a[i] = q[i]
    BY <1>1, SubSeqProperties
  <2> QED BY <1>1, <2>1, <2>2, LenProperties
<1>3. /\ b \in Seq(S) /\ DOMAIN b = 1 .. Len(q) - n
      /\ \A i \in 1 .. Len(q) - n : n + i \in DOMAIN q /\ b[i] = q[n + i]
  <2>0. /\ n \in Int /\ n + 1 \in Int /\ Len(q) \in Int /\ n <= Len(q)
        /\ \A i \in n + 1 .. Len(q) : q[i] \in S
    BY <1>1
  <2>1. /\ b \in Seq(S)
        /\ Len(b) = IF n + 1 <= Len(q) THEN Len(q) - (n + 1) + 1 ELSE 0
        /\ \A i \in 1 .. Len(q) - (n + 1) + 1 : b[i] = q[n + 1 + i - 1]
    BY <2>0, SubSeqProperties
  <2>2. Len(b) = Len(q) - n
    <3>1. (IF n + 1 <= Len(q) THEN Len(q) - (n + 1) + 1 ELSE 0) = Len(q) - n
      BY <2>0
    <3> HIDE DEF b
    <3> QED BY <2>1, <3>1
  <2>3. \A i \in 1 .. Len(q) - n : n + 1 + i - 1 = n + i /\ n + i \in 1 .. Len(q)
    BY <1>1
  <2>4. Len(q) - (n + 1) + 1 = Len(q) - n
    BY <1>1
  <2>5. \A i \in 1 .. Len(q) - n : b[i] = q[n + i]
    BY <2>1, <2>3, <2>4
  <2> QED BY <1>1, <2>1, <2>2, <2>3, <2>5, LenProperties
<1> HIDE DEF a, b
<1>4. Rising(q) => Rising(a) /\ Rising(b) /\ Before(a, b)
  <2> SUFFICES ASSUME Rising(q) PROVE Rising(a) /\ Rising(b) /\ Before(a, b)
    OBVIOUS
  <2>1. Rising(a)
    BY <1>1, <1>2 DEF Rising
  <2>2. Rising(b)
    <3>1. \A i, j \in DOMAIN b : i < j => n + i < n + j
      BY <1>1, <1>3
    <3> QED BY <1>3, <3>1 DEF Rising
  <2>3. Before(a, b)
    <3>1. \A i \in DOMAIN a, j \in DOMAIN b : i < n + j
      BY <1>1, <1>2, <1>3
    <3> QED BY <1>2, <1>3, <3>1 DEF Rising, Before
  <2> QED BY <2>1, <2>2, <2>3
<1>5. \A p : Before(p, q) => Before(p, a) /\ Before(p, b)
  BY <1>2, <1>3 DEF Before
<1>6. \A p : Before(q, p) => Before(a, p) /\ Before(b, p)
  BY <1>2, <1>3 DEF Before
<1>7. \A k : Beyond(k, q) => Beyond(k, a) /\ Beyond(k, b)
  BY <1>2, <1>3 DEF Beyond
<1> QED BY <1>2, <1>3, <1>4, <1>5, <1>6, <1>7 DEF a, b

-----------------------------------------------------------------------------
(* What is in transit, as calls come and go.                               *)

SameQueues == UNCHANGED <<slot, toDevice, fromDevice, out>> /\ io'.frames = io.frames

SameCall ==
  /\ SameIdentity(exec', exec)
  /\ exec'.pc = "sending" => exec.pc = "sending"

\* A step that keeps the call and what it waits for keeps what may be in transit.
LEMMA StillInTransit ==
  ASSUME SameCall,
         givenUp' = {} => givenUp = {} /\ (exec.pc \in AckPcs => exec'.pc \in AckPcs)
  PROVE  Sendable \subseteq Sendable' /\ Receivable \subseteq Receivable'
<1>1. ASSUME NEW m \in Sendable PROVE m \in Sendable'
  BY DEF Sendable, SameCall, SameIdentity
<1>2. ASSUME NEW f \in Receivable PROVE f \in Receivable'
  BY DEF Receivable, SameCall, SameIdentity
<1> QED BY <1>1, <1>2

\* Such a step, if it leaves the queues alone too, keeps all of QueueInv.
LEMMA QueuesUndisturbed ==
  ASSUME QueueInv, SameQueues, SameCall,
         givenUp' = {} => givenUp = {} /\ (exec.pc \in AckPcs => exec'.pc \in AckPcs)
  PROVE  QueueInv'
<1>1. Sendable \subseteq Sendable' /\ Receivable \subseteq Receivable'
  BY StillInTransit
<1>2. Transit'
  BY <1>1, SeqMonotonic DEF QueueInv, Transit, SameQueues
<1>3. InOrder' /\ SlotIsOldest'
  BY DEF QueueInv, SameQueues, InOrder, SlotIsOldest, Rising, Before, Beyond
<1> QED BY <1>2, <1>3 DEF QueueInv

\* The types of the queues' elements, which the order is about.
LEMMA TransitTypes ==
  ASSUME TypeOK
  PROVE  /\ exec.tag \in Nat /\ slot.tag \in Nat
         /\ \A m \in Sendable : m \in Messages /\ m.tag \in Nat /\ m.tag > 0 /\ m.tag <= exec.tag
         /\ \A f \in Receivable : f \in Frames /\ f.tag \in Nat /\ f.tag <= exec.tag
BY LinkAssumption DEF TypeOK, Acks, Tags, Sendable, Receivable, LinkAssumption

-----------------------------------------------------------------------------
(* The initial state, and the executor's steps.                            *)

LEMMA InitEstablishes == Init => IInv
<1> SUFFICES ASSUME Init PROVE IInv
  OBVIOUS
<1>1. TypeOK
  <2>1. 0 \in Tags /\ 0 <= Capacity /\ 0 \in 0 .. MaxLosses /\ 0 \in 0 .. MaxStray
    BY LinkAssumption DEF Tags, LinkAssumption
  <2>2. /\ exec = NoCall /\ slot = Waiting
        /\ out \in Seq(Messages) /\ Len(out) = 0
        /\ io = [pc |-> "idle", frames |-> <<>>] /\ <<>> \in Seq(Frames)
        /\ toDevice \in Seq(Messages) /\ fromDevice \in Seq(Frames)
    BY EmptySeq DEF Init, Idle
  <2>3. exec \in CallRecords /\ slot \in Acks
    BY <2>1, <2>2 DEF NoCall, Waiting, Operations, AckTypes, Acks, CallRecords, Pcs
  <2>4. /\ io \in [pc : {"idle", "dispatching", "ended"}, frames : Seq(Frames)]
        /\ work \in [read : {"posted", "armed", "done", "none"}, write : BOOLEAN, close : BOOLEAN]
    BY <2>2 DEF Init, NewWork
  <2>5. /\ stopping \in BOOLEAN /\ givenUp \subseteq Tags
        /\ losses \in 0 .. MaxLosses /\ strays \in 0 .. MaxStray
        /\ Len(out) <= Capacity
    BY <2>1, <2>2 DEF Init
  <2> QED BY <2>2, <2>3, <2>4, <2>5 DEF TypeOK, CallRecords, Pcs
<1>2. QueueInv
  BY EmptyQueue, EmptySeq DEF Init, Idle, QueueInv, InOrder, SlotIsOldest, Transit
<1>3. CallInv
  BY DEF Init, NoCall, Waiting, Idle, CallInv, CallShape, SlotShape, SeenShape, ToldIsKept, SlotIsOwn,
     Outcomes, ClosedIsEnded, AckPcs, PollPcs, Between
<1> QED BY <1>1, <1>2, <1>3 DEF IInv

LEMMA CallKeeps ==
  ASSUME IInv, NEW op \in Operations, NEW kind \in Kinds \cup {"poll"}, Call(op, kind)
  PROVE  IInv'
<1>1. /\ exec.pc = "ready" /\ exec.tag < MaxCalls
      /\ (op = "poll") <=> (kind = "poll")
      /\ exec' = [NoCall EXCEPT !.pc = "sending", !.op = op, !.kind = kind,
                                !.tag = exec.tag + 1]
      /\ slot' = IF op = "poll" THEN slot ELSE Waiting
      /\ UNCHANGED <<worker, device, givenUp>>
  BY DEF Call, ResetAck
<1>2. exec.tag \in Nat /\ exec.tag + 1 \in Tags /\ TypeOK
  <2>1. TypeOK
    BY DEF IInv
  <2>2. exec.tag \in Tags
    BY <2>1 DEF TypeOK
  <2>3. MaxCalls \in Nat
    BY LinkAssumption
  <2> QED BY <1>1, <2>1, <2>2, <2>3 DEF Tags
<1>3. /\ exec'.pc = "sending" /\ exec'.op = op /\ exec'.kind = kind
      /\ exec'.tag = exec.tag + 1 /\ exec'.told = "WAIT" /\ exec'.result = FALSE
  BY <1>1 DEF NoCall
<1>4. TypeOK'
  <2>1. 0 \in Tags
    BY LinkAssumption DEF Tags, LinkAssumption
  <2>2. exec' \in CallRecords
    BY <1>1, <1>2, <2>1 DEF NoCall, Waiting, AckTypes, Acks, CallRecords, Pcs
  <2>3. slot' \in Acks
    BY <1>1, <1>2, <2>1 DEF TypeOK, Waiting, AckTypes, Acks
  <2> QED BY <1>1, <1>2, <2>2, <2>3 DEF TypeOK, CallRecords, Pcs, worker, device
<1>5. Transit'
  <2>1. \A m \in Sendable : m \in Sendable'
    BY <1>1, <1>2, <1>3, TransitTypes DEF IInv, Sendable, AckPcs
  <2>2. \A f \in Receivable : f \in Receivable'
    BY <1>1, <1>2, <1>3, TransitTypes DEF IInv, Receivable, AckPcs
  <2> QED BY <1>1, <2>1, <2>2, SeqMonotonic DEF IInv, QueueInv, Transit, worker, device
<1>6. InOrder' /\ SlotIsOldest'
  <2>1. InOrder'
    BY <1>1 DEF IInv, QueueInv, InOrder, Rising, Before, worker, device
  <2>2. CASE op = "poll"
    BY <1>1, <2>1, <2>2 DEF IInv, QueueInv, SlotIsOldest, Beyond, worker, device
  <2>3. CASE op # "poll"
    <3>1. slot'.tag = 0
      BY <1>1, <2>3 DEF Waiting
    <3> QED BY <1>1, <2>1, <3>1 DEF SlotIsOldest, Beyond, worker, device
  <2> QED BY <2>2, <2>3
<1>7. CallInv'
  <2>1. SlotShape' /\ SlotIsOwn'
    BY <1>1, <1>2, <1>3 DEF IInv, CallInv, SlotShape, SlotIsOwn, Waiting, TypeOK, Tags, Acks
  <2>2. CallShape' /\ SeenShape' /\ ToldIsKept' /\ Outcomes' /\ ClosedIsEnded'
    BY <1>1, <1>2, <1>3 DEF CallShape, SeenShape, ToldIsKept, Outcomes, ClosedIsEnded, AckPcs, PollPcs, Between
  <2> QED BY <2>1, <2>2, <1>1 DEF IInv, CallInv, worker
<1> QED BY <1>4, <1>5, <1>6, <1>7 DEF IInv, QueueInv

LEMMA SendKeeps ==
  ASSUME IInv, Send
  PROVE  IInv'
<1> DEFINE m == [op |-> exec.op, kind |-> exec.kind, tag |-> exec.tag]
<1>1. /\ exec.pc = "sending"
      /\ \/ Len(out) < Capacity /\ out' = Append(out, m) /\ work' = [work EXCEPT !.write = TRUE]
         \/ UNCHANGED <<out, work>>
      /\ \/ exec.op = "configure" /\ exec' = MovedTo(exec, "loading")
         \/ exec.op = "poll" /\ exec' = MovedTo(exec, "registering")
         \/ exec.op = "command" /\ exec' = Return(exec, TRUE)
      /\ UNCHANGED <<slot, io, stopping, toDevice, fromDevice, losses, strays, givenUp>>
  BY DEF Send, Room, MovedTo, IInv, TypeOK, Operations
<1>2. /\ TypeOK /\ exec \in CallRecords /\ exec.tag \in Nat /\ exec.tag > 0 /\ exec.told = "WAIT"
      /\ m \in Messages /\ m.tag = exec.tag /\ m.op = exec.op /\ m.kind = exec.kind
      /\ exec.op # "poll" => exec.kind \in Kinds
  BY <1>1 DEF IInv, TypeOK, CallInv, CallShape, Between, CallRecords, Pcs, Messages, Tags
<1>3. /\ exec' \in CallRecords /\ SameIdentity(exec', exec)
      /\ exec'.told = exec.told /\ exec'.by = exec.by
      /\ exec'.pc \in {"loading", "registering", "ready"}
      /\ exec'.pc = "loading" <=> exec.op = "configure"
      /\ exec'.pc = "registering" <=> exec.op = "poll"
  <2>1. {"loading", "registering"} \subseteq Pcs
    BY DEF Pcs, Blocked
  <2>2. CASE exec.op = "configure"
    BY <1>1, <1>2, <2>1, <2>2, Moved
  <2>3. CASE exec.op = "poll"
    BY <1>1, <1>2, <2>1, <2>3, Moved
  <2>4. CASE exec.op = "command"
    <3>1. exec' = Return(exec, TRUE)
      BY <1>1, <2>4
    <3>2. /\ exec' \in CallRecords /\ SameIdentity(exec', exec) /\ exec'.pc = "ready"
          /\ exec'.told = exec.told /\ exec'.by = exec.by
      BY <1>2, <3>1, ReturnedWith
    <3> QED BY <2>4, <3>2
  <2> QED BY <1>1, <2>2, <2>3, <2>4
<1>4. TypeOK'
  <2>3. work' \in WorkRecords
    BY <1>1, <1>2 DEF TypeOK, WorkRecords
  <2>2. out' \in Seq(Messages) /\ Len(out') <= Capacity
    <3>1. /\ out \in Seq(Messages) /\ Len(out) <= Capacity /\ Len(out) \in Nat /\ Capacity \in Nat
          /\ Append(out, m) \in Seq(Messages) /\ Len(Append(out, m)) = Len(out) + 1
      BY <1>2, AppendProperties, LenProperties, LinkAssumption DEF TypeOK, LinkAssumption
    <3>2. CASE UNCHANGED out
      BY <3>1, <3>2
    <3>3. CASE Len(out) < Capacity /\ out' = Append(out, m)
      <4> HIDE DEF m
      <4> QED BY <3>1, <3>3
    <3> QED BY <1>1, <3>2, <3>3
  <2> QED BY <1>1, <1>2, <1>3, <2>2, <2>3 DEF TypeOK, CallRecords, Pcs, WorkRecords, device
<1>5. /\ Sendable \subseteq Sendable' /\ Receivable \subseteq Receivable'
      /\ m \in Sendable'
  <2>1. Sendable \subseteq Sendable' /\ Receivable \subseteq Receivable'
    BY <1>1, <1>3, StillInTransit DEF AckPcs, SameCall
  <2>2. m \in Sendable'
    BY <1>1, <1>2, <1>3 DEF Sendable, SameIdentity, AckPcs
  <2> QED BY <2>1, <2>2
<1>6. /\ \A x \in Sendable : x.tag < m.tag
      /\ \A x \in Receivable : x.tag > 0 => x.tag < m.tag
  BY <1>1, <1>2, TransitTypes DEF Sendable, Receivable
<1>7. /\ \A i \in DOMAIN toDevice : toDevice[i].tag < m.tag
      /\ \A i \in DOMAIN out : out[i].tag < m.tag
      /\ \A i \in DOMAIN fromDevice : fromDevice[i].tag > 0 => fromDevice[i].tag < m.tag
      /\ \A i \in DOMAIN io.frames : io.frames[i].tag > 0 => io.frames[i].tag < m.tag
  BY <1>6, LenProperties DEF IInv, QueueInv, Transit
<1>8. QueueInv'
  <2>1. CASE UNCHANGED out
    BY <1>1, <1>3, <2>1, QueuesUndisturbed DEF IInv, SameQueues, SameCall, device, AckPcs
  <2>2. CASE out' = Append(out, m)
    <3>1. Transit'
      <4>1. out \in Seq(Sendable')
        BY <1>5, SeqMonotonic DEF IInv, QueueInv, Transit
      <4> QED BY <1>1, <1>5, <2>2, <4>1, SeqMonotonic, AppendProperties
              DEF IInv, QueueInv, Transit, device
    <3>2. /\ Rising(out') /\ Before(io.frames, out') /\ Before(fromDevice, out')
          /\ Before(toDevice, out') /\ Beyond(slot.tag, out')
      <4>1. slot.tag <= exec.tag /\ ~(slot.tag = exec.tag)
        BY <1>1, <1>2 DEF IInv, CallInv, SlotShape, TypeOK, Tags
      <4>2. /\ out \in Seq(Sendable) /\ m.tag > slot.tag /\ m \in Sendable'
            /\ Sendable \subseteq Sendable'
        BY <1>2, <1>5, <4>1 DEF IInv, QueueInv, Transit, TypeOK, Acks, Tags
      <4>3. out \in Seq(Sendable')
        BY <4>2, SeqMonotonic
      <4>4. /\ Rising(out) /\ Before(io.frames, out) /\ Before(fromDevice, out)
            /\ Before(toDevice, out) /\ Beyond(slot.tag, out)
        BY DEF IInv, QueueInv, InOrder, SlotIsOldest
      <4> HIDE DEF m
      <4> QED BY <1>7, <2>2, <4>2, <4>3, <4>4, AppendToQueue
    <3> QED BY <1>1, <3>1, <3>2 DEF IInv, QueueInv, InOrder, SlotIsOldest, device
  <2> QED BY <1>1, <2>1, <2>2
<1>9. CallInv'
  <2>1. SlotShape' /\ SlotIsOwn'
    BY <1>1, <1>2, <1>3 DEF IInv, CallInv, SlotShape, SlotIsOwn, SameIdentity, AckPcs
  <2>2. CallShape' /\ SeenShape' /\ ToldIsKept' /\ Outcomes' /\ ClosedIsEnded'
    BY <1>1, <1>2, <1>3 DEF IInv, CallInv, CallShape, SeenShape, ToldIsKept, Outcomes, ClosedIsEnded,
                            SameIdentity, AckPcs, PollPcs, Between
  <2> QED BY <2>1, <2>2 DEF CallInv
<1> QED BY <1>4, <1>8, <1>9 DEF IInv

-----------------------------------------------------------------------------
(* The steps that neither send nor receive, nor end a call.                *)

\* A call goes on waiting for what it waits for, or none is made.
SamePhase(d, e) ==
  /\ SameIdentity(d, e)
  /\ d.told = e.told /\ d.by = e.by /\ d.result = e.result
  /\ d.seen = e.seen /\ d.overlooked = e.overlooked
  /\ d.pc = "checking" => e.pc = "checking"
  /\ d.pc = "sending" <=> e.pc = "sending"
  /\ d.pc \in AckPcs <=> e.pc \in AckPcs
  /\ d.pc \in PollPcs <=> e.pc \in PollPcs
  /\ d.pc \in Between <=> e.pc \in Between

LEMMA PhaseKept ==
  ASSUME IInv, SameQueues, UNCHANGED givenUp,
         exec' \in CallRecords, SamePhase(exec', exec),
         exec'.pc = "closed" => io'.pc = "ended",
         io' \in IoRecords, work' \in WorkRecords, stopping' \in BOOLEAN,
         losses' \in 0 .. MaxLosses, UNCHANGED strays
  PROVE  IInv'
<1>1. TypeOK'
  BY DEF IInv, TypeOK, SameQueues, CallRecords, IoRecords, WorkRecords, Pcs
<1>2. QueueInv'
  BY QueuesUndisturbed DEF IInv, SamePhase, SameCall
<1>3. CallInv'
  BY DEF IInv, CallInv, CallShape, SlotShape, SeenShape, ToldIsKept, SlotIsOwn, Outcomes, ClosedIsEnded,
         SamePhase, SameIdentity, SameQueues
<1> QED BY <1>1, <1>2, <1>3 DEF IInv

\* The types of what such a step leaves alone.
LEMMA Typed ==
  ASSUME IInv
  PROVE  /\ exec \in CallRecords /\ io \in IoRecords /\ work \in WorkRecords
         /\ stopping \in BOOLEAN /\ losses \in 0 .. MaxLosses /\ SamePhase(exec, exec)
         /\ exec.pc = "closed" => io.pc = "ended"
BY DEF IInv, TypeOK, CallInv, ClosedIsEnded, CallRecords, IoRecords, WorkRecords, Pcs,
       SamePhase, SameIdentity

\* A waiting call moves from where it waits to another such place.
LEMMA MoveKeepsPhase ==
  ASSUME NEW e \in CallRecords, NEW p \in Pcs, p # "checking",
         \/ e.pc \in AckPcs /\ p \in AckPcs
         \/ e.pc \in PollPcs /\ p \in PollPcs
         \/ e.pc \in Between /\ p \in Between
  PROVE  SamePhase(MovedTo(e, p), e)
BY Moved DEF SamePhase, AckPcs, PollPcs, Between

LEMMA WaitingKeeps ==
  ASSUME IInv, Wait \/ WaitEnds \/ Register \/ AwaitMessage \/ WaitTimesOut
  PROVE  IInv'
<1>1. /\ \/ exec.pc = "locking" /\ exec' = MovedTo(exec, "waiting")
         \/ exec.pc = "woken" /\ exec' = MovedTo(exec, "loading")
         \/ exec.pc = "registering" /\ exec' = MovedTo(exec, "registered")
         \/ exec.pc = "registered" /\ exec' = MovedTo(exec, "reading")
         \/ exec.pc = "waiting" /\ exec' = MovedTo(exec, "woken")
         \/ exec.pc = "reading" /\ exec' = MovedTo(exec, "unanswered")
      /\ UNCHANGED <<slot, worker, device, givenUp>>
  BY DEF Wait, WaitEnds, Register, AwaitMessage, WaitTimesOut, MovedTo
<1>2. \E p \in {"waiting", "loading", "registered", "reading", "woken", "unanswered"} :
        /\ p \in Pcs /\ p # "closed" /\ p # "checking"
        /\ (exec.pc \in AckPcs /\ p \in AckPcs) \/ (exec.pc \in PollPcs /\ p \in PollPcs)
        /\ exec' = MovedTo(exec, p)
  BY <1>1 DEF AckPcs, PollPcs, Pcs, Blocked
<1>3. exec' \in CallRecords /\ exec'.pc # "closed" /\ SamePhase(exec', exec)
  BY <1>2, Typed, Moved, MoveKeepsPhase
<1> QED BY <1>1, <1>3, Typed, PhaseKept DEF worker, device, SameQueues

LEMMA ExpireKeeps == IInv /\ Expire => IInv'
<1> SUFFICES ASSUME IInv, Expire PROVE IInv'
  OBVIOUS
<1>1. /\ exec.pc \in Blocked /\ exec' = [exec EXCEPT !.expired = TRUE]
      /\ UNCHANGED <<slot, worker, device, givenUp>>
  BY DEF Expire
<1>2. exec' \in CallRecords /\ exec'.pc # "closed" /\ SamePhase(exec', exec)
  BY <1>1, Typed DEF CallRecords, SamePhase, SameIdentity, Blocked
<1> QED BY <1>1, <1>2, Typed, PhaseKept DEF worker, device, SameQueues

LEMMA CloseKeeps == IInv /\ (Close \/ Join) => IInv'
<1> SUFFICES ASSUME IInv, Close \/ Join PROVE IInv'
  OBVIOUS
<1>1. /\ exec.pc \in Between
      /\ \/ exec' = MovedTo(exec, "joining") /\ work' = [work EXCEPT !.close = TRUE]
         \/ exec' = MovedTo(exec, "closed") /\ io.pc = "ended" /\ UNCHANGED work
      /\ UNCHANGED <<slot, out, io, stopping, device, givenUp>>
  BY DEF Close, Join, MovedTo, Between, worker
<1>2. work' \in WorkRecords
  BY <1>1, Typed DEF WorkRecords
<1>3. "joining" \in Pcs /\ "closed" \in Pcs /\ "joining" \in Between /\ "closed" \in Between
  BY DEF Pcs, Between
<1>4. exec' \in CallRecords /\ SamePhase(exec', exec) /\ (exec'.pc = "closed" => io.pc = "ended")
  <2>1. CASE exec' = MovedTo(exec, "joining")
    BY <1>1, <1>3, <2>1, Typed, Moved, MoveKeepsPhase
  <2>2. CASE exec' = MovedTo(exec, "closed") /\ io.pc = "ended"
    BY <1>1, <1>3, <2>2, Typed, Moved, MoveKeepsPhase
  <2> QED BY <1>1, <2>1, <2>2
<1> QED BY <1>1, <1>2, <1>4, Typed, PhaseKept DEF device, SameQueues

LEMMA IoTurnsKeep == IInv /\ (DoRead \/ ReadFails \/ DoClose \/ ThreadEnds) => IInv'
<1> SUFFICES ASSUME IInv, DoRead \/ ReadFails \/ DoClose \/ ThreadEnds PROVE IInv'
  OBVIOUS
<1>1. /\ UNCHANGED <<exec, slot, out, toDevice, fromDevice, strays, givenUp>>
      /\ io' = io \/ io' = [io EXCEPT !.pc = "ended"]
  BY DEF DoRead, ReadFails, DoClose, ThreadEnds, device
<1>2. work' \in WorkRecords /\ stopping' \in BOOLEAN
  BY Typed DEF DoRead, ReadFails, DoClose, ThreadEnds, StoppingSet, WorkRecords
<1>3. losses' \in 0 .. MaxLosses
  <2>1. losses' = losses \/ (losses < MaxLosses /\ losses' = losses + 1)
    BY DEF DoRead, ReadFails, DoClose, ThreadEnds, device
  <2> QED BY <2>1, Typed, LinkAssumption DEF LinkAssumption
<1>4. io' \in IoRecords /\ io'.frames = io.frames /\ (exec'.pc = "closed" => io'.pc = "ended")
  BY <1>1, Typed DEF IoRecords
<1> QED BY <1>1, <1>2, <1>3, <1>4, Typed, PhaseKept DEF SameQueues

LEMMA DispatchEndsKeeps == IInv /\ DispatchEnds => IInv'
<1> SUFFICES ASSUME IInv, DispatchEnds PROVE IInv'
  OBVIOUS
<1>1. /\ io.pc = "dispatching" /\ io.frames = << >> /\ io' = Idle
      /\ exec' = exec \/ (exec.pc = "waiting" /\ exec' = MovedTo(exec, "woken"))
      /\ UNCHANGED <<slot, out, stopping, device, givenUp>>
  BY DEF DispatchEnds, MovedTo
<1>2. work' \in WorkRecords
  BY Typed DEF DispatchEnds, WorkRecords
<1>3. io' \in IoRecords /\ io'.frames = io.frames
  BY <1>1, EmptySeq DEF Idle, IoRecords
<1>4. exec' \in CallRecords /\ SamePhase(exec', exec) /\ exec'.pc # "closed"
  <2>1. "woken" \in Pcs /\ "woken" \in AckPcs /\ "waiting" \in AckPcs
    BY DEF Pcs, Blocked, AckPcs
  <2>2. CASE exec' = exec
    BY <1>1, <2>2, Typed
  <2>3. CASE exec.pc = "waiting" /\ exec' = MovedTo(exec, "woken")
    BY <2>1, <2>3, Typed, Moved, MoveKeepsPhase
  <2> QED BY <1>1, <2>2, <2>3
<1> QED BY <1>1, <1>2, <1>3, <1>4, Typed, PhaseKept DEF device, SameQueues

-----------------------------------------------------------------------------
(* The steps that end a call or a connection.                              *)

LEMMA LoadKeeps == IInv /\ Load => IInv'
<1> SUFFICES ASSUME IInv, Load PROVE IInv'
  OBVIOUS
<1>1. /\ exec.pc = "loading" /\ exec \in CallRecords
      /\ exec' = [exec EXCEPT !.pc = "checking", !.seen = slot, !.overlooked = FALSE]
      /\ UNCHANGED <<slot, worker, device, givenUp>>
  BY Typed DEF Load
<1>2. /\ exec' \in CallRecords /\ SameIdentity(exec', exec) /\ exec'.pc = "checking"
      /\ exec'.told = exec.told /\ exec'.seen = slot
  <2>1. slot \in Acks /\ "checking" \in Pcs
    BY DEF IInv, TypeOK, Pcs, Blocked
  <2> QED BY <1>1, <2>1 DEF CallRecords, SameIdentity
<1>3. TypeOK'
  BY <1>1, <1>2 DEF IInv, TypeOK, CallRecords, Pcs, worker, device
<1>4. QueueInv'
  BY <1>1, <1>2, QueuesUndisturbed DEF IInv, SameCall, SameQueues, worker, device, AckPcs
<1>5. SeenShape'
  BY <1>1, <1>2, TransitTypes
     DEF IInv, CallInv, CallShape, SlotShape, SeenShape, ToldIsKept, SlotIsOwn, AckPcs, SameIdentity
<1>6. CallInv'
  BY <1>1, <1>2, <1>5
     DEF IInv, CallInv, CallShape, SlotShape, ToldIsKept, SlotIsOwn, Outcomes, ClosedIsEnded,
         AckPcs, PollPcs, Between, SameIdentity, worker
<1> QED BY <1>3, <1>4, <1>6 DEF IInv

LEMMA CheckKeeps == IInv /\ Check => IInv'
<1> SUFFICES ASSUME IInv, Check PROVE IInv'
  OBVIOUS
<1>1. /\ exec.pc = "checking" /\ exec.op = "configure" /\ exec.tag > 0 /\ exec.tag \in Nat
      /\ exec.kind \in Kinds /\ exec \in CallRecords
      /\ UNCHANGED <<slot, worker, device>>
  BY Typed, TransitTypes DEF Check, IInv, CallInv, CallShape, AckPcs, Between
<1> DEFINE done == [exec EXCEPT !.seen = Waiting]
<1>2. /\ exec.seen.tag \in Tags /\ exec.seen.tag \in Nat /\ exec.seen.tag <= slot.tag
      /\ slot.tag \in Nat /\ slot.tag <= exec.tag
      /\ exec.seen.kind = exec.kind => exec.seen.tag > 0 /\ exec.seen.type \in {"ACK", "NACK"}
  <2>1. exec.seen \in Acks
    BY <1>1 DEF CallRecords
  <2>2. SeenShape /\ SlotShape /\ slot.tag \in Nat
    BY TransitTypes DEF IInv, CallInv
  <2> QED BY <1>1, <2>1, <2>2, LinkAssumption
          DEF SeenShape, SlotShape, Waiting, LinkAssumption, Acks, Tags
<1>3. /\ done \in CallRecords /\ SameIdentity(done, exec) /\ done.pc = exec.pc
      /\ done.told = exec.told /\ done.overlooked = exec.overlooked
      /\ done.by = exec.by /\ done.result = exec.result
  <2>1. Waiting \in Acks
    BY LinkAssumption DEF Waiting, Acks, AckTypes, Tags, LinkAssumption
  <2> QED BY <1>1, <2>1 DEF CallRecords, SameIdentity
<1> HIDE DEF done
<1>4. CASE Outcome(exec) = "WAIT"
  <2>1. exec' = MovedTo(done, "locking") /\ UNCHANGED givenUp
    BY <1>4 DEF Check, MovedTo, done
  <2>2. "locking" \in Pcs
    BY DEF Pcs, Blocked
  <2>3. /\ exec' \in CallRecords /\ SameIdentity(exec', exec) /\ exec'.pc = "locking"
        /\ exec'.told = exec.told
    BY <1>3, <2>1, <2>2, Moved DEF SameIdentity
  <2>4. SameCall /\ SameQueues
    BY <1>1, <2>3 DEF SameCall, SameQueues, worker, device
  <2>5. TypeOK'
    BY <1>1, <2>1, <2>3 DEF IInv, TypeOK, CallRecords, Pcs, worker, device
  <2>6. QueueInv'
    BY <1>1, <2>1, <2>3, <2>4, QueuesUndisturbed DEF IInv, AckPcs
  <2>7. CallInv'
    BY <1>1, <2>1, <2>3
       DEF IInv, CallInv, CallShape, SlotShape, SeenShape, ToldIsKept, SlotIsOwn, Outcomes,
           ClosedIsEnded, AckPcs, PollPcs, Between, SameIdentity
  <2> QED BY <2>5, <2>6, <2>7 DEF IInv
<1>5. CASE Outcome(exec) # "WAIT"
  <2> DEFINE r == Outcome(exec) = "ACK"
  <2>1. exec' = [Return(done, r) EXCEPT !.by = exec.seen.tag]
    BY <1>5 DEF Check, done
  <2>2. /\ exec' \in CallRecords /\ SameIdentity(exec', exec) /\ exec'.pc = "ready"
        /\ exec'.told = exec.told /\ exec'.overlooked = exec.overlooked
        /\ exec'.by = exec.seen.tag /\ exec'.result = r
    <3>1. r \in BOOLEAN
      OBVIOUS
    <3> HIDE DEF r
    <3>2. /\ Return(done, r) \in CallRecords /\ SameIdentity(Return(done, r), done)
          /\ Return(done, r).pc = "ready" /\ Return(done, r).told = exec.told
          /\ Return(done, r).overlooked = exec.overlooked
          /\ Return(done, r).result = r
      BY <1>3, <3>1, ReturnedWith
    <3> QED BY <1>2, <1>3, <2>1, <3>2 DEF CallRecords, SameIdentity
  <2>3. SameCall /\ SameQueues
    BY <1>1, <2>2 DEF SameCall, SameQueues, worker, device
  <2>4. TypeOK'
    <3>1. givenUp' \subseteq Tags
      BY <1>1 DEF Check, IInv, TypeOK, CallRecords
    <3> QED BY <1>1, <2>2, <3>1 DEF IInv, TypeOK, CallRecords, Pcs, worker, device
  <2>5. \/ /\ exec.seen.kind = exec.kind /\ givenUp' = givenUp
           /\ Outcome(exec) = exec.seen.type
        \/ exec.seen.kind # exec.kind /\ givenUp' = givenUp \cup {exec.tag} /\ ~r
    BY <1>5 DEF Check, Outcome
  <2>6. CASE exec.seen.kind # exec.kind /\ givenUp' = givenUp \cup {exec.tag} /\ ~r
    <3>1. QueueInv'
      BY <2>3, <2>6, QueuesUndisturbed DEF IInv
    <3>2. exec.told = "WAIT" \/ exec.overlooked
      BY <1>1, <2>6 DEF IInv, CallInv, SeenShape
    <3>3. CallInv'
      BY <1>1, <2>2, <2>6, <3>2
         DEF IInv, CallInv, CallShape, SlotShape, SeenShape, ToldIsKept, SlotIsOwn, Outcomes, ClosedIsEnded,
             AckPcs, PollPcs, Between, SameIdentity
    <3> QED BY <2>4, <3>1, <3>3 DEF IInv
  <2>7. CASE exec.seen.kind = exec.kind /\ givenUp' = givenUp /\ Outcome(exec) = exec.seen.type
    <3>1. givenUp = {} => exec.seen.tag = exec.tag /\ slot.tag = exec.tag
      BY <1>1, <1>2, <2>7 DEF IInv, CallInv, SeenShape
    <3>2. QueueInv'
      <4>1. CASE givenUp # {}
        BY <2>3, <2>7, <4>1, QueuesUndisturbed DEF IInv
      <4>2. CASE givenUp = {}
        <5>1. /\ \A i \in DOMAIN toDevice : toDevice[i] \in Sendable /\ FALSE
              /\ \A i \in DOMAIN out : out[i] \in Sendable /\ FALSE
              /\ \A i \in DOMAIN fromDevice :
                   fromDevice[i] \in Receivable /\ fromDevice[i].tag = 0
              /\ \A i \in DOMAIN io.frames :
                   io.frames[i] \in Receivable /\ io.frames[i].tag = 0
          <6>1. slot.tag = exec.tag
            BY <3>1, <4>2
          <6>2. /\ \A i \in DOMAIN toDevice : toDevice[i] \in Sendable
                /\ \A i \in DOMAIN out : out[i] \in Sendable
                /\ \A i \in DOMAIN fromDevice : fromDevice[i] \in Receivable
                /\ \A i \in DOMAIN io.frames : io.frames[i] \in Receivable
            BY LenProperties DEF IInv, QueueInv, Transit
          <6>3. /\ \A m \in Sendable : m.tag > 0 /\ ~(m.tag > exec.tag)
                /\ \A f \in Receivable : f.tag > 0 => ~(f.tag > exec.tag)
                /\ \A f \in Receivable : ~(f.tag > 0) => f.tag = 0
            BY TransitTypes DEF IInv
          <6> QED BY <6>1, <6>2, <6>3 DEF IInv, QueueInv, SlotIsOldest, Beyond
        <5>2. \A f \in Receivable : f.tag = 0 => f \in Receivable'
          BY <1>1, <2>2, TransitTypes DEF IInv, Receivable, SameIdentity
        <5>3. Transit'
          BY <1>1, <5>1, <5>2, Retyped DEF IInv, QueueInv, Transit, worker, device
        <5>4. InOrder' /\ SlotIsOldest'
          BY <2>3 DEF IInv, QueueInv, SameQueues, InOrder, SlotIsOldest, Rising, Before, Beyond
        <5> QED BY <5>3, <5>4 DEF QueueInv
      <4> QED BY <4>1, <4>2
    <3>3. exec.told # "WAIT" /\ ~exec.overlooked => exec.seen.type = exec.told
      BY <1>1 DEF IInv, CallInv, SeenShape
    <3>4. Outcomes'
      BY <2>2, <2>7, <3>1, <3>3 DEF Outcomes, SameIdentity
    <3>5. CallInv'
      BY <1>1, <2>2, <2>7, <3>4
         DEF IInv, CallInv, CallShape, SlotShape, SeenShape, ToldIsKept, SlotIsOwn, ClosedIsEnded,
             AckPcs, PollPcs, Between, SameIdentity
    <3> QED BY <2>4, <3>2, <3>5 DEF IInv
  <2> QED BY <2>5, <2>6, <2>7
<1> QED BY <1>4, <1>5

LEMMA UnregisterKeeps == IInv /\ Unregister => IInv'
<1> SUFFICES ASSUME IInv, Unregister PROVE IInv'
  OBVIOUS
<1> DEFINE r == exec.pc = "answered"
<1>1. /\ exec.pc \in PollPcs /\ exec.pc \notin AckPcs /\ exec.op = "poll" /\ exec.tag \in Tags
      /\ exec' = Return(exec, r) /\ exec \in CallRecords
      /\ givenUp' = givenUp \/ givenUp' = givenUp \cup {exec.tag}
      /\ UNCHANGED <<slot, worker, device>>
  BY Typed DEF Unregister, IInv, TypeOK, CallInv, CallShape, AckPcs, PollPcs
<1>2. /\ exec' \in CallRecords /\ SameIdentity(exec', exec) /\ exec'.pc = "ready"
      /\ exec'.told = exec.told
  <2>1. r \in BOOLEAN
    OBVIOUS
  <2> HIDE DEF r
  <2> QED BY <1>1, <2>1, ReturnedWith
<1>3. TypeOK'
  BY <1>1, <1>2 DEF IInv, TypeOK, CallRecords, Pcs, worker, device
<1>4. QueueInv'
  BY <1>1, <1>2, QueuesUndisturbed DEF IInv, SameCall, SameQueues, worker, device
<1>5. CallInv'
  BY <1>1, <1>2
     DEF IInv, CallInv, CallShape, SlotShape, SeenShape, ToldIsKept, SlotIsOwn, Outcomes, ClosedIsEnded,
         AckPcs, PollPcs, Between, SameIdentity
<1> QED BY <1>3, <1>4, <1>5 DEF IInv

LEMMA OpenKeeps == IInv /\ Open => IInv'
<1> SUFFICES ASSUME IInv, Open PROVE IInv'
  OBVIOUS
<1>1. /\ exec.pc = "closed" /\ exec' = MovedTo(exec, "ready") /\ exec \in CallRecords
      /\ slot' = Waiting /\ out' = << >> /\ io' = Idle /\ work' = NewWork /\ stopping' = FALSE
      /\ fromDevice' = fromDevice \/ fromDevice' = << >>
      /\ UNCHANGED <<toDevice, losses, strays, givenUp>>
  BY Typed DEF Open, MovedTo
<1>2. "ready" \in Pcs /\ "ready" \in Between /\ "closed" \in Between
  BY DEF Pcs, Between
<1>3. exec' \in CallRecords /\ SamePhase(exec', exec) /\ exec'.pc = "ready"
  BY <1>1, <1>2, Moved, MoveKeepsPhase
<1>4. TypeOK'
  <2>1. 0 \in Tags /\ 0 <= Capacity
    BY LinkAssumption DEF Tags, LinkAssumption
  <2>2. slot' \in Acks
    BY <1>1, <2>1 DEF Waiting, AckTypes, Acks
  <2>3. /\ out' \in Seq(Messages) /\ Len(out') <= Capacity /\ fromDevice' \in Seq(Frames)
        /\ io' \in IoRecords /\ work' \in WorkRecords
    <3>1. << >> \in Seq(Messages) /\ << >> \in Seq(Frames) /\ Len(<< >>) = 0
      BY EmptySeq
    <3>2. io' = [pc |-> "idle", frames |-> << >>] /\ fromDevice \in Seq(Frames)
      BY <1>1 DEF Idle, IInv, TypeOK
    <3>3. io' \in IoRecords /\ work' \in WorkRecords
      BY <1>1, <3>1, <3>2 DEF IoRecords, NewWork, WorkRecords
    <3> QED BY <1>1, <2>1, <3>1, <3>2, <3>3
  <2> QED BY <1>1, <1>3, <2>2, <2>3 DEF IInv, TypeOK, CallRecords, Pcs, IoRecords, WorkRecords
<1>5. Transit'
  <2>1. Sendable \subseteq Sendable' /\ Receivable \subseteq Receivable'
    BY <1>1, <1>3, StillInTransit DEF SameCall, SamePhase
  <2>2. io'.frames = << >>
    BY <1>1 DEF Idle
  <2> QED BY <1>1, <2>1, <2>2, SeqMonotonic, EmptySeq DEF IInv, QueueInv, Transit
<1>6. InOrder' /\ SlotIsOldest'
  <2>1. io'.frames = << >> /\ slot'.tag = 0
    BY <1>1 DEF Idle, Waiting
  <2>2. InOrder'
    BY <1>1, <2>1, EmptyQueue DEF IInv, QueueInv, InOrder
  <2>3. SlotIsOldest'
    BY <2>1 DEF SlotIsOldest, Beyond
  <2> QED BY <2>2, <2>3
<1>7. CallInv'
  BY <1>1, <1>3, TransitTypes
     DEF IInv, CallInv, CallShape, SlotShape, SeenShape, ToldIsKept, SlotIsOwn, Outcomes, ClosedIsEnded,
         SamePhase, SameIdentity, Waiting, Between, AckPcs, PollPcs
<1> QED BY <1>4, <1>5, <1>6, <1>7 DEF IInv, QueueInv

-----------------------------------------------------------------------------
(* The steps that move messages.                                           *)

LEMMA TransitKept ==
  ASSUME IInv, UNCHANGED <<slot, givenUp>>,
         exec' \in CallRecords, SamePhase(exec', exec), exec'.pc = "closed" => io'.pc = "ended",
         toDevice' \in Seq(Sendable), out' \in Seq(Sendable), Len(out') <= Capacity,
         fromDevice' \in Seq(Receivable), io'.frames \in Seq(Receivable),
         InOrder', SlotIsOldest',
         io' \in IoRecords, work' \in WorkRecords, UNCHANGED stopping,
         losses' \in 0 .. MaxLosses, strays' \in 0 .. MaxStray
  PROVE  IInv'
<1>1. Transit'
  <2>1. Sendable \subseteq Sendable' /\ Receivable \subseteq Receivable'
    BY StillInTransit DEF SameCall, SamePhase
  <2> QED BY <2>1, SeqMonotonic DEF Transit
<1>2. TypeOK'
  <2>1. Sendable \subseteq Messages /\ Receivable \subseteq Frames
    BY DEF Sendable, Receivable
  <2>2. out' \in Seq(Messages) /\ toDevice' \in Seq(Messages) /\ fromDevice' \in Seq(Frames)
    BY <2>1, SeqMonotonic
  <2> QED BY <2>2 DEF IInv, TypeOK, CallRecords, Pcs, IoRecords, WorkRecords
<1>3. CallInv'
  BY DEF IInv, CallInv, CallShape, SlotShape, SeenShape, ToldIsKept, SlotIsOwn, Outcomes, ClosedIsEnded,
         SamePhase, SameIdentity
<1> QED BY <1>1, <1>2, <1>3 DEF IInv, QueueInv

\* What such a step may rely on.
LEMMA InTransit ==
  ASSUME IInv
  PROVE  /\ toDevice \in Seq(Sendable) /\ out \in Seq(Sendable) /\ Len(out) <= Capacity
         /\ fromDevice \in Seq(Receivable) /\ io.frames \in Seq(Receivable)
         /\ InOrder /\ SlotIsOldest
         /\ losses \in 0 .. MaxLosses /\ strays \in 0 .. MaxStray
         /\ losses < MaxLosses => losses + 1 \in 0 .. MaxLosses
         /\ strays < MaxStray => strays + 1 \in 0 .. MaxStray
         /\ << >> \in Seq(Sendable) /\ 0 <= Capacity
BY LinkAssumption, EmptySeq DEF IInv, TypeOK, QueueInv, Transit, LinkAssumption

\* Frames that may be on their way are frames.
LEMMA FramesOfReceivable ==
  ASSUME NEW p \in {"idle", "dispatching", "ended"}, NEW q \in Seq(Receivable)
  PROVE  [pc |-> p, frames |-> q] \in IoRecords
<1>1. q \in Seq(Frames)
  BY SeqMonotonic DEF Receivable
<1> QED BY <1>1 DEF IoRecords

LEMMA DoWriteKeeps == IInv /\ DoWrite => IInv'
<1> SUFFICES ASSUME IInv, DoWrite PROVE IInv'
  OBVIOUS
<1>1. /\ out' = << >>
      /\ \/ toDevice' = toDevice \o out /\ UNCHANGED losses
         \/ /\ losses < MaxLosses /\ losses' = losses + 1
            /\ \E n \in 0 .. Len(out) : toDevice' = toDevice \o SubSeq(out, 1, n)
      /\ UNCHANGED <<exec, slot, io, stopping, fromDevice, strays, givenUp>>
  <2>1. \A dropped \in 1 .. Len(out) : Len(out) - dropped \in 0 .. Len(out)
    BY InTransit, LenProperties
  <2> QED BY <2>1 DEF DoWrite, Written
<1>w. \E w \in Seq(Sendable) :
        /\ toDevice' = toDevice \o w /\ Rising(w)
        /\ \A p : Before(p, out) => Before(p, w)
        /\ \A k : Beyond(k, out) => Beyond(k, w)
  <2>1. CASE toDevice' = toDevice \o out
    BY <2>1, InTransit DEF InOrder
  <2>2. ASSUME NEW n \in 0 .. Len(out), toDevice' = toDevice \o SubSeq(out, 1, n)
        PROVE  \E w \in Seq(Sendable) :
                 /\ toDevice' = toDevice \o w /\ Rising(w)
                 /\ \A p : Before(p, out) => Before(p, w)
                 /\ \A k : Beyond(k, out) => Beyond(k, w)
    BY <2>2, InTransit, SplitQueue DEF InOrder
  <2> QED BY <1>1, <2>1, <2>2
<1> PICK w \in Seq(Sendable) :
      /\ toDevice' = toDevice \o w /\ Rising(w)
      /\ \A p : Before(p, out) => Before(p, w)
      /\ \A k : Beyond(k, out) => Beyond(k, w)
  BY <1>w
<1>2. work' \in WorkRecords
  BY Typed DEF DoWrite, WorkRecords
<1>3. losses' \in 0 .. MaxLosses /\ strays' \in 0 .. MaxStray
  BY <1>1, InTransit
<1>4. out' \in Seq(Sendable) /\ Len(out') <= Capacity /\ toDevice' \in Seq(Sendable)
  <2>1. out' \in Seq(Sendable) /\ Len(out') <= Capacity
    BY <1>1, InTransit
  <2>2. toDevice \in Seq(Sendable) /\ toDevice \o w \in Seq(Sendable)
    BY InTransit, JoinedQueues
  <2> QED BY <2>1, <2>2
<1>5. InOrder' /\ SlotIsOldest'
  <2>1. /\ Before(io.frames, w) /\ Before(fromDevice, w) /\ Before(toDevice, w)
        /\ Beyond(slot.tag, w)
    BY InTransit DEF InOrder, SlotIsOldest
  <2>2. InOrder'
    BY <1>1, <2>1, InTransit, EmptyQueue, JoinedQueues DEF InOrder
  <2>3. SlotIsOldest'
    BY <1>1, <2>1, InTransit, EmptyQueue, JoinedQueues DEF SlotIsOldest
  <2> QED BY <2>2, <2>3
<1> QED BY <1>1, <1>2, <1>3, <1>4, <1>5, InTransit, Typed, TransitKept

LEMMA ReadEndKeeps == IInv /\ ReadEnd => IInv'
<1> SUFFICES ASSUME IInv, ReadEnd PROVE IInv'
  OBVIOUS
<1> PICK n \in 0 .. Len(fromDevice) :
      /\ io' = [pc |-> "dispatching", frames |-> SubSeq(fromDevice, 1, n)]
      /\ fromDevice' = SubSeq(fromDevice, n + 1, Len(fromDevice))
  BY DEF ReadEnd
<1> DEFINE a == SubSeq(fromDevice, 1, n)
           b == SubSeq(fromDevice, n + 1, Len(fromDevice))
<1>1. /\ io.pc = "idle" /\ io' = [pc |-> "dispatching", frames |-> a] /\ fromDevice' = b
      /\ UNCHANGED <<exec, slot, out, stopping, toDevice, losses, strays, givenUp>>
  BY DEF ReadEnd
<1>2. work' \in WorkRecords
  BY Typed DEF ReadEnd, WorkRecords
<1>3. /\ a \in Seq(Receivable) /\ b \in Seq(Receivable)
      /\ Rising(a) /\ Rising(b) /\ Before(a, b)
      /\ Before(a, toDevice) /\ Before(b, toDevice) /\ Before(a, out) /\ Before(b, out)
      /\ Beyond(slot.tag, a) /\ Beyond(slot.tag, b)
  BY InTransit, SplitQueue DEF InOrder, SlotIsOldest
<1> HIDE DEF a, b
<1>4. io'.frames = a /\ io' \in IoRecords
  BY <1>1, <1>3, FramesOfReceivable
<1>5. InOrder' /\ SlotIsOldest'
  BY <1>1, <1>3, <1>4, InTransit DEF InOrder, SlotIsOldest
<1>6. exec'.pc # "closed"
  BY <1>1, Typed
<1> QED BY <1>1, <1>2, <1>3, <1>4, <1>5, <1>6, InTransit, Typed, TransitKept

LEMMA EmitKeeps == IInv /\ Emit => IInv'
<1> SUFFICES ASSUME IInv, Emit PROVE IInv'
  OBVIOUS
<1> DEFINE f == [type |-> "stray", kind |-> "none", tag |-> 0]
<1>1. /\ strays < MaxStray /\ strays' = strays + 1 /\ fromDevice' = Append(fromDevice, f)
      /\ UNCHANGED <<exec, slot, out, io, work, stopping, toDevice, losses, givenUp>>
  BY DEF Emit, worker
<1>2. f \in Receivable /\ f.tag = 0
  <2>1. 0 \in Tags /\ 0 \in 0 .. exec.tag
    BY LinkAssumption, TransitTypes DEF IInv, Tags, LinkAssumption
  <2> QED BY <2>1 DEF Receivable, Frames
<1> HIDE DEF f
<1>3. fromDevice' \in Seq(Receivable)
  BY <1>1, <1>2, InTransit, AppendToQueue
<1>4. /\ Rising(fromDevice') /\ Before(io.frames, fromDevice')
      /\ Before(fromDevice', toDevice) /\ Before(fromDevice', out)
      /\ Beyond(slot.tag, fromDevice')
  BY <1>1, <1>2, InTransit, AppendToQueue DEF InOrder, SlotIsOldest
<1>5. InOrder' /\ SlotIsOldest'
  BY <1>1, <1>4, InTransit DEF InOrder, SlotIsOldest
<1> QED BY <1>1, <1>3, <1>5, InTransit, Typed, TransitKept

LEMMA LoseKeeps == IInv /\ Lose => IInv'
<1> SUFFICES ASSUME IInv, Lose PROVE IInv'
  OBVIOUS
<1>1. /\ losses < MaxLosses /\ losses' = losses + 1
      /\ UNCHANGED <<exec, slot, out, io, work, stopping, strays, givenUp>>
      /\ \/ toDevice # << >> /\ toDevice' = Tail(toDevice) /\ UNCHANGED fromDevice
         \/ fromDevice # << >> /\ fromDevice' = Tail(fromDevice) /\ UNCHANGED toDevice
  BY DEF Lose, worker
<1>2. CASE toDevice # << >> /\ toDevice' = Tail(toDevice) /\ UNCHANGED fromDevice
  <2>1. toDevice' \in Seq(Sendable)
    BY <1>2, InTransit, TailOfQueue
  <2>2. InOrder' /\ SlotIsOldest'
    BY <1>1, <1>2, InTransit, TailOfQueue DEF InOrder, SlotIsOldest
  <2> QED BY <1>1, <1>2, <2>1, <2>2, InTransit, Typed, TransitKept
<1>3. CASE fromDevice # << >> /\ fromDevice' = Tail(fromDevice) /\ UNCHANGED toDevice
  <2>1. fromDevice' \in Seq(Receivable)
    BY <1>3, InTransit, TailOfQueue
  <2>2. InOrder' /\ SlotIsOldest'
    BY <1>1, <1>3, InTransit, TailOfQueue DEF InOrder, SlotIsOldest
  <2> QED BY <1>1, <1>3, <2>1, <2>2, InTransit, Typed, TransitKept
<1> QED BY <1>1, <1>2, <1>3

\* A message is later than whatever is before the queue it heads.
LEMMA HeadIsLater ==
  ASSUME NEW S, NEW q \in Seq(S), q # << >>, Head(q).tag > 0, NEW p, Before(p, q)
  PROVE  \A i \in DOMAIN p : p[i].tag > 0 => p[i].tag < Head(q).tag
<1>1. 1 \in DOMAIN q /\ Head(q) = q[1]
  BY LenProperties, HeadTailProperties
<1> QED BY <1>1 DEF Before

LEMMA AnswerKeeps == IInv /\ Answer => IInv'
<1> SUFFICES ASSUME IInv, Answer PROVE IInv'
  OBVIOUS
<1> DEFINE m == Head(toDevice)
           f(t) == [type |-> t, kind |-> m.kind, tag |-> m.tag]
<1>1. /\ toDevice # << >> /\ toDevice' = Tail(toDevice)
      /\ UNCHANGED <<exec, slot, out, io, work, stopping, losses, strays, givenUp>>
  BY DEF Answer, worker
<1>2. m \in Sendable /\ m \in Messages /\ m.tag \in Nat /\ m.tag > 0 /\ toDevice' \in Seq(Sendable)
  BY <1>1, InTransit, TailOfQueue, TransitTypes DEF IInv
<1>3. \/ fromDevice' = fromDevice
      \/ \E t \in {"ACK", "NACK", "answer"} :
           /\ t \in {"ACK", "NACK"} => m.op = "configure"
           /\ t = "answer" => m.op = "poll"
           /\ fromDevice' = Append(fromDevice, f(t))
  <2>1. m.op \in {"configure", "command", "poll"}
    BY <1>2 DEF Messages, Operations
  <2> HIDE DEF m
  <2>2. CASE m.op = "configure"
    BY <2>2 DEF Answer, m
  <2>3. CASE m.op = "command"
    BY <2>3 DEF Answer, m
  <2>4. CASE m.op = "poll"
    BY <2>4 DEF Answer, m
  <2> QED BY <2>1, <2>2, <2>3, <2>4
<1>4. /\ Rising(toDevice') /\ Before(io.frames, toDevice') /\ Before(fromDevice, toDevice')
      /\ Before(toDevice', out) /\ Beyond(slot.tag, toDevice')
  BY <1>1, InTransit, TailOfQueue DEF InOrder, SlotIsOldest
<1>5. CASE fromDevice' = fromDevice
  <2>1. InOrder' /\ SlotIsOldest'
    BY <1>1, <1>4, <1>5, InTransit DEF InOrder, SlotIsOldest
  <2> QED BY <1>1, <1>2, <1>5, <2>1, InTransit, Typed, TransitKept
<1>6. ASSUME NEW t \in {"ACK", "NACK", "answer"},
             t \in {"ACK", "NACK"} => m.op = "configure",
             t = "answer" => m.op = "poll",
             fromDevice' = Append(fromDevice, f(t))
      PROVE  IInv'
  <2> DEFINE g == f(t)
  <2>1. g \in Receivable /\ g.tag = m.tag /\ g.tag > 0
    <3>1. g \in Frames /\ g.tag = m.tag /\ g.kind = m.kind /\ g.type = t
      BY <1>2 DEF Frames, Messages
    <3> HIDE DEF g, m
    <3>2. m.tag \in 0 .. exec.tag
      BY <1>2 DEF Sendable
    <3> QED BY <1>2, <1>6, <3>1, <3>2 DEF Sendable, Receivable
  <2>2. /\ \A i \in DOMAIN fromDevice : fromDevice[i].tag > 0 => fromDevice[i].tag < m.tag
        /\ \A i \in DOMAIN io.frames : io.frames[i].tag > 0 => io.frames[i].tag < m.tag
        /\ Beyond(m.tag, toDevice') /\ Beyond(m.tag, out) /\ m.tag > slot.tag
    BY <1>1, <1>2, InTransit, HeadIsLater, HeadOfQueue DEF InOrder, SlotIsOldest
  <2> HIDE DEF m, g
  <2>3. fromDevice' = Append(fromDevice, g)
    BY <1>6 DEF g
  <2>4. fromDevice' \in Seq(Receivable)
    BY <2>1, <2>3, InTransit, AppendToQueue
  <2>5. /\ Rising(fromDevice') /\ Before(io.frames, fromDevice')
        /\ Before(fromDevice', toDevice') /\ Before(fromDevice', out)
        /\ Beyond(slot.tag, fromDevice')
    BY <1>4, <2>1, <2>2, <2>3, InTransit, AppendToQueue DEF InOrder, SlotIsOldest
  <2>6. InOrder' /\ SlotIsOldest'
    BY <1>1, <1>4, <2>5, InTransit DEF InOrder, SlotIsOldest
  <2> QED BY <1>1, <1>2, <2>4, <2>6, InTransit, Typed, TransitKept
<1> QED BY <1>3, <1>5, <1>6

\* The slot takes the oldest answer there is, and the call that waits for it
\* remembers what it was told.
LEMMA DispatchKeeps == IInv /\ Dispatch => IInv'
<1> SUFFICES ASSUME IInv, Dispatch PROVE IInv'
  OBVIOUS
<1> DEFINE f == Head(io.frames)
<1>1. /\ io.pc = "dispatching" /\ io.frames # << >> /\ io' = [io EXCEPT !.frames = Tail(@)]
      /\ UNCHANGED <<out, work, stopping, toDevice, fromDevice, losses, strays, givenUp>>
  BY DEF Dispatch, device
<1>2. f \in Receivable /\ f \in Frames /\ f.tag \in Nat /\ f.tag <= exec.tag
  BY <1>1, InTransit, TailOfQueue, TransitTypes DEF IInv
<1>3. /\ io' = [pc |-> "dispatching", frames |-> Tail(io.frames)]
      /\ io'.pc = "dispatching" /\ io'.frames = Tail(io.frames)
      /\ io'.frames \in Seq(Receivable)
  BY <1>1, InTransit, TailOfQueue, Typed DEF IoRecords
<1>4. io' \in IoRecords /\ exec.pc # "closed"
  BY <1>1, <1>3, FramesOfReceivable, Typed
<1>5. InOrder'
  BY <1>1, <1>3, InTransit, TailOfQueue DEF InOrder
<1>6. \/ f.type \in {"ACK", "NACK"} /\ StoreAck(f)
      \/ f.type = "answer" /\ HandOver(f)
      \/ f.type = "stray" /\ UNCHANGED <<exec, slot>>
  BY <1>2 DEF Dispatch, Frames
<1> HIDE DEF f
<1>7. CASE UNCHANGED slot /\ (HandOver(f) \/ UNCHANGED exec)
  <2>1. SlotIsOldest'
    BY <1>1, <1>3, <1>7, InTransit, TailOfQueue DEF SlotIsOldest
  <2>2. \/ exec' = exec
        \/ exec.pc = "reading" /\ exec' = MovedTo(exec, "answered")
    BY <1>7 DEF HandOver, MovedTo
  <2>3. exec' \in CallRecords /\ SamePhase(exec', exec) /\ exec'.pc # "closed"
    <3>1. "answered" \in Pcs /\ "answered" \in PollPcs /\ "reading" \in PollPcs
      BY DEF Pcs, Blocked, PollPcs
    <3>2. CASE exec' = exec
      BY <1>4, <3>2, Typed
    <3>3. CASE exec.pc = "reading" /\ exec' = MovedTo(exec, "answered")
      BY <3>1, <3>3, Typed, Moved, MoveKeepsPhase
    <3> QED BY <2>2, <3>2, <3>3
  <2> QED BY <1>1, <1>3, <1>4, <1>5, <1>7, <2>1, <2>3, InTransit, Typed, TransitKept
<1>8. CASE f.type \in {"ACK", "NACK"} /\ StoreAck(f)
  <2>1. /\ f.tag > 0 /\ f.kind \in Kinds /\ f.type \in {"ACK", "NACK"}
        /\ slot' = [type |-> f.type, kind |-> f.kind, tag |-> f.tag]
    BY <1>2, <1>8 DEF Receivable, StoreAck
  <2>2. /\ Beyond(f.tag, Tail(io.frames)) /\ Beyond(f.tag, fromDevice)
        /\ Beyond(f.tag, toDevice) /\ Beyond(f.tag, out) /\ f.tag > slot.tag
    BY <1>1, <2>1, InTransit, HeadOfQueue DEF InOrder, SlotIsOldest, f
  <2>3. SlotIsOldest'
    BY <1>1, <1>3, <2>1, <2>2 DEF SlotIsOldest
  <2>4. /\ exec' \in CallRecords /\ SameIdentity(exec', exec) /\ exec'.pc = exec.pc
        /\ exec'.by = exec.by /\ exec'.result = exec.result /\ exec'.seen = exec.seen
        /\ \/ exec'.told = exec.told /\ exec'.overlooked = exec.overlooked
           \/ /\ f.tag = exec.tag /\ exec.pc \in Blocked /\ exec'.told = f.type
              /\ exec.pc = "checking" => exec'.overlooked
        /\ f.tag = exec.tag /\ exec.pc \in Blocked =>
             exec'.told = f.type \/ exec'.told = exec.told
    <3>1. \/ exec' = exec
          \/ f.tag = exec.tag /\ exec.pc \in Blocked
             /\ exec' = [exec EXCEPT !.told = f.type, !.overlooked = exec.pc = "checking"]
      BY <1>8 DEF StoreAck
    <3>2. exec \in CallRecords /\ f.type \in AckTypes
      BY <2>1, Typed DEF AckTypes
    <3> QED BY <3>1, <3>2 DEF CallRecords, SameIdentity
  <2>5. Transit'
    <3>1. Sendable \subseteq Sendable' /\ Receivable \subseteq Receivable'
      BY <1>1, <2>4, StillInTransit DEF SameCall
    <3> QED BY <1>1, <1>3, <3>1, InTransit, SeqMonotonic DEF Transit
  <2>6. TypeOK'
    <3>1. slot' \in Acks
      BY <1>2, <2>1 DEF Frames, AckTypes, Acks
    <3> QED BY <1>1, <1>4, <2>4, <3>1 DEF IInv, TypeOK, CallRecords, Pcs, IoRecords
  <2>7. exec.told # "WAIT" /\ exec.pc \in AckPcs => FALSE
    BY <1>2, <2>2, TransitTypes DEF IInv, CallInv, ToldIsKept
  <2>8. SlotShape' /\ SeenShape' /\ SlotIsOwn' /\ ToldIsKept'
    <3>1. /\ slot'.tag = f.tag /\ slot'.kind = f.kind /\ slot'.type = f.type
          /\ exec'.tag = exec.tag /\ exec'.kind = exec.kind /\ exec'.op = exec.op
      BY <2>1, <2>4 DEF SameIdentity
    <3>2. f.tag = exec.tag => f.kind = exec.kind /\ exec.pc # "sending"
      BY <1>2, <2>1 DEF Receivable
    <3>3. givenUp = {} => f.tag = exec.tag
      BY <1>2, <2>1 DEF Receivable
    <3>4. SlotShape'
      BY <1>2, <2>1, <2>4, <3>1, <3>2, TransitTypes DEF IInv, SlotShape
    <3>5. SlotIsOwn'
      BY <1>1, <3>1, <3>3 DEF SlotIsOwn
    <3>6. ToldIsKept'
      BY <2>4, <2>7, <3>1, <3>2 DEF ToldIsKept
    <3>7. SeenShape'
      <4>1. exec.pc = "checking" => exec.seen.tag \in Nat
        BY Typed DEF CallRecords, Acks, Tags
      <4>2. exec.pc = "checking" => exec.seen.tag <= slot'.tag
        BY <1>2, <2>2, <3>1, <4>1, TransitTypes DEF IInv, CallInv, SeenShape
      <4> QED BY <1>1, <2>4, <3>1, <4>2 DEF IInv, CallInv, SeenShape
    <3> QED BY <3>4, <3>5, <3>6, <3>7
  <2>9. CallShape' /\ Outcomes' /\ ClosedIsEnded'
    BY <1>1, <1>4, <2>4
       DEF IInv, CallInv, CallShape, Outcomes, ClosedIsEnded, SameIdentity,
           AckPcs, PollPcs, Between, Blocked
  <2> QED BY <1>5, <2>3, <2>5, <2>6, <2>8, <2>9 DEF IInv, QueueInv, CallInv
<1> QED BY <1>6, <1>7, <1>8 DEF HandOver

-----------------------------------------------------------------------------
(* The invariant, and what it implies.                                     *)

LEMMA StepKeeps == IInv /\ [Next]_vars => IInv'
<1> SUFFICES ASSUME IInv, [Next]_vars PROVE IInv'
  OBVIOUS
<1>1. CASE \E op \in Operations, kind \in Kinds \cup {"poll"} : Call(op, kind)
  BY <1>1, CallKeeps
<1>2. CASE Send \/ Load \/ Check \/ Unregister \/ Open
  BY <1>2, SendKeeps, LoadKeeps, CheckKeeps, UnregisterKeeps, OpenKeeps
<1>3. CASE Wait \/ WaitEnds \/ Register \/ AwaitMessage \/ WaitTimesOut
  BY <1>3, WaitingKeeps
<1>4. CASE Close \/ Join \/ Expire
  BY <1>4, CloseKeeps, ExpireKeeps
<1>5. CASE IoThread
  BY <1>5, DoWriteKeeps, ReadEndKeeps, DispatchKeeps, DispatchEndsKeeps, IoTurnsKeep DEF IoThread
<1>6. CASE Answer \/ Emit \/ Lose
  BY <1>6, AnswerKeeps, EmitKeeps, LoseKeeps
<1>7. CASE UNCHANGED vars
  <2>1. UNCHANGED <<slot, givenUp, stopping, strays>> /\ SameQueues
    BY <1>7 DEF vars, SameQueues
  <2>2. UNCHANGED <<exec, io, work, losses>>
    BY <1>7 DEF vars
  <2> QED BY <2>1, <2>2, Typed, PhaseKept
<1> QED BY <1>1, <1>2, <1>3, <1>4, <1>5, <1>6, <1>7 DEF Next, Executor

LEMMA Inductive == Spec => []IInv
BY InitEstablishes, StepKeeps, PTL DEF Spec

\* In every behaviour of the link, every variable keeps its type, and send()
\* never lets the output buffer outgrow its capacity.
THEOREM TypeCorrect == Spec => []TypeOK
<1>1. IInv => TypeOK
  BY DEF IInv
<1> QED BY <1>1, Inductive, PTL

\* waitForAcknowledge() decides on what it loaded last, before it heeds the
\* deadline: an answer that processAck() or processNack() stored before the
\* deadline and before that load is what configure() returns, wherever the call
\* stood when it came.
THEOREM AnswerAlwaysCounts == Spec => []AnswerCounts
<1>1. IInv => AnswerCounts
  BY DEF IInv, CallInv, Outcomes, Between, AnswerCounts, Returned
<1> QED BY <1>1, Inductive, PTL

\* Acknowledgements carry no number, only class and id: until the first call
\* times out, configure() nevertheless takes no answer but its own.
THEOREM OwnAckAlwaysUntilTimeout == Spec => []OwnAckUntilTimeout
<1>1. IInv => OwnAckUntilTimeout
  BY DEF IInv, CallInv, Outcomes, Between, OwnAckUntilTimeout, Returned
<1> QED BY <1>1, Inductive, PTL

-----------------------------------------------------------------------------
(* What send() took.                                                       *)

\* The I/O thread writes what is in the buffer before it ends, and ends only
\* after the destructor has closed the link.
ThreadKept ==
  /\ exec.pc \notin {"joining", "closed"} => ~work.close /\ ~stopping /\ io.pc # "ended"
  /\ io.pc = "idle" /\ work.read = "none" => stopping
  /\ out # << >> => work.write
  /\ io.pc = "ended" => out = << >>

SentInv == SentOnce /\ ThreadKept

LEMMA AppendedBehind ==
  \A q, r \in Seq(Messages), e \in Messages : Append(q \o r, e) = q \o Append(r, e)
<1> TAKE q, r \in Seq(Messages), e \in Messages
<1>1. Append(q \o r, e) = (q \o r) \o << e >>
  BY ConcatProperties, AppendIsConcat
<1>2. Append(r, e) = r \o << e >>
  BY AppendIsConcat
<1>3. << e >> \in Seq(Messages)
  OBVIOUS
<1>4. (q \o r) \o << e >> = q \o (r \o << e >>)
  BY <1>3, ConcatAssociative
<1> QED BY <1>1, <1>2, <1>4, Zenon

LEMMA TailOfJoined ==
  ASSUME NEW S, NEW q \in Seq(S), NEW r \in Seq(S), q # << >>
  PROVE  Tail(q \o r) = Tail(q) \o r
<1> DEFINE s == q \o r
           t == Tail(q) \o r
<1>1. /\ Len(q) \in Nat /\ Len(r) \in Nat /\ Len(q) > 0
      /\ s \in Seq(S) /\ Len(s) = Len(q) + Len(r)
      /\ \A i \in 1 .. Len(q) + Len(r) : s[i] = IF i <= Len(q) THEN q[i] ELSE r[i - Len(q)]
  BY EmptySeq, LenProperties, ConcatProperties
<1>2. /\ Tail(q) \in Seq(S) /\ Len(Tail(q)) = Len(q) - 1
      /\ \A i \in 1 .. Len(q) - 1 : Tail(q)[i] = q[i + 1]
  BY HeadTailProperties
<1>3. /\ t \in Seq(S) /\ Len(t) = Len(q) - 1 + Len(r)
      /\ \A i \in 1 .. Len(q) - 1 + Len(r) :
           t[i] = IF i <= Len(q) - 1 THEN Tail(q)[i] ELSE r[i - (Len(q) - 1)]
  BY <1>2, ConcatProperties
<1>4. s # << >>
  <2> HIDE DEF s
  <2> QED BY <1>1, EmptySeq
<1> HIDE DEF s, t
<1>5. /\ Tail(s) \in Seq(S) /\ Len(Tail(s)) = Len(q) + Len(r) - 1
      /\ \A i \in 1 .. Len(q) + Len(r) - 1 : Tail(s)[i] = s[i + 1]
  BY <1>1, <1>4, HeadTailProperties
<1>6. Len(Tail(s)) = Len(t)
  BY <1>1, <1>3, <1>5
<1>7. ASSUME NEW i \in 1 .. Len(Tail(s)) PROVE Tail(s)[i] = t[i]
  <2>1. i \in 1 .. Len(q) + Len(r) - 1 /\ i + 1 \in 1 .. Len(q) + Len(r)
    BY <1>1, <1>5
  <2>2. CASE i <= Len(q) - 1
    <3>1. i \in 1 .. Len(q) - 1 /\ i + 1 <= Len(q)
      BY <1>1, <2>1, <2>2
    <3>2. Tail(s)[i] = s[i + 1]
      BY <1>5, <2>1
    <3>3. i \in 1 .. Len(q) - 1 + Len(r)
      BY <1>1, <2>1
    <3>4. s[i + 1] = q[i + 1]
      BY <1>1, <2>1, <3>1
    <3>5. t[i] = Tail(q)[i]
      BY <1>3, <2>2, <3>3
    <3>6. Tail(q)[i] = q[i + 1]
      BY <1>2, <3>1
    <3> QED BY <3>2, <3>4, <3>5, <3>6, Zenon
  <2>3. CASE ~(i <= Len(q) - 1)
    <3>1. ~(i + 1 <= Len(q)) /\ i + 1 - Len(q) = i - (Len(q) - 1)
      BY <1>1, <2>1, <2>3
    <3>2. Tail(s)[i] = s[i + 1]
      BY <1>5, <2>1
    <3>3. i \in 1 .. Len(q) - 1 + Len(r)
      BY <1>1, <2>1
    <3>4. s[i + 1] = r[i + 1 - Len(q)]
      BY <1>1, <2>1, <3>1
    <3>5. t[i] = r[i - (Len(q) - 1)]
      BY <1>3, <2>3, <3>3
    <3> QED BY <3>1, <3>2, <3>4, <3>5, Zenon
  <2> QED BY <2>2, <2>3
<1> QED BY <1>3, <1>5, <1>6, <1>7, SeqEqual DEF s, t

LEMMA Associated ==
  \A q, a, b \in Seq(Messages) : q \o (a \o b) = (q \o a) \o b
<1> TAKE q, a, b \in Seq(Messages)
<1> QED BY ConcatAssociative

LEMMA CutBehind ==
  \A q, r \in Seq(Messages) : \A n \in 1 .. Len(r) :
    SubSeq(q \o r, 1, Len(q \o r) - n) = q \o SubSeq(r, 1, Len(r) - n)
<1> TAKE q, r \in Seq(Messages)
<1> TAKE n \in 1 .. Len(r)
<1> DEFINE k == Len(r) - n
           a == SubSeq(r, 1, k)
           b == SubSeq(r, k + 1, Len(r))
<1>1. /\ Len(r) \in Nat /\ Len(q) \in Nat /\ k \in 0 .. Len(r) /\ k \in Nat
      /\ Len(q \o r) = Len(q) + Len(r)
  BY LenProperties, ConcatProperties
<1>2. a \in Seq(Messages) /\ b \in Seq(Messages) /\ Len(a) = k
  <2> HIDE DEF k
  <2>1. a \in Seq(Messages) /\ b \in Seq(Messages)
    BY <1>1, SplitQueue
  <2>2. \A i \in 1 .. k : r[i] \in Messages
    BY <1>1, LenProperties
  <2>3. Len(a) = IF 1 <= k THEN k - 1 + 1 ELSE 0
    BY <1>1, <2>2, SubSeqProperties
  <2> HIDE DEF a
  <2> QED BY <1>1, <2>1, <2>3
<1>3. r = a \o b
  <2> HIDE DEF k
  <2>0. 1 \in 1 .. Len(r) + 1 /\ k \in 1 - 1 .. Len(r) /\ Len(r) \in k .. Len(r)
    BY <1>1
  <2>1. SubSeq(r, 1, k) \o SubSeq(r, k + 1, Len(r)) = SubSeq(r, 1, Len(r))
    BY <2>0, ConcatAdjacentSubSeq, Zenon
  <2> QED BY <2>1, SubSeqFull
<1>4. q \o r = (q \o a) \o b /\ q \o a \in Seq(Messages) /\ Len(q \o a) = Len(q) + k
  <2> HIDE DEF a, b, k
  <2>1. q \o r = q \o (a \o b)
    BY <1>3, Zenon
  <2>2. q \o (a \o b) = (q \o a) \o b
    BY <1>2, Associated, Zenon
  <2>3. q \o a \in Seq(Messages) /\ Len(q \o a) = Len(q) + k
    BY <1>2, ConcatProperties
  <2> QED BY <2>1, <2>2, <2>3, Zenon
<1>5. Len(q \o r) - n = Len(q \o a)
  <2>1. Len(q) + Len(r) - n = Len(q) + k
    BY <1>1
  <2> HIDE DEF a, k
  <2> QED BY <1>1, <1>4, <2>1
<1> HIDE DEF a, b
<1>6. SubSeq((q \o a) \o b, 1, Len(q \o a)) = q \o a
  <2> DEFINE p == q \o a
  <2>1. p \in Seq(Messages) /\ b \in Seq(Messages) /\ Len(p) \in Nat
    BY <1>2, <1>4, LenProperties
  <2> HIDE DEF p
  <2>2. CASE Len(p) = 0
    <3>1. p = << >> /\ SubSeq(p \o b, 1, Len(p)) = << >>
      BY <2>1, <2>2, EmptySeq, SubSeqEmpty
    <3> QED BY <3>1 DEF p
  <2>3. CASE Len(p) # 0
    <3>1. 1 \in 1 .. Len(p) /\ Len(p) \in 1 .. Len(p)
      BY <2>1, <2>3
    <3>2. SubSeq(p \o b, 1, Len(p)) = p
      BY <2>1, <3>1, SubSeqOfConcat1, SubSeqFull
    <3> QED BY <3>2 DEF p
  <2> QED BY <2>2, <2>3
<1> QED BY <1>4, <1>5, <1>6 DEF a

LEMMA SentInitially == Init => SentInv
<1> SUFFICES ASSUME Init PROVE SentInv
  OBVIOUS
<1>1. << >> \in Seq(Messages) /\ << >> \o << >> = << >>
  BY EmptySeq, ConcatEmptySeq
<1> QED BY <1>1 DEF Init, NoCall, Idle, NewWork, SentInv, SentOnce, ThreadKept

LEMMA ThreadStepKeeps == IInv /\ SentInv /\ [Next]_vars => ThreadKept'
<1> SUFFICES ASSUME IInv, SentInv, [Next]_vars PROVE ThreadKept'
  OBVIOUS
<1>1. ThreadKept /\ exec \in CallRecords /\ work \in WorkRecords /\ io \in IoRecords
  BY Typed DEF SentInv
<1>2. CASE \E op \in Operations, kind \in Kinds \cup {"poll"} : Call(op, kind)
  BY <1>1, <1>2 DEF Call, NoCall, ThreadKept, worker
<1>3. CASE Send
  <2>1. exec.pc = "sending" /\ exec'.pc \in {"loading", "registering", "ready"}
    BY <1>1, <1>3 DEF Send, Return, CallRecords, IInv, TypeOK, Operations
  <2>2. /\ UNCHANGED <<io, stopping>> /\ work'.close = work.close /\ work'.read = work.read
        /\ work'.write \/ (UNCHANGED out /\ work'.write = work.write)
    BY <1>1, <1>3 DEF Send, WorkRecords
  <2> QED BY <1>1, <2>1, <2>2 DEF ThreadKept
<1>4. CASE Load \/ Check \/ Wait \/ WaitEnds \/ Register \/ AwaitMessage \/ Unregister
           \/ Expire \/ WaitTimesOut
  <2>1. exec.pc \notin {"joining", "closed"} /\ UNCHANGED <<out, io, work, stopping>>
    BY <1>4 DEF Load, Check, Wait, WaitEnds, Register, AwaitMessage, Unregister, Expire,
                WaitTimesOut, Blocked, worker
  <2> QED BY <1>1, <2>1 DEF ThreadKept
<1>5. CASE Close
  <2>1. exec'.pc = "joining" /\ work'.read = work.read /\ work'.write = work.write
    BY <1>1, <1>5 DEF Close, CallRecords, WorkRecords
  <2> QED BY <1>1, <1>5, <2>1 DEF Close, ThreadKept
<1>6. CASE Join
  <2>1. exec'.pc = "closed"
    BY <1>1, <1>6 DEF Join, CallRecords
  <2> QED BY <1>1, <1>6, <2>1 DEF Join, ThreadKept, worker
<1>7. CASE Open
  BY <1>7 DEF Open, Idle, NewWork, ThreadKept
<1>8. CASE DoWrite
  <2>1. work'.read = work.read /\ work'.close = work.close
    BY <1>1, <1>8 DEF DoWrite, WorkRecords
  <2> QED BY <1>1, <1>8, <2>1 DEF DoWrite, Written, ThreadKept
<1>9. CASE DoRead \/ ReadFails \/ DoClose
  <2>1. work'.write = work.write /\ UNCHANGED <<exec, out, io>> /\ io.pc = "idle"
    BY <1>1, <1>9 DEF DoRead, ReadFails, DoClose, WorkRecords
  <2>2. exec.pc \notin {"joining", "closed"} => ~work'.close /\ ~stopping'
    BY <1>1, <1>9 DEF DoRead, ReadFails, DoClose, ThreadKept, WorkRecords, StoppingSet
  <2>3. work'.read = "none" => stopping'
    BY <1>1, <1>9 DEF DoRead, ReadFails, DoClose, ThreadKept, WorkRecords, StoppingSet
  <2> QED BY <1>1, <2>1, <2>2, <2>3 DEF ThreadKept
<1>10. CASE ReadEnd \/ Dispatch
  <2>1. io'.pc = "dispatching" /\ UNCHANGED <<out, stopping>>
    <3>1. CASE ReadEnd
      BY <3>1 DEF ReadEnd
    <3>2. CASE Dispatch
      BY <1>1, <3>2 DEF Dispatch, IoRecords
    <3> QED BY <1>10, <3>1, <3>2
  <2>2. work'.write = work.write /\ work'.close = work.close
    BY <1>1, <1>10 DEF ReadEnd, Dispatch, WorkRecords
  <2>3. exec'.pc = exec.pc \/ (exec.pc = "reading" /\ exec'.pc = "answered")
    <3>1. CASE ReadEnd
      BY <3>1 DEF ReadEnd
    <3>2. CASE Dispatch
      <4> DEFINE f == Head(io.frames)
      <4>1. f \in Frames
        BY <3>2, TailOfQueue DEF Dispatch, IInv, TypeOK
      <4>2. StoreAck(f) \/ HandOver(f) \/ UNCHANGED exec
        BY <3>2, <4>1 DEF Dispatch, Frames
      <4> HIDE DEF f
      <4> QED BY <1>1, <4>2 DEF StoreAck, HandOver, CallRecords
    <3> QED BY <1>10, <3>1, <3>2
  <2> QED BY <1>1, <2>1, <2>2, <2>3 DEF ThreadKept
<1>11. CASE DispatchEnds
  <2>1. /\ io'.pc = "idle" /\ UNCHANGED <<out, stopping>>
        /\ work'.write = work.write /\ work'.close = work.close
        /\ work'.read = "none" => stopping
    BY <1>1, <1>11 DEF DispatchEnds, Idle, WorkRecords
  <2>2. exec'.pc \notin {"joining", "closed"} => exec.pc \notin {"joining", "closed"}
    BY <1>1, <1>11 DEF DispatchEnds, CallRecords
  <2> QED BY <1>1, <2>1, <2>2 DEF ThreadKept
<1>12. CASE ThreadEnds
  <2>1. io'.pc = "ended" /\ stopping /\ out = << >> /\ UNCHANGED <<exec, out, work, stopping>>
    BY <1>1, <1>12 DEF ThreadEnds, ThreadKept, IoRecords
  <2> QED BY <1>1, <2>1 DEF ThreadKept
<1>13. CASE Answer \/ Emit \/ Lose \/ UNCHANGED vars
  BY <1>1, <1>13 DEF Answer, Emit, Lose, vars, worker, ThreadKept
<1> QED BY <1>2, <1>3, <1>4, <1>5, <1>6, <1>7, <1>8, <1>9, <1>10, <1>11, <1>12, <1>13
        DEF Next, Executor, IoThread

LEMMA SentStepKeeps == IInv /\ SentInv /\ [Next]_vars => SentOnce'
<1> SUFFICES ASSUME IInv, SentInv, [Next]_vars PROVE SentOnce'
  OBVIOUS
<1>1. /\ accepted = toDevice \o out
      /\ toDevice \in Seq(Messages) /\ out \in Seq(Messages) /\ toDevice \o out \in Seq(Messages)
  BY ConcatProperties DEF SentInv, SentOnce, IInv, TypeOK
<1>2. CASE UNCHANGED <<accepted, toDevice, out>>
  BY <1>1, <1>2 DEF SentOnce
<1>3. CASE Send
  <2> DEFINE m == [op |-> exec.op, kind |-> exec.kind, tag |-> exec.tag]
  <2>1. \/ UNCHANGED <<accepted, toDevice, out>>
        \/ out' = Append(out, m) /\ accepted' = Append(accepted, m) /\ UNCHANGED toDevice
    BY <1>3 DEF Send
  <2>2. m \in Messages
    BY <1>3, Typed DEF Send, IInv, CallInv, CallShape, Between, CallRecords, Messages
  <2> HIDE DEF m
  <2>3. Append(toDevice \o out, m) = toDevice \o Append(out, m)
    <3>1. toDevice \in Seq(Messages) /\ out \in Seq(Messages)
      BY <1>1
    <3> QED BY <2>2, <3>1, AppendedBehind, Zenon
  <2>4. CASE out' = Append(out, m) /\ accepted' = Append(accepted, m) /\ UNCHANGED toDevice
    BY <1>1, <2>3, <2>4, Zenon DEF SentOnce
  <2> QED BY <1>2, <2>1, <2>4
<1>4. CASE Open
  <2>1. exec.pc = "closed" /\ out = << >>
    BY <1>4 DEF Open, IInv, CallInv, ClosedIsEnded, SentInv, ThreadKept
  <2>2. UNCHANGED <<accepted, toDevice, out>>
    BY <1>4, <2>1 DEF Open
  <2> QED BY <1>2, <2>2
<1>5. CASE DoWrite
  <2>1. /\ out' = << >>
        /\ \/ toDevice' = toDevice \o out /\ UNCHANGED accepted
           \/ \E dropped \in 1 .. Len(out) :
                /\ toDevice' = toDevice \o SubSeq(out, 1, Len(out) - dropped)
                /\ accepted' = SubSeq(accepted, 1, Len(accepted) - dropped)
    BY <1>5 DEF DoWrite, Written
  <2>2. CASE toDevice' = toDevice \o out /\ UNCHANGED accepted
    BY <1>1, <2>1, <2>2, ConcatEmptySeq DEF SentOnce
  <2>3. ASSUME NEW dropped \in 1 .. Len(out),
               toDevice' = toDevice \o SubSeq(out, 1, Len(out) - dropped),
               accepted' = SubSeq(accepted, 1, Len(accepted) - dropped)
        PROVE  SentOnce'
    <3>1. accepted' = toDevice'
      <4>1. SubSeq(toDevice \o out, 1, Len(toDevice \o out) - dropped)
              = toDevice \o SubSeq(out, 1, Len(out) - dropped)
        <5>1. toDevice \in Seq(Messages) /\ out \in Seq(Messages)
          BY <1>1
        <5> QED BY <5>1, CutBehind, Zenon
      <4> QED BY <1>1, <2>3, <4>1, Zenon
    <3>2. Len(out) - dropped \in 0 .. Len(out)
      BY <1>1, LenProperties
    <3>3. toDevice' \in Seq(Messages)
      BY <1>1, <2>3, <3>2, SplitQueue, ConcatProperties
    <3> QED BY <2>1, <3>1, <3>3, ConcatEmptySeq DEF SentOnce
  <2> QED BY <2>1, <2>2, <2>3
<1>6. CASE Answer \/ Lose
  <2>1. \/ UNCHANGED <<accepted, toDevice, out>>
        \/ /\ toDevice # << >> /\ toDevice' = Tail(toDevice) /\ accepted' = Tail(accepted)
           /\ UNCHANGED out
    BY <1>6 DEF Answer, Lose, worker
  <2> QED BY <1>1, <1>2, <2>1, TailOfJoined DEF SentOnce
<1>7. ASSUME NEW op \in Operations, NEW kind \in Kinds \cup {"poll"}, Call(op, kind)
      PROVE  SentOnce'
  BY <1>2, <1>7 DEF Call, worker, device
<1>8. CASE Executor \/ Close \/ Expire \/ WaitTimesOut
  BY <1>2, <1>3, <1>4, <1>8
     DEF Executor, Load, Check, Wait, WaitEnds, Register, AwaitMessage, Unregister, Join,
         Close, Expire, WaitTimesOut, worker, device
<1>9. CASE IoThread
  BY <1>2, <1>5, <1>9
     DEF IoThread, DoRead, ReadEnd, ReadFails, Dispatch, DispatchEnds, DoClose, ThreadEnds, device
<1>10. CASE Emit \/ UNCHANGED vars
  BY <1>2, <1>10 DEF Emit, worker, vars
<1> QED BY <1>6, <1>7, <1>8, <1>9, <1>10 DEF Next

\* doWrite() hands out_ over whole and clears it, and doClose() is posted behind
\* it: what send() took and no error or loss took away is on the line or in the
\* buffer, in order and once, also while a Gps is replaced by another.
THEOREM AlwaysSentOnce == Spec => []SentOnce
<1>1. Init => IInv /\ SentInv
  BY InitEstablishes, SentInitially
<1>2. IInv /\ SentInv /\ [Next]_vars => IInv' /\ SentInv'
  BY StepKeeps, ThreadStepKeeps, SentStepKeeps DEF SentInv
<1>3. SentInv => SentOnce
  BY DEF SentInv
<1> QED BY <1>1, <1>2, <1>3, PTL DEF Spec

=============================================================================
