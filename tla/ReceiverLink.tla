---------------------------- MODULE ReceiverLink ----------------------------
(***************************************************************************)
(* The link to the receiver: Gps (gps.hpp, gps.cpp) and its AsyncWorker    *)
(* (async_worker.hpp), with the dispatch of messages (callback.hpp).  The  *)
(* executor sends configuration messages and polls and blocks for what     *)
(* they come to; the I/O thread writes, reads and dispatches.              *)
(*                                                                         *)
(* Mutexes.  read_mutex_ is held by the I/O thread while it dispatches one *)
(* read; everyone else holds it, write_mutex_ and callback_mutex_ for one  *)
(* step only, so that no variable stands for them.                         *)
(*                                                                         *)
(* Messages carry the number of the call that sent them (tag), which the   *)
(* receiver's answers repeat: history, which no guard reads.               *)
(***************************************************************************)
EXTENDS Integers, Sequences

CONSTANTS
  Kinds,        \* class and id of the configuration messages
  Capacity,     \* messages the output buffer holds
  MaxCalls,     \* bound: calls the executor makes
  MaxLosses,    \* bound: messages, answers and reads the link loses
  MaxStray      \* bound: messages the receiver sends unasked

ASSUME LinkAssumption ==
  /\ "poll" \notin Kinds /\ "none" \notin Kinds
  /\ Capacity \in Nat \ {0}
  /\ MaxCalls \in Nat /\ MaxLosses \in Nat /\ MaxStray \in Nat

VARIABLES
  exec,        \* the executor: the call it makes, and how far it is
  slot,        \* ack_
  out,         \* out_
  io,          \* the I/O thread: what it does, and what it still dispatches
  work,        \* what is queued at io_service_
  stopping,    \* stopping_
  toDevice,    \* written, not yet read by the receiver
  fromDevice,  \* sent by the receiver, not yet read
  accepted,    \* history: what send() took and no error or loss took away again,
               \* up to what the receiver has read
  losses,      \* how often the link lost something
  strays,      \* how many messages the receiver sent unasked
  givenUp      \* history: the calls that timed out

vars == <<exec, slot, out, io, work, stopping, toDevice, fromDevice, accepted,
          losses, strays, givenUp>>

device == <<toDevice, fromDevice, accepted, losses, strays>>
worker == <<out, io, work, stopping>>

-----------------------------------------------------------------------------

Operations == {"configure", "command", "poll"}

\* Ack{}: type, class and id, here one kind.
Waiting == [type |-> "WAIT", kind |-> "none", tag |-> 0]

\* A call: configure() with and without waiting for the acknowledgement, and
\* poll() for a message; seen is the local ack of waitForAcknowledge().  History:
\* told, the answer to this very call, if it reached the slot before the deadline;
\* overlooked, that it did so after the slot was last looked at; by, the call
\* whose answer was taken.
NoCall == [pc |-> "ready", op |-> "command", kind |-> "none", tag |-> 0,
           seen |-> Waiting, expired |-> FALSE, result |-> FALSE,
           told |-> "WAIT", overlooked |-> FALSE, by |-> 0]

Idle == [pc |-> "idle", frames |-> <<>>]

\* A worker just constructed: doRead is posted, and its thread runs.
NewWork == [read |-> "posted", write |-> FALSE, close |-> FALSE]

Blocked == {"loading", "checking", "locking", "waiting", "woken", "registering",
            "registered", "reading", "answered", "unanswered"}

Return(e, result) == [e EXCEPT !.pc = "ready", !.result = result]

Init ==
  /\ exec = NoCall
  /\ slot = Waiting
  /\ out = <<>> /\ io = Idle /\ work = NewWork /\ stopping = FALSE
  /\ toDevice = <<>> /\ fromDevice = <<>> /\ accepted = <<>>
  /\ losses = 0 /\ strays = 0
  /\ givenUp = {}

-----------------------------------------------------------------------------
(* The executor.                                                           *)

\* Defective variant, for mutation: the last answer stays in the slot.
ResetAckSkipped(ack) == ack

\* configure() clears the slot before it sends.
ResetAck(ack) == Waiting

Call(op, kind) ==
  /\ exec.pc = "ready" /\ exec.tag < MaxCalls
  /\ (op = "poll") <=> (kind = "poll")
  /\ exec' = [NoCall EXCEPT !.pc = "sending", !.op = op, !.kind = kind,
                            !.tag = exec.tag + 1]
  /\ slot' = IF op = "poll" THEN slot ELSE ResetAck(slot)
  /\ UNCHANGED <<worker, device, givenUp>>

\* Defective variant, for mutation: no look at the capacity.
RoomAlways(q) == TRUE

Room(q) == Len(q) < Capacity

\* send(): a message that does not fit is dropped, and nobody asks.
Send ==
  /\ exec.pc = "sending"
  /\ LET m == [op |-> exec.op, kind |-> exec.kind, tag |-> exec.tag]
     IN IF Room(out)
          THEN /\ out' = Append(out, m) /\ accepted' = Append(accepted, m)
               /\ work' = [work EXCEPT !.write = TRUE]
          ELSE UNCHANGED <<out, accepted, work>>
  /\ exec' = CASE exec.op = "configure" -> [exec EXCEPT !.pc = "loading"]
               [] exec.op = "poll"      -> [exec EXCEPT !.pc = "registering"]
               [] exec.op = "command"   -> Return(exec, TRUE)
  /\ UNCHANGED <<slot, io, stopping, toDevice, fromDevice, losses, strays, givenUp>>

\* ack_.load(), and again after every wait.
Load ==
  /\ exec.pc = "loading"
  /\ exec' = [exec EXCEPT !.pc = "checking", !.seen = slot, !.overlooked = FALSE]
  /\ UNCHANGED <<slot, worker, device, givenUp>>

\* Defective variant, for mutation: the deadline decides, whatever was loaded.
OutcomeDeadlineFirst(e) ==
  CASE e.expired -> "NACK"
    [] ~e.expired /\ e.seen.kind = e.kind -> e.seen.type
    [] ~e.expired /\ e.seen.kind # e.kind -> "WAIT"

\* The loop of waitForAcknowledge() ends by the answer it waits for, or by the
\* deadline, which fails the call.
Outcome(e) ==
  CASE e.seen.kind = e.kind -> e.seen.type
    [] e.seen.kind # e.kind /\ e.expired -> "NACK"
    [] e.seen.kind # e.kind /\ ~e.expired -> "WAIT"

\* The clock is read after the slot, and decides on what was loaded.
Check ==
  /\ exec.pc = "checking"
  /\ LET outcome == Outcome(exec)
         done == [exec EXCEPT !.seen = Waiting]
     IN /\ exec' = IF outcome = "WAIT" THEN [done EXCEPT !.pc = "locking"]
                   ELSE [Return(done, outcome = "ACK") EXCEPT !.by = exec.seen.tag]
        /\ givenUp' = IF outcome # "WAIT" /\ exec.seen.kind # exec.kind
                        THEN givenUp \cup {exec.tag} ELSE givenUp
  /\ UNCHANGED <<slot, worker, device>>

ReadUnlocked == io.pc # "dispatching"

\* AsyncWorker::wait(): on read_condition_, under read_mutex_, for a whole
\* timeout however little of it is left.
Wait ==
  /\ exec.pc = "locking" /\ ReadUnlocked
  /\ exec' = [exec EXCEPT !.pc = "waiting"]
  /\ UNCHANGED <<slot, worker, device, givenUp>>

WaitEnds ==
  /\ exec.pc = "woken" /\ ReadUnlocked
  /\ exec' = [exec EXCEPT !.pc = "loading"]
  /\ UNCHANGED <<slot, worker, device, givenUp>>

\* CallbackHandlers::read(): the handler is inserted after the poll was sent,
\* and waited on after it was inserted.
Register ==
  /\ exec.pc = "registering"
  /\ exec' = [exec EXCEPT !.pc = "registered"]
  /\ UNCHANGED <<slot, worker, device, givenUp>>

AwaitMessage ==
  /\ exec.pc = "registered"
  /\ exec' = [exec EXCEPT !.pc = "reading"]
  /\ UNCHANGED <<slot, worker, device, givenUp>>

Unregister ==
  /\ exec.pc \in {"answered", "unanswered"}
  /\ exec' = Return(exec, exec.pc = "answered")
  /\ givenUp' = IF exec.pc = "answered" THEN givenUp ELSE givenUp \cup {exec.tag}
  /\ UNCHANGED <<slot, worker, device>>

\* The deadline of the call passes; a wait that began after it did does not
\* end before its own does.
Expire ==
  /\ exec.pc \in Blocked /\ ~exec.expired
  /\ exec' = [exec EXCEPT !.expired = TRUE]
  /\ UNCHANGED <<slot, worker, device, givenUp>>

\* A wait ends by its timeout.
WaitTimesOut ==
  /\ exec.expired
  /\ \/ exec.pc = "waiting" /\ exec' = [exec EXCEPT !.pc = "woken"]
     \/ exec.pc = "reading" /\ exec' = [exec EXCEPT !.pc = "unanswered"]
  /\ UNCHANGED <<slot, worker, device, givenUp>>

\* ~Gps(), ~AsyncWorker(): post doClose, join.
Close ==
  /\ exec.pc = "ready"
  /\ exec' = [exec EXCEPT !.pc = "joining"]
  /\ work' = [work EXCEPT !.close = TRUE]
  /\ UNCHANGED <<slot, out, io, stopping, device, givenUp>>

Join ==
  /\ exec.pc = "joining" /\ io.pc = "ended"
  /\ exec' = [exec EXCEPT !.pc = "closed"]
  /\ UNCHANGED <<slot, worker, device, givenUp>>

\* A new Gps on the same port, which may still hold what was in it.
Open ==
  /\ exec.pc = "closed"
  /\ exec' = [exec EXCEPT !.pc = "ready"]
  /\ slot' = Waiting
  /\ out' = <<>> /\ io' = Idle /\ work' = NewWork /\ stopping' = FALSE
  /\ fromDevice' \in {fromDevice, <<>>}
  /\ UNCHANGED <<toDevice, accepted, losses, strays, givenUp>>

-----------------------------------------------------------------------------
(* The I/O thread: io_service::run().                                      *)

\* Defective variant, for mutation: what was written stays in the buffer.
WrittenKept(q) == q

\* What a write leaves in the buffer.
Written(q) == <<>>

\* Everything in the buffer goes out; an error drops what has not gone by then.
DoWrite ==
  /\ io.pc = "idle" /\ work.write
  /\ work' = [work EXCEPT !.write = FALSE]
  /\ \/ toDevice' = toDevice \o out /\ UNCHANGED <<accepted, losses>>
     \/ /\ losses < MaxLosses /\ losses' = losses + 1
        /\ \E dropped \in 1..Len(out) :
             /\ toDevice' = toDevice \o SubSeq(out, 1, Len(out) - dropped)
             /\ accepted' = SubSeq(accepted, 1, Len(accepted) - dropped)
  /\ out' = Written(out)
  /\ UNCHANGED <<exec, slot, io, stopping, fromDevice, strays, givenUp>>

DoRead ==
  /\ io.pc = "idle" /\ work.read = "posted"
  /\ work' = [work EXCEPT !.read = "armed"]
  /\ UNCHANGED <<exec, slot, out, io, stopping, device, givenUp>>

\* readEnd(): some of what has arrived, to be dispatched message by message.  A
\* read that was done before the close may have brought no whole message.
ReadEnd ==
  /\ io.pc = "idle"
  /\ \E n \in 0..Len(fromDevice) :
       /\ \/ work.read = "armed" /\ ~stopping /\ n > 0
          \/ work.read = "done"
       /\ io' = [pc |-> "dispatching", frames |-> SubSeq(fromDevice, 1, n)]
       /\ fromDevice' = SubSeq(fromDevice, n + 1, Len(fromDevice))
  /\ work' = [work EXCEPT !.read = "none"]
  /\ UNCHANGED <<exec, slot, out, stopping, toDevice, accepted, losses, strays, givenUp>>

\* readEnd() with an error: the link failed, or the stream was closed.
ReadFails ==
  /\ io.pc = "idle" /\ work.read = "armed"
  /\ IF stopping
       THEN work' = [work EXCEPT !.read = "none"] /\ UNCHANGED losses
       ELSE /\ losses < MaxLosses /\ losses' = losses + 1
            /\ work' = [work EXCEPT !.read = "posted"]
  /\ UNCHANGED <<exec, slot, out, io, stopping, toDevice, fromDevice, accepted, strays, givenUp>>

\* processAck(), processNack(): whatever call it answers.
StoreAck(frame) ==
  /\ slot' = [type |-> frame.type, kind |-> frame.kind, tag |-> frame.tag]
  /\ exec' = IF frame.tag = exec.tag /\ exec.pc \in Blocked /\ ~exec.expired
               THEN [exec EXCEPT !.told = frame.type, !.overlooked = exec.pc = "checking"]
               ELSE exec

\* CallbackHandler_::handle(): wakes a reader that waits already.
HandOver(frame) ==
  /\ exec' = IF exec.pc = "reading" THEN [exec EXCEPT !.pc = "answered"] ELSE exec
  /\ UNCHANGED slot

\* CallbackHandlers::handle(), for the next message.
Dispatch ==
  /\ io.pc = "dispatching" /\ io.frames # <<>>
  /\ LET frame == Head(io.frames)
     IN CASE frame.type \in {"ACK", "NACK"} -> StoreAck(frame)
          [] frame.type = "answer"          -> HandOver(frame)
          [] frame.type = "stray"           -> UNCHANGED <<exec, slot>>
  /\ io' = [io EXCEPT !.frames = Tail(@)]
  /\ UNCHANGED <<out, work, stopping, device, givenUp>>

\* The end of readEnd(): whoever waits is notified, and the next read posted.
DispatchEnds ==
  /\ io.pc = "dispatching" /\ io.frames = <<>>
  /\ io' = Idle
  /\ work' = [work EXCEPT !.read = IF stopping THEN "none" ELSE "posted"]
  /\ exec' = IF exec.pc = "waiting" THEN [exec EXCEPT !.pc = "woken"] ELSE exec
  /\ UNCHANGED <<slot, out, stopping, device, givenUp>>

\* Defective variant, for mutation: the stream is closed, reading goes on.
StoppingNotSet == FALSE

StoppingSet == TRUE

\* doClose(), posted after every doWrite.  The readEnd of a read that is done by
\* now is queued behind it, that of a pending one gets the error of the close.
DoClose ==
  /\ io.pc = "idle" /\ work.close /\ ~work.write
  /\ work' \in {[work EXCEPT !.close = FALSE, !.read = r] :
                  r \in IF work.read = "armed" THEN {"armed", "done"} ELSE {work.read}}
  /\ stopping' = StoppingSet
  /\ UNCHANGED <<exec, slot, out, io, device, givenUp>>

\* run() returns when nothing is queued.
ThreadEnds ==
  /\ io.pc = "idle"
  /\ work.read = "none" /\ ~work.write /\ ~work.close
  /\ io' = [io EXCEPT !.pc = "ended"]
  /\ UNCHANGED <<exec, slot, out, work, stopping, device, givenUp>>

-----------------------------------------------------------------------------
(* The receiver, and what the link may lose.                               *)

\* A configuration message is acknowledged or not, a poll is answered, and a
\* reset is obeyed in silence.
Answer ==
  /\ toDevice # <<>>
  /\ LET m == Head(toDevice)
         types == CASE m.op = "configure" -> {"ACK", "NACK"}
                    [] m.op = "poll"      -> {"answer"}
                    [] m.op = "command"   -> {}
     IN fromDevice' \in
          IF types = {} THEN {fromDevice}
          ELSE {Append(fromDevice, [type |-> t, kind |-> m.kind, tag |-> m.tag]) : t \in types}
  /\ toDevice' = Tail(toDevice) /\ accepted' = Tail(accepted)
  /\ UNCHANGED <<exec, slot, worker, losses, strays, givenUp>>

\* A navigation message, sent at its rate.
Emit ==
  /\ strays < MaxStray
  /\ strays' = strays + 1
  /\ fromDevice' = Append(fromDevice, [type |-> "stray", kind |-> "none", tag |-> 0])
  /\ UNCHANGED <<exec, slot, worker, toDevice, accepted, losses, givenUp>>

\* The receiver, or the line, drops a message or an answer.
Lose ==
  /\ losses < MaxLosses
  /\ losses' = losses + 1
  /\ \/ /\ toDevice # <<>> /\ toDevice' = Tail(toDevice) /\ accepted' = Tail(accepted)
        /\ UNCHANGED fromDevice
     \/ /\ fromDevice # <<>> /\ fromDevice' = Tail(fromDevice)
        /\ UNCHANGED <<toDevice, accepted>>
  /\ UNCHANGED <<exec, slot, worker, strays, givenUp>>

Executor == Send \/ Load \/ Check \/ Wait \/ WaitEnds \/ Register \/ AwaitMessage
            \/ Unregister \/ Join \/ Open

IoThread == DoWrite \/ DoRead \/ ReadEnd \/ ReadFails \/ Dispatch \/ DispatchEnds
            \/ DoClose \/ ThreadEnds

Next ==
  \/ \E op \in Operations, kind \in Kinds \cup {"poll"} : Call(op, kind)
  \/ Executor
  \/ Close
  \/ Expire
  \/ WaitTimesOut
  \/ IoThread
  \/ Answer
  \/ Emit
  \/ Lose

Spec == Init /\ [][Next]_vars

\* Both threads run, deadlines pass and timed waits end.  The receiver owes
\* nothing.
Fairness ==
  /\ WF_vars(Executor)
  /\ WF_vars(IoThread)
  /\ WF_vars(Expire)
  /\ WF_vars(WaitTimesOut)

FairSpec == Spec /\ Fairness

-----------------------------------------------------------------------------
(* Properties.                                                             *)

Tags == 0..MaxCalls
AckTypes == {"ACK", "NACK", "WAIT"}
Messages == [op : Operations, kind : Kinds \cup {"poll"}, tag : Tags]
Frames == [type : {"ACK", "NACK", "answer", "stray"},
           kind : Kinds \cup {"poll", "none"}, tag : Tags]

Acks == [type : AckTypes, kind : Kinds \cup {"none"}, tag : Tags]

\* Every variable has its type (SentOnce gives accepted its own); the output buffer
\* never outgrows its capacity.
TypeOK ==
  /\ exec \in [pc : Blocked \cup {"ready", "sending", "joining", "closed"},
               op : Operations, kind : Kinds \cup {"poll", "none"}, tag : Tags,
               seen : Acks, expired : BOOLEAN, result : BOOLEAN,
               told : AckTypes, overlooked : BOOLEAN, by : Tags]
  /\ slot \in Acks
  /\ out \in Seq(Messages) /\ Len(out) <= Capacity
  /\ io \in [pc : {"idle", "dispatching", "ended"}, frames : Seq(Frames)]
  /\ work \in [read : {"posted", "armed", "done", "none"}, write : BOOLEAN, close : BOOLEAN]
  /\ stopping \in BOOLEAN
  /\ toDevice \in Seq(Messages) /\ fromDevice \in Seq(Frames)
  /\ losses \in 0..MaxLosses /\ strays \in 0..MaxStray
  /\ givenUp \subseteq Tags

Returned(op) == exec.pc = "ready" /\ exec.op = op

\* An answer that reaches the slot before the deadline is the result of the call,
\* however the notification races the wait; only one that comes after the slot was
\* last looked at, while the clock is read, may be overlooked.
AnswerCounts ==
  Returned("configure") /\ exec.told # "WAIT" /\ ~exec.overlooked =>
    exec.result = (exec.told = "ACK")

\* As long as no call has given up, a call that succeeds took its own
\* acknowledgement, and not one of an earlier call.
OwnAckUntilTimeout ==
  Returned("configure") /\ exec.result /\ givenUp = {} => exec.by = exec.tag

\* What send() took is on its way to the receiver, once and in its order, unless
\* an error or the line took it: neither a full buffer, nor a write that follows
\* another, nor the end of a Gps loses or repeats a message.
SentOnce == accepted = toDevice \o out

\* Every call returns, and so does the destructor: no thread waits for ever.
CallsReturn ==
  (exec.pc # "ready") ~> (exec.pc = "ready")
=============================================================================
