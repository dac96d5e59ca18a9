# A TLA+ model of the u-blox GNSS driver

This directory holds a verification project for the ROS 2 driver in this
repository: TLA+ modules translated from its source, TLC configurations that
check them on small instances, and theorems that TLAPS proves for every value
of their constants.  `PROJECT.json` is the index: components, runs, the source
lines behind each definition, hazards, findings and theorems.

## The system

One driver process runs per receiver (an F9P for position, an F9H for heading).
Each process has

- one **single-threaded executor**, which runs every ROS callback: timers,
  subscriptions, the lifecycle services, and the comms watchdog.  `recovery()`
  runs inline in the watchdog timer and blocks the executor while it sleeps;
- one **I/O thread** per open connection (`AsyncWorker`), which reads, frames
  and dispatches UBX messages and writes the output buffer;
- a **watcher thread** and a signal handler in `node_main.cpp`, which end
  `spin()` on a stop request.

The two processes share nothing but one GPIO line that resets both receivers.

### Inventory

| Component | State | Operations | Interacts with | What makes it correct |
|---|---|---|---|---|
| Lifecycle node (`node.cpp`) | lifecycle state, `gps_`, `components_`, timers, `fix_subscriber_` | `on_configure` .. `on_shutdown`, `fixCallback` | operator services, Gps, recovery | timers never outlive `gps_`; cleanup releases what configure made; configure is all or nothing |
| Watchdog and recovery ladder (`node.cpp`) | `monitoring_enabled_`, `recovery_pending_`, `recovery_stage_`, `recovery_attempts_`, `gpio_pulses_`, `next_recovery_time_`, `last_fix_time_` | `watchdogCheck`, `recovery`, `reopen`, `heartbeat` | every lifecycle callback, the reset line | armed exactly when active; never gives up, never undoes an operator; passes are paced; the cheaper rung first; a recoverable receiver comes back |
| Shared reset line (`resetGpioLine`) | who holds the line | look, request, assert, release | the other process, third parties | every pulse is waited out; one driver's pulses do not set off the other's; pulsing ends |
| Bring-up and teardown (`node_main.cpp`) | stop flag, `spin_finished`, exit code | bring-up, signal, watcher, `finalize` | executor, lifecycle | every exit reaches `finalize`; the join ends, and comes before the executor goes; only a second signal forces |
| Receiver link (`gps.cpp`, `gps.hpp`) | `worker_`, `configured_`, `ack_` | `configure`, `waitForAcknowledge`, `poll`, `read`, `reset`, `close` | executor thread, I/O thread | an acknowledgement is of the message it is taken for; no answer is lost |
| `AsyncWorker` | input and output buffer, `stopping_`, two mutexes | `send`, `doWrite`, `doRead`, `readEnd`, `doClose`, `wait` | both threads | bytes in order, none lost below capacity; no self-deadlock; the destructor's join ends |
| Message dispatch (`callback.hpp`) | multimap of handlers | `insert`, `handle`, `read`, `readCallback` | I/O thread, executor | no lost wakeup, remainder kept |
| Framing (`ublox_serialization`, `async_worker.hpp`, `callback.hpp`) | input buffer, reader position | `doRead`, `readEnd`, `search`, `found`, `next`, `read`, `Writer` | dispatch | split frames survive; a bad frame does not hide a good one; the buffer never stays full |
| Message codec (`ublox_msgs/serialization.hpp`) | the object a handler decodes into | `read`, `serializedLength`, `write` of each message | dispatch, configuration | a message is decoded as sent, inside its payload; lengths agree |
| Configuration of the receiver (`configureUblox` of node, firmware 8 and HPG reference product; `subscribe`) | `components_`, the receiver's own | a sequence of messages, each sent, acknowledged or not | link | a refused message leaves the receiver consistent |
| Survey-in (`hpg_ref_product.cpp`) | `mode_`, `gps_` of the product | `callbackNavSvIn`, `setTimeMode` | I/O thread, acknowledgements | a survey and its position survive reconfiguration; the switch to time mode completes |
| Other firmware and product interfaces | parameters | `configureUblox`, `subscribe` | link | sequences of messages, no state |
| Legacy `Watchdog` | | | | unused by the driver |

The behaviours that are hard: operator and recovery transitions in any order; a
pass that fails half way; a receiver that answers but does not stream, boots
slowly, or rejects its configuration; two processes that look at the line,
request it, sleep and reopen at each other's worst moments; blocking waits for
acknowledgements across two threads; frames cut anywhere by a read, behind
headers that announce bytes that never come; a configuration that is refused at
any of its thirty messages and begun again; a signal at any step of `main()`.

## Modules

| Module | What it is |
|---|---|
| `RecoveryLadder` | The bookkeeping of the ladder as operators on a record: `Backoff`, `Heartbeat`, `PulseOutcomes`, `SpendPulse`, `NextStage`, `EndPass`. Both state machines are built on it, so a change of the ladder changes both. |
| `RecoveryLadder_proofs` | What its operators do to the record: types, budget and backoff. |
| `UbloxNode` | One driver: lifecycle, watchdog, recovery. |
| `UbloxNode_proofs` | TLAPS proofs about `UbloxNode`. |
| `SharedResetLine` | Two drivers and the line, with a pass broken into its steps. |
| `SharedResetLine_proofs` | Proofs about `SharedResetLine`. |
| `ReceiverLink` | The executor's calls into `Gps`, the I/O thread of `AsyncWorker`, and the dispatch between them. |
| `ReceiverLink_proofs` | Proofs about `ReceiverLink`. |
| `UbxFrame` | The u-blox frame as pure operators: checksum, `Writer`, `Reader`. |
| `FrameDelivery` | Abstract: what the receive path promises to the handlers of a message. |
| `Framing` | The read loop, byte by byte, on `UbxFrame`; implements `FrameDelivery`. `MCFraming` has its lines. |
| `Framing_proofs` | Proofs about `UbxFrame` and `Framing`. |
| `MessageLayout` | The layout of every message type: what `read()`, `write()` and `serializedLength()` do with each part. Data, no behaviour. |
| `MessageCodec` | Encoding and decoding with those layouts, message after message into one object. `MCCodec` chooses the types. |
| `MessageCodec_proofs` | Proofs about `MessageCodec`, and about sums and concatenations of any length. |
| `ReceiverSetup` | A configuration message by message, its effect on the receiver, and the survey-in whose end is noticed on the I/O thread. `MCSetup` has the parameters. |
| `ReceiverSetup_proofs` | Proofs about `ReceiverSetup`. |
| `NodeMain` | The process: `main()`, signal handler, watcher thread, `finalize()`. |
| `NodeMain_proofs` | TLAPS proofs about `NodeMain`. |

Definitions named `...Keeping...`, `...Unbudgeted`, and marked *Defective
variant* are mutants: each replaces the definition below it, and the property
`PROJECT.json` names must then fail.  They are used by nothing else.

### UbloxNode

`node` is a record of the members of `UbloxNode`; `Constructed` is what the
constructor leaves.

| Model | Code |
|---|---|
| `lifecycle` | the state of `rclcpp_lifecycle` |
| `gps` | `gps_`: `"null"`, an object without a worker (`"closed"`), with one (`"open"`), with one whose descriptor is dead (`"stale"`) |
| `saves` | `Gps::save_on_shutdown_` |
| `subscribed` | `subscribe()` ran on this `gps_` |
| `components` | how many configurations `components_` holds |
| `timers` | `poller_` and, over UDP, `keep_alive_` (they live and die together) |
| `fixSubscriber` | `fix_subscriber_` |
| `monitoring`, `pending` | `monitoring_enabled_`, `recovery_pending_` |
| `fixAge` | now - `last_fix_time_`, saturating at the timeout |
| `stage`, `attempts`, `pulses` | `recovery_stage_`, `recovery_attempts_`, `gpio_pulses_` |
| `backoff` | `next_recovery_time_` - now |

The lifecycle callbacks are operators from such a record to the next, because
`reopen()` chains up to four of them within one timer callback.  Executor
callbacks do not interleave, so each is one action: `BringUp`, `FixCallback`,
`WatchdogCheck` (whole pass included), `Operator(command)`, and the world's
`Disturb`, `BootDone` and `Tick`.  An operator call made during a pass is
served after it, as on the executor.

`initialize()` is abstracted to its outcome: the port does not open, MON-VER is
not answered (both throw), the configuration is refused (which only skips the
rest), or all of it succeeds.  The receiver decides which, by its condition.
The attempts counter saturates at the bound of the shift, beyond which the code
reads no difference; `sincePass` and `mover` are history and guard nothing.

Left out: the heading subscription (it only logs); transition callbacks
that throw (their bodies hold nothing that does in normal operation); an
exception inside `recovery()`, which would skip the escalation but not the
pacing and the re-arm.

### SharedResetLine

The pass is broken where the peer can move: `HardwareRung` looks at the line
(`is_used`, `consumer`), `AssertLine` or `LoseRace` is the request and its
EBUSY, `ReleaseLine` ends the pulse after the first sleep, `WakeUp` the second
sleep, `Reopen` the rest.  Of the lifecycle only *active or not* is kept; the
receivers' behaviour is reduced to what a line reset does to them: streaming,
stuck until reset, dead, held, booting.  Connections may or may not survive a
pulse (USB or UART).  A third party may hold the line at first.

Time is discrete and punctual: `Tick` waits for whoever has something to do,
which is what makes "sleeps end on time" a modelling assumption: the unit is no
shorter than `watchdog.cycle_time_ms`, and code between sleeps takes none.
`settled` is history: how long ago the pulse a driver waits out ended.

### ReceiverLink

`exec` is the call the executor is in: `configure()` waiting for its
acknowledgement, a command that does not wait, or `poll()`.  `slot` is `ack_`,
`out` is `out_`, `work` what is queued at `io_service_` (a `doRead` posted or a
read armed, a `doWrite`, a `doClose`), `io` the thread that runs it.  The steps
of the executor are separated where the I/O thread can act: `Call` clears the
slot, `Send` queues, `Load` loads the slot, `Check` reads the clock and decides
on what was loaded, `Wait` and `WaitEnds` are the condition variable, `Register`, `AwaitMessage` and `Unregister` the temporary
handler of `read()`.  The I/O thread holds `read_mutex_` from `ReadEnd` to
`DispatchEnds`; the other critical sections are single steps.  `Expire` lets
the deadline of a call pass at any time.  A write that fails drops the rest of
the buffer, and a read that was done when the link was closed still runs its
`readEnd()`, behind `doClose()`.  Messages stand for their bytes, and carry the
number of the call that sent them as history; `accepted` is history too: what
`send()` took and neither an error nor the line took away again.

Left out: the survey-in callback, which calls `configure()` from the I/O thread
(`ReceiverSetup` has it); the raw data callback; spurious wakeups of the condition variables,
which `waitForAcknowledge()` tolerates; writes that block for ever.

### UbxFrame, FrameDelivery and Framing

A byte is a number below 256.  `UbxFrame` has the frame: `Header`, `Checksum`
and `Frame` as the `Writer` makes it, `Skipped`, `Found` and `Intact` as the
`Reader` looks for it.  `Framing` is the I/O thread on it: `DoRead` empties a
buffer without room, `ReadEnd` appends what a read transfers and makes a Reader,
`Search` is the loop condition of `readCallback()`, `Handle` the dispatch to the
handlers of the message, `FinishRead` the rest: NMEA sentences out of the bytes
skipped, the tail moved to the front of the buffer.  A stream may cut the bytes
anywhere; a datagram is read whole, cut to the room there is, or dropped by the
network.  `in`, `buf`, `found` and `extra` are `in_`, the Reader's range,
`found_` and `extra_data_`.

`FrameDelivery` is what the rest of the driver relies on: the frames sent are
handed over at most once, in order and unchanged, and a frame that is *sure* is
not lost.  `Framing!Pending` is the refinement mapping: the frames behind the
last one delivered.  It also says which are sure: those of a stream that fit
into the buffer and that no header damaged on the line reaches over.  A damaged
length field makes the Reader wait for what it announces, or for a full
buffer, and costs the frames in between; nothing more.

### MessageLayout and MessageCodec

`Layouts` gives for each message type the widths of the fields `stream.next()`
takes (`head`), those of an element of each repeated group, how `read()` knows
the number of elements (`sizing`: a count in the message, the rest of the
payload, the size the object happens to have, ...), what `serializedLength()`
declares (`base`, `units`), and the fields `read()` or `write()` pass over.  The
source writes all of these down independently of each other, and so does the
model.  In `MessageCodec` the receiver sends a message as its `.msg` file lays it
out (`Arrive`) and the handler decodes it into the object that held the one
before (`Read`), or the driver encodes one it composed (`Write`).  A byte is
named after where it belongs, so that a field read from the wrong place, or
left over, does not look right.  `Trailing` bytes are what a newer receiver
appends; payloads shorter than their layout, which an older one might send, and
for which `read()` would go on into what follows, are not sent.  What the sender
counts (`declared`) is apart from the elements it has: the length of CFG-GNSS is
taken from a field, its blocks from a vector, and firmware 7 can set the field to
one with the vector empty (`DeclaredCounts`).

### ReceiverSetup

One configuration is one walk through `NodeSteps`, `FirmwareSteps`, the steps of
the reference station's time mode, and `SubscribeSteps`: each message is sent,
perhaps taken by the receiver, and perhaps acknowledged, and a failure throws or
is only logged (`Tolerated`).  `components_` keeps the firmware and product of
earlier configurations (`on_cleanup` does not clear them), so `products` grows
and every one of them runs again; each has its own pointer to a `Gps`, which
keeps that connection and its I/O thread alive.  `NavSvIn` is the callback on
such a thread: if it configures through the very `Gps` it runs on, the thread
waits for itself (`stuck`), and whoever joins it hangs.

CFG-GNSS is a step of its own, `SendGnss`: once it is acknowledged the driver
cold starts the GNSS and opens the connection again.  It is sent if the receiver
does not agree with the parameters, and, with `extraSignals`, every time: the
signals of QZSS are compared as a whole and only ever added.

Assumed: `config_on_startup`; one firmware 8 and one HPG reference product per
configuration, which is what `addFirmwareInterface` and `addProductInterface`
make for such a receiver; a restart of the receiver returns it to factory
settings (its flash is not modelled); the cold start of the GNSS may or may not
end a survey in progress and discard its position (`ColdStarted`), and leaves the
rest of the configuration; two connections to the same port both receive, so the
stealing of bytes by a leftover thread on a serial port is not modelled.  The
messages that load and save the configuration have no effect on it.

### NodeMain

`main` is where `main()` is, `watcher` where the thread is.  The flags are
atomic, so each access is a step.  A transition of the node ends in any state
`rclcpp_lifecycle` allows for a callback that succeeds, fails or throws
(`Outcomes`); an operator may request any while the executor spins (`Command`).
Exceptions may leave the calls of bring-up (`Throw`), `spin()` (`SpinThrows`)
and the ladder of `finalize()` (`TearDownThrows`).  `rclcpp::ok()` is taken to
hold until `main()` ends: nothing but `main()` shuts the context down.

## What the runs check

| Run | Shows |
|---|---|
| `node_safety` | `TypeOK` (with budget and backoff ceiling), `TimersHaveReceiver`, `ArmedWhileActive`, `HardwareResetIsLastResort`, `NeverAbandoned`, `QuiescedStaysQuiet`, `PassesArePaced`, `OnlyDataRelaxes`, over all interleavings of operator calls, three disturbances and recovery |
| `node_liveness` | `EventuallyStreams`: once the receiver stays up the node streams, slow boots included. `LadderCuresFault`: from a fresh ladder each fault is cured by some rung |
| `node_stale_retry` | *violated:* a retry armed before an operator brought the node up takes it down again |
| `line_recovery` | with timings that leave the boot room to end before the watchdog fires: budgets hold per process (`TypeOK`), each pulse seen is waited out plus the boot interval (`PulseWaitedOut`), a healthy driver answers its peer's pulses with reopens only (`NoEcho`), `LineLeftAlone`, `LivingRecover` |
| `line_turns` | *violated:* with the shipped timings and a receiver that boots in two seconds, two healthy drivers reset each other forever |
| `link_calls` | an answer in the slot before the deadline and before the last look at the slot is the result of its call (`AnswerCounts`), nobody takes another call's answer before a timeout (`OwnAckUntilTimeout`), what `send()` took is with the receiver or on its way, once and in order, whatever is queued behind it and whenever the link is closed (`SentOnce`), every call and the destructor return (`CallsReturn`) |
| `framing` | `Framing` implements `FrameDelivery` (`DeliversFrames`) however the bytes fall into reads; a read always has room (`RoomToRead`); NMEA sentences may be lost but never joined from halves (`SentencesAsSent`) |
| `codec_types` | for every type with a serializer but nine: decoding into a used object gives the message sent (`DecodedAsSent`), reading nothing behind its payload (`ReadsInsidePayload`); what the driver encodes is every field it writes, and nothing else if its count is right (`EncodedAsDocumented`), and stays in its buffer (`WritesInsideBuffer`) |
| `setup_modes` | after a configuration that was not refused every product's mode is the receiver's, until that restarts, and, with several products, if no cold start comes between them (`ModesAgree`); earlier configurations keep at most one old connection open (`OneConnectionLeftOver`); unless every start resets the survey, or cold starts the receiver, RTCM output is enabled only with a position (`CorrectionsHavePosition`); with `sv_in.reset` off, and a receiver that agrees on constellations and signals, no configuration discards a survey or its position (`SurveyKept`) |
| `setup_survey` | *violated:* the end of a survey locks up the thread that notices it |
| `setup_cold` | *violated:* with more QZSS signals set than the parameters ask for, a configuration cold starts the receiver in the middle of a survey |
| `process` | the watcher is over before what it refers to is (`WatcherInScope`), an exit leaves the node finalized (`FinalizedAtExit`), success was asked for (`CleanExitWasAsked`), only a second signal forces (`ForcedBySecondSignal`), a stop during bring-up keeps the node from operation (`EarlyStopHonoured`), and the process ends once it is stopped or something threw (`EndsOnceStopped`) |

The violated runs are disagreements between the code and a sentence of its
documentation, comments or tests; `PROJECT.json` quotes both sides.  They are
behaviours, not judgements: `line_turns`, say, depends on the boot time of the
receiver, and what it shows is that the pulse budget alone does not prevent it;
`setup_cold` on what a cold start leaves of a survey.

### Bounds

- `node_safety`: budget 2, so it can be half spent, spent and refused; backoff
  ceiling 5 above a base of 1 with at most 3 doublings (1, 2, 4, 5), so that
  the cap and the saturation are both reached; watchdog timeout 2; a streaming
  receiver may be silent for as long as the timeout (`MaxFixGap` 2), which
  makes spurious passes possible; 3 disturbances (a fault in a fault in a
  recovery); `components_` saturates at 2, which tells one set from a second.
- `node_liveness`: no operator, since one may deactivate for good; `MaxFixGap` 1,
  below the timeout: a receiver whose stream is slower than the watchdog never
  settles, and no code could make it.
- `SharedResetLine`: two drivers, as deployed, and the shipped budget of 3 pulses
  and base interval of 1.  `line_turns` has the shipped times in seconds: reset 1,
  watchdog timeout 3, a boot of 2.  `line_recovery` has a reset of 2, boots of 1 or
  2 and a watchdog timeout of 5, which a pulse followed by the slowest boot does
  not exhaust: that difference is what decides between taking turns and recovering.
  Ceilings of 8 and 10 instead of 60, with 3 doublings, reach the capped state the
  sooner; one fault per driver.
- `link_calls`: an output buffer of two messages and three calls, so that one is
  appended behind another and a third finds the buffer full; two calls are what
  one answer taken for another needs; one loss, which may be a failing write or
  read, and one unasked message, to wake a waiter for nothing.  The calls are of
  one kind, which is when an answer can be taken for another; one of a different
  kind would only wake its waiter.  The proofs are for any kinds.
- `framing`: a buffer of 20 bytes, which holds two short frames and so fills
  with a whole frame behind a damaged header; six lines with sync bytes inside
  payloads, a damaged checksum, a frame cut short, a length field of 8192, a
  frame longer than the buffer, and sentences and noise between; every way of
  cutting them into reads; one failing read.
- `codec_types`: repeated blocks of 0, 1, 2 and 5 elements, so that a vector
  both grows and shrinks between two messages; 0, 1 or 3 bytes appended; a
  writer buffer of 50 bytes, which some messages do not fit.
- `setup_modes`: three configurations, so that there are two earlier products to
  run again; two failures, so that the retry may fail too; one restart; every
  time mode, one of them with every step, and one with further signals.  `setup_cold`
  needs two configurations: one to begin the survey, one to cold start it.
- `process`: two signals, since a third can only be one to a dead process; three
  commands, which reach every state and a failing transition out of it; two
  exceptions, one while up and one in the teardown.

### Fairness

`Fairness` is weak on what the executor runs (callbacks, timers), on time, on a
booting receiver coming up and, in `SharedResetLine`, on the third party letting
go of the line.  In `ReceiverLink` it is on both threads, on deadlines and on timed
waits; the receiver owes no answer.  In `Framing` it is on the I/O thread and on
what the receiver sent arriving; in `ReceiverSetup` on the executor, the I/O
threads and the survey's end; in `NodeMain` on both threads, whose callbacks
return.  Weak fairness suffices for the executor: a timer that is due
stays due until it runs, as nothing but running it or the arrival of data changes
that.  Nothing obliges an operator, a fault or a disturbance.

The configurations of `UbloxNode` and `NodeMain` say `CHECK_DEADLOCK FALSE`
because the process may end, those of `Framing`, `MessageCodec` and
`ReceiverSetup` because the receiver may have nothing more to send, or the
bounds nothing more to configure.  `SharedResetLine` and `ReceiverLink` never
stop and are checked for deadlock.

## Divergences

Four runs find the code in disagreement with a sentence of its documentation,
comments or message definitions (`findings` of `PROJECT.json`).  The following
came up while modelling.  The models have the behaviour, and no run states it:

- *Refused configuration.*  `initialize()` (`node.cpp:1015`) skips subscriptions
  and timers when `configureUblox()` returns false, and `on_configure` succeeds
  all the same.  `test/lifecycle_test.cpp:43`: "a failed configure must leave the
  node UNCONFIGURED, not partially up".  (`ReceiverSetup!Refused`.)
- *Cleanup.*  `on_cleanup` (`node.cpp:1181`) never clears `components_`.  The
  README, line 425: "on_cleanup: Releases all resources, including timers,
  publishers, and the GNSS/GPS objects."  (`UbloxNode`'s `components`,
  `ReceiverSetup`'s `products`.)
- *`save_on_shutdown`.*  The reopen rung destroys `Gps`, whose `close()`
  (`gps.cpp:296`) then stops the GNSS engine; the log of `recovery()`
  (`node.cpp:1353`) and the README, line 447, have it that "the receiver is left
  untouched".
- *Overlapping pulses.*  A driver that sleeps after its pulse has released the
  line; the peer may pulse it again, and the first then reopens while its receiver is
  held (`node.cpp:1378`), against the comment at 1371: "Wait out the reset before
  reopening, or on_configure would reach for a port whose device is still held
  down."
- *Late acknowledgement.*  The slot keeps class and id only, so after a timeout
  the late acknowledgement is taken by the next call of its kind (`gps.cpp:623`);
  `gps.hpp:421` has "true if expected ACK received, false otherwise".
  `OwnAckUntilTimeout` is what does hold.
- *Overlooked acknowledgement.*  `waitForAcknowledge()` loads the slot and reads the
  clock afterwards (`gps.cpp:621` and 622): an acknowledgement stored between the
  two, before a deadline that passes before the second, is in the slot when the
  call returns false.  `gps.hpp:417` has "Wait for an acknowledge message until the
  timeout".  (`ReceiverLink!Check`; `AnswerCounts` holds but for this case.)
- *Count of CFG-GNSS.*  Firmware 7 sets `num_config_blocks` to one
  (`ublox_firmware7.cpp:122`) and appends the block only if GLONASS is supported.
  Without it lines 149 and 164 store to `blocks[0]` of an empty vector, which is
  undefined and usually ends the process; where it does not, twelve bytes are
  declared and four written, and eight that nobody wrote go out.  `serialization.hpp:361`
  has "CfgGNSS num_config_blocks must equal blocks size", commented out in a check that
  does nothing.  (`MessageCodec!DeclaredCounts`; `EncodedAsDocumented` has what holds
  all the same.)
- *Almanac words.*  `read()` of `AidALM`, `AidEPH`, `RxmALM` and `RxmEPH`
  (`ublox_msgs/serialization.hpp:82`) resizes the words to eight and appends the
  eight of the message: there are sixteen, the first eight zero.  `AidALM.msg:9`
  has "DWORD0 to DWORD7 contain the 8 words following the Hand-Over Word ( HOW )".
  (`MessageCodec!Padding`.)
- *First signal.*  The guard of the watcher sets the stop flag itself: after an
  exception out of `spin()` the first signal already kills, where the comment at
  `node_main.cpp:43` has "the first signal requests a graceful stop; a second
  forces an immediate exit".  `ForcedBySecondSignal` states both cases.
- *Survey rate.*  A configuration that finds a survey in progress has already set the
  user's rate, while the README, line 289, has the rate at 1 Hz during survey-in.
- *Layouts.*  `AidHUI` neither reads nor writes two fields, and declares 72 bytes for the 68 it writes;
  `MonSYS` declares 24 for 25; `EsfMEAS` declares 4 + 8n + 4c bytes
  for the 8 + 4n + 4c it has;
  `CfgVALSET` and `CfgVALDEL` are never sized from the payload when read.  With
  the four types above these are the nine types `codec_types` leaves
  out.  `CfgANT`, `CfgHNR`, `CfgUSB`, `MgaGAL`, `MonGNSS`, `NavDOP`, `NavTIMEUTC`
  and `NavVELECEF` are declared and have no serializer.
- *NMEA.*  A sentence split over two reads is lost, which nothing forbids.

## What is proved

`UbloxNode_proofs` proves, for every timeout, interval, ceiling, budget, set of
line outcomes and commands, and any number of disturbances, all eight
properties of `node_safety`: `TypeCorrect`, `TimersAlwaysHaveReceiver`,
`AlwaysArmedWhileActive`, `HardwareResetAlwaysLast`, `NodeNeverAbandoned`,
`OperatorQuiesceSticks`, `PassesAlwaysPaced`, `OnlyDataEverRelaxes`.

Assumptions: `LadderAssumption`, which is what `getRosParams()` enforces (base
interval positive, ceiling at least the base, budget not negative) plus a
doubling bound of at most 16, the code's `kMaxBackoffShift`; and
`NodeAssumption`, which types the rest.

The properties are not inductive one by one.  The invariant `NodeInv` adds

- `BringUpFirst`: before the executor spins the node is as constructed, so no
  pass precedes the history the other parts talk about;
- `BackoffCovered`: while passes have been counted, the time since the last
  plus the backoff still to go makes up the whole backoff that pass set. Pacing
  follows, as a pass starts only at `backoff = 0`.  `BackoffMonotone` is
  needed where the attempts counter saturates.

The proof has one lemma per lifecycle callback (`...KeepsShape`), one for
`reopen()`'s chain of them, one for a whole pass (`RecoveryPass`), and one per
action (`...Keeps`), joined in `StepKeeps`.

`NodeMain_proofs` proves, for any number of signals, commands and exceptions,
`TypeCorrect` and the five safety properties of `process`:
`WatcherStaysInScope`, `AlwaysFinalizedAtExit`, `CleanExitAlwaysAsked`,
`OnlySecondSignalForces`, `EarlyStopAlwaysHonoured`.  Its only assumption is that
the bounds are natural numbers.  The invariant `IInv` says with `BringUpShape`
and `TeardownShape` what the place of `main()` tells of the node; with
`EarlyStop` that a stop before activation keeps `main()` out of the steps
behind it; and with `StopWasAsked` and `EndWasAsked` that until the guard sets it
too the stop flag stands for a signal, which is why a spin that ends, and the
guard that follows, mean that somebody asked or that something threw.  The only
arithmetic is the count of recorded exceptions (`RecordStaysBounded`).  There is
one lemma per phase with one case per action.

`SharedResetLine_proofs` proves, for every set of drivers, every reset, boot
and watchdog time and any number of faults, `TypeCorrect`,
`PulseAlwaysWaitedOut` and `LineDrivenByItsHolder`.  It assumes
`LineAssumption`, which types the constants, and the ladder's.  The invariant
says of each driver what its place in the pass means (`Shape`): one that
requests or drives has budget left, and of one that waits (`WaitsOut`) that as
long as the pulse it waits for goes on its sleep outlasts the pulse by a boot
interval, and that afterwards what is left of the sleep and what has passed
since make up that interval.  This ties a driver to its peer: the sleep of one
is bounded below by the sleep of the other.  `RecoveryLadder_proofs` has what
this proof and that of `UbloxNode` use of the ladder.

`PulsesNeverEcho` proves `NoEcho`, the property that `line_turns` violates, under
the condition on the timings that tells the two apart, `PulsesSpaced`:

- there are at most two drivers;
- `MaxFixGap + ResetTime + b <= WatchdogTimeout` for every boot time b: a receiver
  that was reset streams again before its driver's watchdog fires;
- `WatchdogTimeout + MaxFixGap < ResetTime + CycleTime + Quiet`, where `Quiet` is
  the least time between two pulses of one driver (the backoff of its third pass,
  or a climb from the first rung): a pulse comes only after the one before it has
  been got over, by a reopen where the port was lost.

The constants of `line_recovery` satisfy it (1 + 2 + 2 <= 5 and 5 + 1 < 2 + 1 + 4),
and those of `line_turns` do not (1 + 1 + 2 > 3).  With the shipped parameters
(`reset_time_s` 1, `cycle_time_s` 1, `timeout_ms` 3000, `backoff_max` 60) `Quiet` is
4 s and the last condition holds; the one before it asks of the receiver that
its boot time and the longest gap between two fixes make up no more than 2 s.  With
`node.cpp`'s default `timeout_ms` of 1000 the reset alone uses up the timeout, and
no receiver satisfies it.  The invariant, `EchoInv`, says of each driver whose
receiver had no fault of its own that it is `Calm` (its receiver streams, and it is
on the first rung), `Hit` (its receiver is held or boots, and will be up before the
watchdog fires), `Returning` (its port was lost and it reopens), or `Back` (it has
reopened, and data comes before the next rung).  All but the first say with `Clear`
that there is time enough until the peer's next pulse, against `NextPulse`, a lower
bound computed from the rung the peer is on.  A driver that only reacts thus never gets to the hardware rung.

`ReceiverLink_proofs` proves, for any capacity, any number of calls, losses and
unasked messages and any kinds, all safety properties of `link_calls`:
`TypeCorrect`, `AnswerAlwaysCounts`, `OwnAckAlwaysUntilTimeout`,
`AlwaysSentOnce`.  A message or its answer
is in one of four queues (the output buffer, on its way out, on its way back,
read and not yet dispatched), and `QueueInv` says that their numbers rise along
all four and that the slot's is below them; that, until a call gives up, only
the call that waits has anything under way that is acknowledged (`Sendable`,
`Receivable`).  `CallInv` says what the executor's place means for the slot:
what a call was told is in the slot until the call has looked (`ToldIsKept`),
which is why no wakeup is lost, and in what it loaded unless it was told after
that (`SeenShape`); and the slot is the call's own (`SlotIsOwn`).  For
`AlwaysSentOnce` the invariant adds `ThreadKept`: whatever is in the buffer has a
`doWrite` queued for it, and the thread ends only with nothing queued, so the
buffer is empty when the Gps that owns it goes.
It assumes `LinkAssumption`: the buffer holds something, the bounds are numbers.

`ReceiverSetup_proofs` proves, for any parameters and any number of
configurations, failures and restarts, `TypeCorrect` and the four properties of
`setup_modes`: `ModesAlwaysAgree`, `OneLeftOverAtMost`,
`CorrectionsAlwaysHavePosition`, `SurveyAlwaysKept`.  It assumes
`SetupAssumption`, the parameters' types.  `PathInv` says where a configuration
can be under its parameters; `PointersInv` that at most one `Gps` besides the
node's own is pointed to by any product; `DoneInv` that the products this
configuration is done with agree with the receiver, unless that restarted or a
product still points to a thread that waits for itself (`LeftWaiting`), in which
case the configuration hangs before it can claim otherwise, or a later product's
cold start may have come between (`Unsettled`).  `GnssInv` says when CFG-GNSS, and
the cold start with it, can still be sent: until a component is past it the
receiver has neither a survey nor a position to lose, and once it has the
constellations of the parameters, and no further signals, the step is skipped.

`Framing_proofs` proves, for any lines, capacity, number of failing reads and
any way of cutting a line, `TypeCorrect`, `AlwaysRoomToRead`,
`FramesLieInsideTheBuffer` and `AlwaysDeliveredInPlace`.  The last is what a
handler may count on over a stream: what it is given is on the line as sent,
byte for byte and checksum included, in order, none twice and no two sharing a
byte; no frame is ever put together from pieces that were not next to each
other.  `StreamInv` carries it: what is held is always the end of what has been
read, so whatever is found lies where it lay on the line, and behind everything
handed over before.  `FramingAssumption` has the buffer hold at least the
wrapper of a frame.  That `Skipped` stops at the first place that can start a
frame is proved by a least counterexample.

More holds of a *clean* line (`Clean`): nothing between its frames looks like the
start of one (`Silent`), no frame is cut, and frames, damaged ones included, have
the length their header says and fit the buffer (`WellFramed`).

- `NothingEverLost`: over a stream, once all has been read, exactly the frames
  that a handler waits for have been handed over, in order.
- `ImplementsFrameDelivery`: if, besides, no two frames are the same
  (`FramesDiffer`, which `Pending` needs to know where it stands), every step of the
  read loop is a step of `FrameDelivery` or none of its business.
- `DatagramsImplementFrameDelivery`: the same over datagrams, of which the network
  may drop any, where the pieces are shorter than the buffer (`Small`).
- `SentencesAlwaysAsSent`: `SentencesAsSent` over a stream, if `'$'` and newline
  only begin and end sentences between the frames (`Spoken`).

The argument for streams is `CleanInv`: where the reader stands on the line is
between two pieces or inside what is no frame, what has been handed over are
the frames before that place, and a buffer that waits for more holds part of one
frame, so it is never full and `DoRead` never empties it (`Waits`).  `SpeechInv` adds
that what the Reader has skipped is, place by place, the line without its frames,
and that the sentences were cut out of a beginning of that; since `handle_nmea()` only
cuts from a `'$'` to the next newline, they are whole.  For datagrams `GramInv` says
that between two reads at most one byte is kept, a first sync byte, so each read
searches one datagram, and that the last frame handed over is among those sent so
far: what a lost datagram takes along was never sure.

TLC evaluates these hypotheses for the lines of `framing` (`CleanLines` in
`MCFraming`): three of the six have all of them.  The other three have cut
headers, a length of 8192 and a frame longer than the buffer, and there the
properties are checked and not proved.

That clean lines are those the receiver sends when nothing is damaged is
`WrittenIsRead`: for any class, id and payload of less than 65536 bytes, and
whatever follows in the buffer, the Reader finds the Writer's frame where it
starts, takes it as intact, gets back class, id and payload, and goes on
right behind it.  `WrittenIsWellFramed` concludes that such a frame is as `Clean` has it.

`MessageCodec_proofs` proves, for any number of elements in a group, of messages,
of bytes appended and any size of the buffer, the four properties of
`codec_types`: `AlwaysDecodedAsSent`, `AlwaysReadsInsidePayload`,
`AlwaysEncodedAsDocumented`, `AlwaysWritesInsideBuffer`.  They suppose of the
layouts that their lengths agree: `ReadAsSent` for what handlers decode (nothing
passed over, at most one repeated group, and where the elements are counted by
the rest of the payload, `base` and `units` are the widths of head and element
and the count does not wrap) and `DeclaredAsWritten` for what is encoded (`base`
and `units` are the widths of what is written).  These are conditions on the
table alone, and `MCCodec` has TLC evaluate them for every type of the run
(`FaithfulTypes`); the nine types left out of the run are those for which they,
or the properties, fail.  So TLC answers for the finite table and the proof for
the unbounded messages.  The argument is where a byte lies: `TotalOfSums` and
`FlattenSteps` unfold the model's folds into running sums and concatenations,
`FieldsLaid`, `ElementsLaid` and `LaidPlaces` say at which place of the payload
byte b of field f of element e is, and `HeadRead` and `GroupsRead` that `read()`
looks there.  Where the sender counts an element it does not have the fields
written are still all sent, in front of what nobody wrote (`WrittenOut`), and a
right count leaves nothing behind them (`CountedRight`).  The invariant adds `OnItsWay`: what has arrived is a message laid out,
with what may follow it.

The provers cannot use the induction theorems of the library, whose parameter is
an operator.  Where a recursive definition has to be unfolded (`FlattenSeq`,
`FoldLeft`, `Skipped`), the proofs take the least place at which the claim would
fail (`LeastNat`, from the well-foundedness of < on the naturals) and refute it.

## What is only model-checked

- *Liveness under fairness* (`EventuallyStreams`, `LadderCuresFault`,
  `LineLeftAlone`, `LivingRecover`, `CallsReturn`, `EndsOnceStopped`, the liveness
  half of `DeliversFrames`) is beyond the prover.
- `NoEcho` for timings that are not `PulsesSpaced`: it is false for some of them
  (`line_turns`), and the condition is sufficient, not known to be necessary.
- `DeliversFrames` and `SentencesAsSent` for lines that are not clean.  Noise that
  happens to spell a frame makes the first false; what a damaged header may reach
  over (`Sure`) is checked on the lines of `framing`.  Without any assumption on the
  line `AlwaysDeliveredInPlace` holds.
- `SentencesAsSent` over datagrams, where it would have to be known which sentence
  each datagram held.
- The contents of `Layouts`: TLC evaluates the conditions the codec proofs suppose.

## Not modelled

- The baud rate ladder of `initializeSerial`, the connection parameters of
  `Gps::reset` (it opens a UDP connection again as TCP, and without the raw data
  callback), the raw data callback and UDP's throwing write: nothing the
  properties above could see hangs on them but what `PROJECT.json` notes.
- Firmware 6, 7 and 9 and the other products: sequences of messages like those
  of `ReceiverSetup`, and translations of messages, without state of their own.
- Diagnostics, raw data logging, RTCM and INF forwarding: output only.
- GNSS names and the UTC conversion: pure functions; `mkgmtime` is a candidate
  for a bounded check.
- Launch files and scripts; the legacy `Watchdog` class, which the driver does
  not use.

## Plan

Done: the node, its ladder and the shared line; the link; framing with its abstract
specification; the message codec; configuration and survey-in; the process; proofs
of every safety property of `node_safety`, `process`, `link_calls`,
`setup_modes` and `codec_types`, of the waiting on the shared line and the
condition under which pulses do not echo, of what handlers are given over a stream,
of the safety half of the refinement of `FrameDelivery` on clean lines, and of the
round trip of a frame.  Left, most important first:

1. The refinement on lines with damaged headers, where `Sure` says which frames
   survive; sentences over datagrams.
2. An abstract call (it answers truthfully or times out), and `ReceiverLink` shown
   to implement it up to the first timeout.
3. The connection parameters of `Gps::reset`, the other firmware generations, and
   payloads shorter than their layout.
