# TLA+ verification of Gopper

Gopper is the firmware half of a 3D-printer controller: a Klipper-protocol MCU
written in Go for TinyGo (RP2040, RP2350). A host computer sends commands in
sequenced, checksummed frames over USB; the firmware acknowledges them, keeps
timers, and drives steppers, endstops, digital outputs, PWM and ADC inputs
from one shared timer list. This directory holds TLA+ models of that firmware,
the TLC runs that check them on small instances and the TLAPS proofs about
them. Paths below are relative to `src/`.

## How the firmware runs

Everything is one thread. `targets/rp2040/main.go:142-218` (and
`targets/rp2350/main.go:222-309`) is an endless loop: read the clock, read one
byte from USB into a FIFO, let the transport consume whole frames and run the
command handlers in them, write the output buffer to USB, perform a pending
reset, dispatch due timers, run the analog-in task. Disabling interrupts only
keeps the USB interrupt away. The difficulties are therefore not data races
but *order*: a command that arrives between two timer events of the object it
changes, a timer that is already linked when it is scheduled again, a
retransmitted frame, a clock that wraps, a clock that stands still while
timers run.

## Inventory

| Component | Source | State | Operations | What is hard | What makes it correct |
|---|---|---|---|---|---|
| Timer scheduler | `core/scheduler.go`, `core/timer*.go` | head pointer, `Timer.Next`, `WakeTime`, `currentTime` | `ScheduleTimer`, `TimerDispatch`, `ProcessTimers` | wrap-around order, relinking a linked timer, dispatch that never returns, timer-in-past | one acyclic sorted list; no timer early or out of order, and lost only to a stop or a shutdown; due timers run |
| Protocol transport | `protocol/transport.go` | synchronized flag, expected sequence number | `Receive`, `parseFrame`, `encodeAckNak`, `EncodeFrame`, `Reset` | damaged, resent, late frames; host restart by sequence number; ACK and NAK are one message | commands run in order, once; an acknowledgement covers only what ran; the link recovers |
| Protocol buffers | `protocol/buffers.go` | ring of 256 bytes with two indices; scratch output of 512 bytes | `Write`, `Read`, `Data`, `Pop`, `Reset`; `Output`, `Update`, `DataSince` | wrap-around, full against empty, silent truncation | a bounded first-in first-out queue |
| VLQ, CRC | `protocol/vlq.go`, `protocol/crc16.go` | none | encode, decode | sign and width boundaries, short input | decode inverts encode |
| Stepper | `core/stepper.go`, `core/stepper_commands.go` | ring of moves, current move, position, step timer | `queue_step`, `set_next_step_dir`, `reset_step_clock`, `stepper_get_position`, `stepper_stop_on_trigger`, step event | `uint16` count-down, unsigned acceleration, ring slots read behind the head, relinking | the accepted moves' steps, in order, spaced, counted; never stalled |
| Stepper backends | `targets/pio`, `targets/rp2350/stepper_gpio.go` | PIO state machines | `Step`, `SetDirection`, `Stop` | allocation | one state machine per stepper |
| Trigger sync | `core/trsync.go` | can-trigger flag, reason, signal list, report and expire timers | `trsync_start`, `trsync_set_timeout`, `trsync_trigger`, two handlers | three parties race to trigger; state left by the session before | first trigger wins, its callbacks called once, host told |
| Endstops | `core/endstop.go`, `endstop_analog.go`, `endstop_i2c.go` | homing flag, sample count, timer | home, query, two handlers | bouncing pin, cancelled timers, failing reads | triggers after N samples in a row, and then reports |
| Digital outputs | `core/gpio.go` | flags, durations, end time, timer | queue, update, set cycle, three handlers, shutdown | flags changed at once but pin later; PWM against maximum duration against shutdown | the levels of a pulsed pin last their share, no pin is away from its default past its maximum duration, shutdown holds |
| Hardware PWM | `core/pwm.go` | value, flag, end time, timer | queue, set, two handlers, shutdown | as above | as above |
| Analog inputs | `core/adc.go` | sampling state, sums, timer, wake flag | query, sampling handler, reporting task, shutdown | handler and task change one state; shutdown from inside the handler | every cycle reported; range violation shuts down; a stopped input takes no sample |
| Firmware state | `core/commands.go` | shutdown flag, configuration number, pending reset | get/finalize config, emergency stop, clear shutdown, reset | shutdown in the middle of anything | a shut-down machine stays shut down |
| Command registry, dictionary | `core/command.go`, `core/dictionary.go` | maps filled at start, cached text | register, dispatch, identify chunks | chunk boundaries | the host reassembles the dictionary |
| Driver registry | `core/driver_registry.go`, `core/driver_commands.go` | drivers by OID and name, poll timers | register, poll, stop, unregister | timers cancelled by clearing `Next`, failing close | one poll per period; none after stop |
| SPI, I2C | `core/spi.go`, `core/i2c.go`, drivers | configuration, ready flag | configure, transfer, shutdown | errors that shut down | none run after a shutdown |
| Main loops, USB | `targets/rp2040`, `targets/rp2350` | failure count, disconnected flag | the loop, `writeUSB` | partial writes, reconnection, recovered panics | bytes reach the host once |
| Debug, compression, UI, tests | `core/debug.go`, `tinycompress`, `ui`, `test`, `examples` | | | | outside the models |

The components meet in two places. Every component with timers shares the one
list of `core/scheduler.go`, whose nodes are embedded in the components and
which has no operation that removes a timer: what a component writes into
its own `Timer.Next` changes what happens to its neighbours. And every command
arrives through `Transport.Receive`, between two dispatches. A trigger sync
calls into steppers by callback; a shutdown calls into everything.

## Plan

1. *Scheduler*: `TimerList`, `TimerQueue`, `Scheduler` and the proofs. Done.
2. *Link*: `Transport`; `FifoBuffer`, `ByteQueue` and the proofs. Done.
3. *Components on the scheduler*: `Dispatch`, then `Stepper` with `StepPlan`,
   `Homing` (trigger sync and endstop), `DigitalOut`. Done.
4. *More components*: `AnalogIn`, `HardwarePWM`, `AnalogEndstop`, `I2CEndstop`,
   `DriverRegistry`. Done.
5. *Composition*: `Firmware`, which puts them and `DigitalOut` on one timer list
   and shuts them down. Done.
6. *Session*: the main loop with USB, output buffer, dictionary, configuration
   and reset, against a host that fetches, configures and restarts. Done.
7. Proofs of the components: `Transport`, `Homing`, `DigitalOut`, `Stepper` with its
   refinement of `StepPlan`, `Firmware`, `Session`. Done.
8. `HomingMachine`: `Homing` composed with `Stepper` through the signals, in
   place of the history `calls`.
9. `Vlq` against a reference definition on a narrow word.

## The modules

`TimerList` is the intrusive list: `Lists` is the head and all `Next` pointers,
`InsertTimer` and `PopHead` are what `insertTimer` and `TimerDispatch` assign.
Insertion walks the pointers; the place it stops is found with sets closed
under `Next` (`WalkClosed`, `Walked`), which needs no recursion and says when
the walk never ends (`InsertHangs`). The clock has `2 * HalfRange` values and
wraps; `SignedDiff` is the `int32` of a `uint32` difference. Clearing `Next` "cancels"
a timer in the code: `Cut` does that, and `Reached` is what a walk from the head then
comes to. What was cut off keeps its stale pointers, which are in `Lists` and no
longer on the list.

`Scheduler` is `core/scheduler.go` step by step: `ScheduleTimer` from a command,
`ProcessTimers`, the pop (`RunHandler`, `TimerInPast`), the handler's return
(`HandlerDone`, `HandlerReschedule`), `DispatchReturn`. `phase` says whether the
code is in the loop, in the dispatch or in a handler. `HardwareClock` selects
the RP2350, whose clock goes on during a dispatch, or the RP2040, which caches
it once per loop. A shutdown stops the timers in `Stoppable`, those of analog inputs
and digital outputs, and so cuts off what hangs behind them: after `TimerInPast`,
which pops the late timer and abandons the dispatch, in a handler or for a
failed transfer (`TryShutdown`), and by command (`EmergencyStop`). `StopTimer` is the
same done to one timer by a command that stops its component. Clients are
well-behaved: they schedule only timers not on the list,
inside a window of `Horizon` ahead and `MaxPast` behind. It implements
`TimerQueue`, a set of armed timers, oldest due one first: `Remains` says what a
stop may leave of them, which is the oldest of the stopped timers and whatever is
older, while younger ones may go with it.

`Dispatch` is the scheduler for the components that own timers: the same
pointers and clock, but a pop, its handler and the reinsertion are one step.
That is exact, because nothing runs between them, except that the hardware
clock of the RP2350 may move inside a dispatch, which only `Scheduler` has.
`MaxLate` bounds how late the main loop may be with a timer on the list
(one that was cut off holds up nothing); the limit in the code
is the shutdown of a timer too far in the past, which `Scheduler` models.
`OneList` states that the pointers are one list. A component module EXTENDS
`Dispatch`, adds its state, one action per command (`InLoop`) and one per
outcome of a handler (`Fires`, then `Done` or `Reschedule`).

*Disciplined and careless hosts.* `core` relies in many places on the host not
sending a command while the object's timer is linked. The modules take that
as a guard, stated in their headers, and a constant `Careless` takes the guard
away. Passing runs have a disciplined host: they show what holds under the
discipline. Violation runs show what one undisciplined command does.

`Stepper` has the ring (`Queue`, `QueueHead`, `QueueTail`), the current move, the
direction pin, and `axis`, where the motor really is. `StepWithinMove`,
`LastStep` and `StepLoadsNext` are the three outcomes of `stepperEventHandler`;
`QueueMove` contains `loadNextMove`. It implements `StepPlan`: a queue of moves
with the steps they have left.

`Homing` is a trigger sync and an endstop. The pin is read inside the handlers
and may change between any two reads, hence the pairs `SampleMiss` and
`OversampleMiss`, `OversampleHit` and `LastHit`; the first look takes the first
sample in the same step, as `endstopEvent` calls `endstopOversampleEvent`.
`calls`, `started` and `hits` are histories for the properties.

`DigitalOut` has one function per flag and duration, from pins to values; a pin
names its timer too. `LoadStartsPWM`, `LoadSets`, `ToggleStops`, `Toggle` and
`End` are the handlers' outcomes. Two histories: `shut`, shut down and not
commanded since; `pulse`, when the level of a pulsed pin began and whether it is
the first of a pin that was off. The code's own shutdown flag has no influence on the outputs.
`endTime` is kept while `checkEnd` is set and is zero otherwise, as `nextWake` in
`Homing` is while it can decide anything: the code leaves the old value
standing, and nothing but a query reads it.

`AnalogIn`, `HardwarePWM`, `AnalogEndstop`, `I2CEndstop` and `DriverRegistry` have
one action per command and per outcome of a handler, and no next-state relation:
they are parts. `Firmware` declares the state of all of them, instantiates each
(`ADC`, `PWM`, `AES`, `IES`, `DRV`, and `DigitalOut` as `GPIO`) on the one timer
list, and adds what `core/commands.go` and `core/i2c.go` do to several of them:
`EmergencyStop`, `ClearShutdown`, `I2CFails`, and `AdcTrips`, the shutdown that the
sampling handler decides in the middle of a dispatch and after which it goes on
to put its own timer back. `fitted` is the set of components a behaviour has,
chosen in `Init` from `Configurations`, so that one run covers several
combinations. `lost` is a history of the timers that a walk from the head came to
before somebody else's `Next = nil` and has not come to since. `WaitingIsTimed` is what
the firmware keeps of its timers *apart from those*. `AnalogIn`'s history `stopped`
says that the input was stopped, by command or by a shutdown, since its last query.

`Session` is the main loop in its four steps: read and receive, write, check for a
reset, timers. Its unit is the frame. A write to USB delivers all of the buffer, or
any number of its frames and perhaps a part of the next (`Fragment`); the buffer
holds `Room` frames and drops what comes after, whole or in part (`Outputs`). Before
the loop comes the boot, which registers a name a step (`RegisterNext`) and then
stores the dictionary (`BuildDictionary`): a sequence of entries, commands before
responses and each by ID, with a header and a trailer (`BuildJSON`, `Compress`).
`GetChunk` cuts it, and the host inflates what it collected. The host is external
and modelled after `test/test-protocol.py` and the comments of the code: one frame
at a time, resent until acknowledged, chunks taken only at the offset it is at.
`resetAck`, `noticed` and `outOfStep` are histories.

`FifoBuffer` has the byte array and both indices; `Data` is what the transport
sees. It implements `ByteQueue`.

`Transport` consumes one frame per step from a first-in first-out channel; a
frame is `Frame(session, number)` or damaged, with or without its sync byte. The
host is external and modelled after what the comments of `transport.go` say of
Klipper's: a window of unacknowledged frames, cumulative acknowledgement,
retransmission of everything unacknowledged at any time.

`MC*` modules and their configurations are the instances for TLC. Definitions
named in a comment as *Mutant* are plausible mistakes in one definition and are
used by no specification; each shows that a property would notice.

## What the runs check

All bounds are constants. Clocks have 6, 8, 10 or 12 values, and since nothing
bounds the number of ticks, every run wraps them many times.

| Run | Checks | Instance and why it is enough |
|---|---|---|
| `scheduler` | `ListSound`, `Sorted`, refinement of `TimerQueue` | three timers: insertion at the head, in the middle, at the end; both sides of the wrap; a timer in the past; a cut before, at and behind each, from the loop, a handler and an abandoned dispatch; the hardware clock of the RP2350 |
| `scheduler_liveness` | `DueTimerRuns`, `DispatchEnds` | three timers, one of which a shutdown stops, so that one can be cut off while another is late; the cached clock of the RP2040, with fairness |
| `transport` | `InOrderOnce`, `AckedWereExecuted`, `EventuallyAcked` | four frames with three sequence numbers, so numbers are reused; window of two, three frames under way; a fault; two host sessions |
| `fifo` | `CountsAgree`, refinement of `ByteQueue` | five slots, two byte values: every position of both indices |
| `stepper` | `ActiveIsArmed`, `PositionIsAxis`, `StepsSpaced`, `MovesFinish`, refinement of `StepPlan` | three moves through a ring of two slots, so slots are reused; one move needs clamping, one accelerates below the minimum; both directions |
| `homing` | `FirstTriggerWins`, `TriggerNeedsSamples`, `TriggerReported`, `TimeoutTriggers` | any number of sessions, two samples, one registered stepper; endstop, timeout and host trigger in any order |
| `digital_out` | `DutyKept`, `ShutdownHolds`, `EndsInTime`, `PulsesGoOn` | two pins with different defaults: `fan` without a limit, pulsed (on-time shorter than, and beyond, the cycle; the cycle taken away again), updated, queued; `heater` with a maximum duration, queued. A clock wide enough to measure the first, double pulse |
| `firmware` | `ListHolds`, `WaitingIsTimed`, `ShutdownHolds`, `SamplingStops`, `TriggerNeedsReadings` | five fittings: four pairs of timers, in which one can be cut off behind the other, and one of three, with the pin that a shutdown stops before, between and behind the other two; sums of two samples in range, out of range, and cut to the width of the sum; two confirming readings; distances on both sides of the threshold, inside the hysteresis, and failing |
| `session` | `DictionaryIsWhole`, `NoticedIsFresh`, `AckBeforeReset`, `FetchCompletes` | two host sessions, two faults (failed writes, panics, spoiled frames), a link that is down after the second failure; dictionaries that are and are not a multiple of the chunk; three sequence numbers, so the second session's first frame meets every state of the numbering |
| `stepper_trigger` | violation of `TimerStops` | a trigger in mid-move |
| `requeue` | violation of `ListHolds` | a driver beside a PWM output that is queued at any time |
| `adc_resumes` | violation of `ResumesSampling` | one analog input, with fairness |

`firmware` compares states by `Seen`, which leaves out the pointer and the wake time of
timers that are not on the list: both are set before they are read again, and no
property reads them.

In `firmware` and `session` shutdowns, clearings, configurations and resets may
come at every moment and any number of times; what is bounded there are faults
and host sessions (`MaxFaults`, `MaxSessions`), the frames under way, and how far
ahead the host schedules (`Ahead`).

`PulsesGoOn` is stated of the pins without a maximum duration, which end only
when the host says so.

Deadlock is checked except in `transport`, where the bounded host may have
nothing left to send.

## Fairness

`TimerFairness` is weak fairness of `ProcessTimers` and `DispatchReturn`: the
main loop is endless and calls them in every round. It is strong fairness of
`Tick`, because commands and dispatches only ever disable the tick of the
model for a moment while the real clock goes on by itself. Weak fairness of a
component's handlers says that a dispatch that has begun runs the due timer.
No fairness is assumed of any command. `Transport` assumes the loop keeps calling
`Receive`, the host reads, and its retransmission timer keeps firing (strong
fairness, since the full channel disables it at times). `Firmware` adds weak
fairness of the reporting task and of the sampling handler, which the same loop
runs. `Session` assumes weak fairness of the loop's steps and of a host that
reads, asks on and resends; none of restarts or faults, which are bounded.

## What is proved

For every number of timers and every clock width (`TimerListAssumption`,
`SchedulerAssumption`), `SchedulerProofs` proves `TypeCorrect`,
`ListAlwaysSound`, `AlwaysSorted` and `Refinement`. The argument: `ListSound`
and `Sorted` alone are not inductive, because sorting by a wrapping difference
is an order only while all wake times are close to the clock. The inductive
invariant therefore adds that every timer on the list lies inside the window from
`MaxLate` behind to `Horizon` ahead of the clock. "On the list" is `Reached`, which
a sequence that starts at the head and follows `Next` gives (`Leads`,
`ReachedAreMembers`), since what was cut off may still point at anything. Inside the window the signed
comparison is the comparison of ages (`BeforeIsOlder`), a tick ages all alike
(`TickAges`), and the lemmas of `TimerListProofs` give the shape of the list
after an insertion, a pop and a cut. A cut of a sorted list leaves the beginning of it,
up to the first stopped timer (`CutSorted`); that this is what `TimerQueue` lets a stop
leave is `LeavesIsRemains`. Refinement then needs the head of a sorted list
to be the oldest armed timer.

For every size and set of bytes, `ProtocolProofs` proves `FifoTypeCorrect`,
`CountsAlwaysAgree` and `FifoRefinement`. The argument: both cases of `Data` are one
walk of `Available` slots from the read index (`DataIsWalk`), and the walk after
a write, a read or a pop is the walk before with a byte appended or dropped.

Of the link, `ProtocolProofs` proves `TypeCorrect`, `FramesRunInOrderOnce` and
`AcknowledgedWasExecuted` for every window, number of sequence numbers, sessions
and faults (`TransportAssumption`; the window is smaller than `SeqRange`, as
Klipper's is). The argument: while no frame was taken for a new session by
mistake, the number the firmware expects is that of the frame behind those that
ran, modulo `SeqRange`; frames under way are within a window of it, so a number
means one frame only; every answer under way says a number between what the host
has had acknowledged and what ran (`InStep`), in the order the answers come. After
a restart the answers under way are those of the session before, and they all
say the same (`OutOfDate`), until the first frame is noticed.

The modules of single components with timers prove, first, that the timer list
stays one list: the commands link only timers that are not linked, handlers put
back only what was popped, and the lemmas of `TimerListProofs` (`InsertLinks`,
`PopUnlinks`, `ClearLeavesFirst`) say which timers are then linked. Where that needs
the host's discipline, the theorem assumes the rules by name (`"queue" \notin
Careless`); what does not need it is proved for every host.

- `HomingProofs`: `FirstTriggerAlwaysWins` for every host. `ListAlwaysSound` and
  `SamplesBeforeTrigger` for a disciplined one: as long as a homing is on, samples
  that hit and samples that are left add up to the count asked for.
- `DigitalOutProofs`: `ShutdownAlwaysHolds` for every host, as what a handler may
  set a shut-down pin to is its default, too. `ListAlwaysSound` and `DutyAlwaysKept`
  for a host that neither queues a linked pin nor pulses one
  with a maximum duration (rules `queue`, `pulse`): a level's time and its timer's add
  up to its share (`Pulsing`), and a watched pin's timer is linked and set no later
  than its end (`Watched`). `AlwaysEndsInTime` needs all three rules: only then is a
  pin away from its default also watched (`Held`), and its level back in time.
- `StepperProofs`: `ActiveAlwaysArmed` (the step timer is linked exactly while steps
  are left), `PositionAlwaysAxis`, and `Refinement` of `StepPlan`, for hosts that keep
  the rules `trigger` and `reset` (`IdleHost`). The ring is read with `SlotFrom`,
  the slot a number of places behind the head; pushing and popping are two lemmas
  on it (`RingPush`, `RingPop`), and the plan is the current move, if any, followed by
  those slots (`PlanAppends`, `PlanShrinks`, `PlanMovesOn`, `PlanEnds`).
  `StepsAlwaysSpaced` assumes in addition the rule `accelerate` and that every move
  asked for keeps its first and its last interval, after clamping, below half the
  clock (`BriskHost`): a longer one would be taken for the past.
- `FirmwareProofs`: here components cut each other's timers off, so the list does not
  keep all linked timers. What is kept (`IInv`) is that the walk from its head
  ends (`Whole`), and that whatever waits for a timer is on that walk or in `lost`, the
  history of what others cut off (`OnTime`). Every step moves the list in one of
  four ways, to which the components' steps are reduced: timers are popped and put
  back (`Moves`), linked (`Links`), unlinked by their own `Next` (`Unlinks`) or cut off by
  a shutdown (`Trims`). `ListAlwaysHolds` and `WaitingIsAlwaysTimed` follow for a host
  that never schedules a linked timer (rule `requeue`, and `set` for the second),
  which is the least that is needed: the run `requeue` is the circle without it.
  `TypeCorrect` needs the duties too, as the counts of an endstop stay in range only
  because its looks are timed. `ShutdownAlwaysHolds`, `SamplingAlwaysStops` and
  `ReadingsBeforeTrigger` need nothing of the host: each follows from the parts of
  the state its component owns (`Parts`).

`SessionProofs` proves `TypeCorrect`, `NoticedIsAlwaysFresh`, `AckAlwaysBeforeReset`
and `DictionaryAlwaysWhole` for every size of buffer, chunk and channel and every
number of failures and sessions. The argument: whatever the buffer accepts is a
part of what was put out, and whatever a write delivers is a part of the buffer
(`OutputsFit`, `Writes`), so nothing of a session before comes out once none is in
it (`Fresh`); a reset's acknowledgement is owed only while it is in a buffer that
the same pass has yet to write (`Pending`); what the host has is the beginning of
the dictionary and a chunk asked for at its end continues it (`ChunkContinues`).
That the dictionary then has every name by its ID is an invariant of the boot, which
registers one name a step (`Registered`), of the sorted dictionary made from it
(`Built`) and of the block it is stored in (`Stored`).

Assumptions on constants that the proofs rest on are named in the modules that
declare them and evaluated by the runs. None restricts the code: there
are finitely many timers, session counts are positive, timers of different structs
are different, the clock's half range exceeds every delay added to it, a ring has at
least two slots. `DictionaryAlwaysWhole` has one hypothesis, that a boot registers
fewer entries than a stored block's length can say (65535 bytes in the code, which
does not check it).

Model-checked only: all liveness (fairness and ENABLED are beyond the prover), and
anything that needs induction over data.

## Findings

Three runs show the code disagreeing with what it or its documents say; the texts
are quoted in `PROJECT.json`.

- *`requeue`*: a change queued for a PWM output (also a query of an analog input)
  whose timer is on the list clears `Next` and inserts the timer again
  (`core/pwm.go:158`, `core/adc.go:187`). The list becomes a circle, and the next
  insertion walks it for ever with interrupts disabled.
- *`stepper_trigger`*: a trigger in mid-move sets the remaining count to zero and
  leaves the timer linked (`core/stepper_commands.go:83`); the next event makes
  the unsigned count underflow, and 65535 more steps follow.
- *`adc_resumes`*: nothing sets an input back to sampling after its first report
  (`core/adc.go:269`), so it reports once. A range check that asks for two or more
  sums in a row therefore never shuts down (`core/adc.go:302-304`,
  `docs/adc.md:103`, `:151`), whatever is measured: `SamplingStops` states it so.

Other disagreements were met while modelling. The models contain them, or a host's
discipline keeps them out, and no run is spent on them.

Host and link:

- A frame 0x10 that the host resends because its acknowledgement is late is taken
  for a host that started over (`protocol/transport.go:124`): state is cleared,
  and the frame runs twice. `Transport` keeps the case apart as `spurious`.
- Responses are buffered before the acknowledgement of their own frame, though
  `protocol/transport.go:203` and `targets/rp2040/main.go:123` want it first; a
  handler error drops the rest of a frame that is acknowledged all the same
  (`protocol/transport.go:177`).
- A frame full of queries overfills the output buffer, which drops the
  acknowledgement (`protocol/buffers.go:67`): the host resends the frame and it
  runs, or is refused, again.
- A write that fails leaves the whole buffer to be sent again
  (`targets/rp2040/main.go:344`). More than ten failures *within* a session reset
  the numbering to 0x10 under a host that has not restarted, and that session
  never gets a frame through again; and an acknowledgement left over from a
  failed write can acknowledge the next host's first frame. Both are `outOfStep`
  in `Session`.
- The reset waits for its acknowledgement, but when both writes before it fail it
  comes all the same (`targets/rp2040/main.go:206`). On the RP2350 the handler
  returns if the watchdog cannot be configured (`targets/rp2350/main.go:206-209`), and
  the reset stays pending.
- A reconnection clears the shutdown flag, and the shutdown message still in the
  buffer is dropped with it. A recovered panic clears both buffers, too.
- The command table of `ui/web/app.js:17-33` is not the firmware's.

Timers:

- `endstop_home` and its analog and I2C relatives "cancel" their timer by
  `Next = nil` (`core/endstop.go:142`), which takes what was linked behind it off
  the list; so do `driver_stop_poll` and `driver_unregister`
  (`core/driver_registry.go:171`, `:263`), and a shutdown with the timers of inputs
  and outputs. What is cut off and not rescheduled is `lost` in `Firmware`.
- A driver whose close function fails stays registered and active with its timer
  cut (`core/driver_registry.go:163-166`). Endstops that are told to stop with a sample
  count of zero keep their own timer on the list and go on sampling.
- *Relinking.* `reset_step_clock` on a moving stepper (`core/stepper.go:339`), a second
  `trsync_set_timeout` (`core/trsync.go:140`) and `queue_digital_out` while the
  pin's timer is linked (`core/gpio.go:191`, the normal way to renew a maximum
  duration) put a timer on the list twice. `OneList` fails with
  `Careless` set to `{"reset"}`, `{"timeout"}` or `{"queue"}` in `Stepper`, `Homing`
  and `DigitalOut`.

Steppers and homing:

- An interval that acceleration takes below zero wraps and escapes the clamp of
  `core/stepper.go:253`: `StepsSpaced` fails with `Careless = {"accelerate"}` and
  a move `<<2, 3, -3>>`.
- `GetPosition` (`core/stepper.go:316`) adds the steps of the move in progress to
  a position that already counts them.
- The timeout of one session, still linked, triggers the next
  (`core/trsync.go:103`); `Start` waits for it unless `Careless` has `"start"`.
- `trsync_start` does not reset the signals (`core/trsync.go:103`, "Reset state"):
  a trigger stops the steppers of earlier homings too. `FirstTriggerWins` counts the
  callbacks of one trigger as one call, whichever they are.
- The analog endstop counts the last reported sum once per look, so that several
  looks in a row confirm one reading, and it never changes once `adc_resumes`
  strikes. A hysteresis larger than the threshold wraps
  (`core/endstop_analog.go:282`, `core/endstop_i2c.go:402`).
- The I2C endstop goes on reading its bus after `ShutdownAllI2C`, as it does not
  ask for the ready flag; an unknown sensor type reads as a distance of zero
  (`core/endstop_i2c.go:280`), which triggers.

Outputs and inputs:

- `docs/gpio.md:169` has a pin with a maximum duration return to its default when
  the time expires. A pin that is pulsed while `DF_ON` is clear is never watched
  (`core/gpio.go:166-176`): `EndsInTime` fails with `Careless = {"pulse"}`. One that is
  watched starts pulsing again at its end (`core/gpio.go:365`), and as every later
  edge finds the end passed, the off half of its pulses is gone.
- `update_digital_out` is not limited by the maximum duration (`core/gpio.go:221`):
  `EndsInTime` fails with `Careless = {"update"}`. `set_pwm_out` and the value
  of `config_pwm_out` are not limited either (`core/pwm.go:188`, `:107`).
- A shutdown leaves PWM outputs as they are: `ShutdownAllHardwarePWM` has no caller,
  though `docs/pwm.md:232-236` says it is called; a PWM output whose end timer hangs
  behind a timer the shutdown clears stays on for good. Steppers and endstops
  are left running, too.
- The sum of the samples is cut to 16 bits (`core/adc.go:297`): with more than 16
  full-scale samples the range check sees a small sum. The run `firmware` has sums
  beyond that width.
- After a shutdown commands are obeyed as before (`core/commands.go:178`).
- The first pulse lasts twice `on_ticks` when the pin was off (`core/gpio.go:285`,
  `:335`), though `docs/gpio.md:151-154` has the pin toggle at the correct intervals.
  `DutyKept` holds with that pulse as the code has it (`Share`). The end-time
  test of `core/gpio.go:363` is wrong where the clock wraps.

## What is not modelled

- Bytes: VLQ, CRC, the text of the dictionary, how sensors and converters are
  read. A frame is good or bad, an answer is of a kind, an entry of the
  dictionary has a name and an ID.
- SPI: a transfer begins and ends inside one command, so there is no order of
  events to get wrong. Two things were met: `SF_SOFTWARE` is never cleared, and
  `TryShutdown` does not send the shutdown messages that `core/spi.go:345-346` says a
  shutdown sends; only `emergency_stop` does.
- The stepper backends: PIO programs and pin writes, behind `Stepper`'s pulse.
- Several objects of one kind where they do not interact except through the
  timer list: one stepper, one endstop, one trigger sync, one input. `Firmware`
  puts different components on one list, where cutting it matters.
- Configuring an OID again. Objects are configured in `Init`.
- Failing drivers: setting a GPIO pin or a duty cycle cannot fail on these
  targets; a stepper without a backend is not modelled.
- Several commands in one frame: `Session` has one in each, `queries` stands for
  many.
- The components listed as `not_modelled` in `PROJECT.json`, with the plan above.
- Real time within a round of the main loop: `MaxLate` stands for it.
