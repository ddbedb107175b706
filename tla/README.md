# A verification development for the PSAS flight computer (av3-fc)

TLA+ models of the flight computer program, TLC configurations that check them
on small instances, and TLAPS proofs of the theorems that hold for every value
of the constants.  Paths below are those of the repository (`src/arm.c` is the
file `arm.c` of its `src` directory).

## 1. The system

One process on one host runs an event loop.  The loop is generated from
`main.miml` by the elderberry submodule, which is not part of the repository;
from the way the code uses it (`fcf_add_fd`, `fcf_remove_fd`, `fcf_stop_main_loop`)
it polls file descriptors and calls their callbacks one at a time.  **A callback
runs to completion, together with everything it calls through `main.miml`'s
message lists.**  There are no threads and no locks.  What interleaves is the
order of the callbacks: datagrams of eleven sensor streams, two command ports,
one timer, and the end of the process.

| part | source | state | operations |
|---|---|---|---|
| Ethernet demultiplexer | `src/ethmux.c` | `next_sequence` of each stream | `demux` (one datagram), `sequenced_receive` |
| Arm manager | `src/arm.c` | `slock_enable`, `GPS_locked`, `upright` | `arm_receive_imu`, `arm_receive_gps`, `arm_raw_in` (#YOLO, #SAFE, EN_SLOCK, DI_SLOCK) |
| State estimator | `src/state.c` | `current_state`, `last_time`, `has_launched`, `launch_time` | `state_receive_imu` |
| Roll control | `src/rollcontrol.c` | `enable_servo`, `armed`, `launched`, `timeout`, PID error and integrator | `rc_receive_state`, `rc_raw_umb`, `rc_receive_arm`, `rc_raw_testrc` |
| Roll servo interface | `src/devices/rollservo.c` | `seq` | `rs_receive_adj` |
| COTS GPS frame parser | `src/devices/gps.c` | `buf`, `cur` | `cots_raw_in` |
| Log filter | `src/filter.c` | none | `filter_receive` |
| Logger | `src/logger.c` | two buffers and their sizes, `sequence`, two descriptors | `log_write`, `log_write_disk_only`, `log_timeout`, `log_receive_*`, `logger_init`, `logger_final` |
| RocketNet hub query | `src/devices/rnh.c` | one socket | `rnh_init`, `version_callback` |
| Sockets | `src/utilities/utils_sockets.c`, `net_addrs.c` | the descriptors of the process, the `sd` of each module | `udp_socket`, `timestamped_bound_udp_socket`, `readsocketfromts`, the `*_init` functions |
| Time | `src/utilities/utils_time.c` | `starttime` | conversions between times and six-byte timestamps |

How they interact (`main.miml`; receivers are called in the order listed):

    ETH  ADIS        -> LOG.log_write, ARM.arm_receive_imu, STATE.state_receive_imu
    ETH  ARM, RC     -> ARM.arm_raw_in, RC.rc_raw_testrc
    ETH  RNHUMB      -> RC.rc_raw_umb, LOG.log_write
    ETH  COTS        -> GPS.cots_raw_in -> ARM.arm_receive_gps, FILTER.filter_receive
    ETH  JGPS        -> FILTER.filter_receive -> LOG (ground or disk only)
    ETH  other, SEQE -> LOG.log_write
    STATE VSTE       -> RC.rc_receive_state
    ARM  signal      -> RC.rc_receive_arm, LOG.log_receive_arm
    RC   ROLL        -> RS.rs_receive_adj, LOG.log_receive_rc

The receivers of a message share it by pointer; nothing is copied.

### What is hard here, and what makes each part correct

* **Roll control** moves fins of a supersonic rocket.  Four kinds of events
  write `enable_servo`, in any order: the operator's ARM and SAFE, the bench
  commands, and a flight timer that is started by the umbilical contact and
  looked at only when a state message arrives.  Correct means: the bench cannot
  override an armed controller; every path that switches the servos off tells
  the roll board so; nothing drives past the deadline; the timer does fire; the
  PID loop never pushes the wrong way because of errors of long ago.
* **Arm manager**: a lock of 100 consecutive samples and a GPS lock, combined
  with an override.  Correct means: the counter is exact through any sequence of
  good and bad samples, and ARM is signalled only when both locks hold or the
  operator has waived them.
* **Demultiplexer**: datagrams are lost, repeated and reordered, nodes restart
  at 0, counters wrap.  Correct means: the log shows every place where a stream
  is broken, and no datagram that moves a stream forward is ever withheld.
* **Logger**: two buffers of different sizes are filled at different rates and
  flushed together under one number; writes may fail unnoticed; the process may
  die and be started again.  Correct means: no buffer is overrun, what the
  ground receives matches what the disk holds, a loss shows in the numbers,
  nothing waits for ever, and no log of an earlier run is overwritten.
* **GPS frame parser**: datagrams cut the receiver's byte stream anywhere, and
  lost ones take bytes with them; headers can appear inside data.  Correct
  means: what is reported does not depend on the cuts, only frames are reported,
  a bad frame never costs a good one, the buffer never fills up with a rest
  that is not consumed, and the loop, which holds up everything else, ends.
  (One datagram that alone is longer than the buffer is written past its end;
  see section 4.)
* **State estimator**: samples are lost and bunched, the launch is latched by one
  strong sample, times are unsigned and wrap.  Correct means: what roll control
  is told is the integral, over true time, of what the sensor reported since the
  launch, and nothing at all before it.
* **Servo interface**: one datagram per command, not acknowledged and not
  repeated, its angle in a message that the logger turns round in place.
  What the roll board did before the first command, the flight computer cannot
  know.  Correct means: a command that arrives is the one roll control gave, a
  lost one shows in the numbers, and the operator can have the servos off by
  saying so again, whatever the board missed or was left at.
* **Sockets**: an init function that fails returns and the program goes on; a
  descriptor closed after a failed connect is still written to, and the hub's
  callback closes the descriptor it is polled for.  Correct means: no write and
  no callback ever meets a socket that took over the number.
* **The whole**: one decision passes several modules inside one callback.
  Correct means: fins stand still until launch, only the locks arm, and what the
  ground reads in the log agrees with what the modules hold.

`PROJECT.json` lists the hazards one by one, each at its line with the
properties that cover it.

## 2. The modules

Every handler is one action, because a callback runs to completion.  The
definitions have the names of the C functions and variables.

**RollControl** (`src/rollcontrol.c`).  One action per handler, `Tick` for the
time between datagrams.  `rc_receive_state` has the three outcomes of the code:
`check_timeout` fires, the servos are off, or `pid_step`.  Quantities of the PID
loop are scaled by 1/Ki, so that `Kp*error + Ki*integrator` and the clamp of the
integrator are integer expressions.  The fin fit of `estimate_alpha`, which turns
a correction into an angle with polynomials of velocity and altitude, is
abstracted to what it guarantees: 0 below the dead zone and outside flight,
otherwise any bounded angle that does not have the opposite sign.  `servo` is
the last ROLL message; until there is one it stands for "told nothing", since
`rollcontrol_init` sends none.  `Stamp` is the truncation of a time to six bytes; the
phase of the timestamp at start-up is arbitrary (`StartTimes`), because datagrams
are stamped with the realtime clock while `starttime` is monotonic.  The clock is
assumed not to be stepped back.

**ServoAuthority** is the abstract specification: four modes (safe, bench, armed,
expired), whether the board is told to drive, and whether the flight is past the
deadline.  Only then may an armed rocket lose its servos without a SAFE, and
from then on nothing may drive them.  RollControl implements it under the
mapping at its end (`Mode`, `driving <- ~servo.disable`, `overdue <- Overdue`).

**Arm** (`src/arm.c`).  Samples are pairs of bytes as they lie on the wire;
`HostRead` and `ntohs` are the two ways to read them.  The comparison `about` is
exact in units of 10 micro-g, so the model and the code agree on every raw count.
A command datagram is represented by the set of command words it compares equal
to: the comparison stops at the datagram's own length, so a lone `#` equals both
`#YOLO` and `#SAFE`, and the order of the tests decides.

**EthMux** (`src/ethmux.c`).  `demux` with its three kinds of ports, and
`sequenced_receive`; around it the environment: nodes that number their
datagrams, send runts and restart, and a network that loses, repeats and
reorders.  `out` is what the last step did: a handler call, a SEQE report.

**Logger** (`src/logger.c`).  The two buffers hold messages (a number, and
whether the message is for the ground) beside their sizes in bytes.  The helpers
are set-valued, as each of the two writes of a flush may fail: `flush_log(s)` is
the set of states a flush may lead to, and `ensure_*`, `disk_only` and `to_ground`
compose such sets in the order the code calls them.  `to_ground` really copies
from the old end of the disk buffer, as `log_write` does, so the copy would be
`Garbage` if a flush moved the message in between.  A death of the process in the
middle of a flush is a flush whose second write failed, followed by `Crash`.

**FlightLog** is its abstract specification: one queue of messages, no buffers,
sizes or lengths.  A batch goes out whole under one number, to the file and, as
far as it is meant for the ground, to the wire; each may miss it, and the number
is used up all the same.  Logger implements it (`waiting <- log.disk`; the packet
buffer is not mapped at all, it has to hold what `ForGround` says a packet
carries).

**VenusFrames** (`src/devices/gps.c`).  `stream` is everything that arrives on
the port in a behaviour, `pos` how much of it has; `cots_raw_in` appends a
datagram of any length, also of one that `buf` cannot hold: the COTS port declares
none and the receive buffer of `ethmux.c` has 1500 bytes against the 512 of `buf`.
A datagram of just 512 fills `buf`; a longer one is copied past its end
(`Spilled`), and there the behaviour stops, because what the program does after
that is undefined.  One iteration of the loop of `send_venus_messages` is
one action, and nothing but the loop runs until it ends (`scanning`):
`Exhausted` and `WaitForMore` leave it, `Skip` has its four `continue` branches (two
of them are one disjunct), `gps_data_out` is a report.  `sent` records
each report with the place of its frame in the stream, and `base` where the
bytes begin that no overrun has thrown away.  A frame is defined on the stream
(`FrameAt`), the parser's tests read the buffer; the properties relate the two.

**StateEstimator** (`src/state.c`).  One action, `state_receive_imu`, for a sample at
a true time that is any gap after the one before.  Accelerations and times are
integers, so `integrate` is exact; `elapsed` is the unsigned difference.  `vste` is
the message roll control gets and `samples` the history that the properties
compare it with.

**RollServo** (`src/devices/rollservo.c`).  `PWM` is the line through the two end
points of the servo's travel, truncated; `rs_receive_adj` sends or loses one
numbered datagram.  `rollservo_init` sends nothing, so at start-up `board` is empty:
what the board does until a datagram of this run arrives (it may still be driving
as an earlier run left it) is not known, and no property assumes it.  A double is a value with the byte order it lies in; read in
the wrong order it gives any ticks.  `board` is what the roll board last
received of this run.  The link delivers at once or never: on the switched network inside
the rocket one sender's datagrams do not overtake each other.

**Sockets** (`src/utilities/utils_sockets.c`, the `*_init` functions,
`src/devices/rnh.c`).  The kernel's table of descriptors (`open`), the `sd` of each
module and the poll set.  The kernel gives out the lowest free number, which is
what makes the number of a closed descriptor come back.  `Failures` names the
calls that may fail.

**FlightComputer** (`src/main.miml`, `src/filter.c`, the `log_receive_*` functions).
The composition: it EXTENDS RollServo and Sockets and takes Arm,
StateEstimator and RollControl as instances over shared variables.  One
datagram, with the calls it causes through the message lists, is one step:
`demuxed_ADIS` conjoins the estimator, the arm manager and, through
`state_send_message`, roll control with the rate and the speed the estimator has
just computed; `arm_send_signal` follows an arming signal into roll control and
the log; `rc_send_servo` calls the servo interface and then the logger on the
same message, whose bytes the logger swaps.  Before `Served`, that is until
`ethmux_init` has registered its socket and the loop has begun, no datagram is
handled.  Of the log the last entries are kept that tell of decisions:
`logROLL`, `logMESG`, and `logV8A8`, the one Venus message the filter lets through to
the ground.  Demultiplexer, frame parser and logger buffers are not repeated
here: what they pass on is the input, and their modules say what that is worth.

The `MC*` modules give the constants their values; the `*_proofs` modules hold the
theorems.  Operators marked `fault:` are mutations used to show that the
properties can fail; nothing else refers to them.

## 3. The runs

| run | instance | shows |
|---|---|---|
| roll | 4 roll rates, integrator clamp 3, timeout 2, clock 1..6 | all properties of RollControl, the refinement, `TimeoutFires` |
| roll_wrap | timestamp modulo 4, starting at 3 | *violation*, finding 1 |
| arm | lock of 3 samples, 8 sample values, 7 samples | `LockIsExact`, `ArmIsJustified` |
| arm_byte_order | same | *violation*, finding 2 |
| ethmux | 2 streams (fixed and free length), an operator port, an unknown port, counter modulo 4, 2 datagrams in flight | `GapIsReported`, `AdvanceIsHandled` |
| ethmux_mpu | the MPU port as declared | *violation*, finding 3 |
| venus | all streams of three pieces out of nine (frames with false starts inside, damaged and cut frames, a header too long, noise), buffer 16, datagrams of 0 to 5, of 16 and of 17 bytes | all properties of VenusFrames, `ScanEnds` |
| venus_empty | a frame of length 0 before a good one | *violation*, finding 4 |
| state | 4 accelerations (rest, coasting, shocks both ways), 2 roll rates, gaps of 0 to 2, 4 samples | `LaunchDecides`, `FlightTimeIsTrue`, `IntegratesFlight` |
| state_wrap | timestamp modulo 16, starting at 14 | *violation*, finding 5 |
| logger | disk buffer 6, packet 5, messages of 1 and 3 bytes for the ground, 1 and 6 for the disk only, 5 messages per run, 2 file names | all properties of Logger, `BufferedIsFlushed` |
| flight | start-up with three calls that may fail, 3 samples, 2 fixes, locks of 1 sample, link that may lose any command, counter modulo 2, clock to 2 | all properties of FlightComputer, RollServo and Sockets, the refinement of RollControl |

The properties, in the order of the modules:

* `NoDriveAfterTimeout`: while the umbilical is out, no message that drives the
  servos is later than the disconnect plus the timeout.
* `DisabledIsTold`, `DisabledIsCentred`: servos off implies that the board was
  told so, if it was told anything; such a message carries the angle 0.  (It does
  not centre the fins: disabling has precedence, `src/rollcontrol.c:191`.)
* `FinOpposesRoll`: a roll rate whose proportional term exceeds the clamp is
  never answered with a fin that speeds the roll up.
* `TimeoutFires`: once the deadline has passed, the servos are switched off.
* `LockIsExact`, `ArmIsJustified`: see section 1.
* `GapIsReported`: two messages of a stream between which no SEQE was written
  are consecutive.  `AdvanceIsHandled`: a whole datagram with a higher number
  than the one before it reaches its handler.
* `FramesAreGenuine`: whatever was reported is a frame of the stream, with its
  ID, and no two of them overlap.  `NoneIsMissed`: every frame that the parser has
  passed was reported, or began inside one that was.  `CutsDoNotMatter`: what was
  reported since an overrun is a set of frames that a single pass over the uncut
  stream would find, skipping those that begin inside another, and there is only
  one such set.  `ResidueFits`: what waits for more data
  is shorter than the longest frame.  `ScanEnds`: the loop ends, unless a datagram
  was longer than the buffer.  `TypeOK` says of the buffer that a rest and a
  datagram together never fill it, only a datagram that alone is that long.
* `LaunchDecides`: roll control is told of a flight exactly from the first strong
  sample on.  `FlightTimeIsTrue`: the flight time told is the time since that
  sample.  `IntegratesFlight`: speed and altitude are the sums, over the history
  of samples, of what each contributed over the time it closed.
* `LossIsVisible`: reading the file, as long as the SEQN numbers count from 0
  without a gap the messages are exactly those given to the logger.
* `PacketMatchesBlock`: packet n holds the ground messages of block n, all of them
  and no others, in order.
* `LogIsNew`, `BufferedIsFlushed`: see section 1.  `FlightLogSpec`: Logger
  implements FlightLog; a message never takes more than one flush to make room.
* `FinsStillOnPad`: until the first strong sample the last angle commanded is 0,
  and so are the centre of the travel the ticks that reached the board, whatever
  is armed, enabled, or done with the rocket.
* `BoardFollows`: a command that arrives has the angle and the flag roll control
  meant.  `LossIsNumbered`: from its last number (or from nothing, if none has
  arrived) and the sender's counter the number of missed commands follows.
* `SafeRepairs`: roll control announces that the servos are off once, and that
  message may be lost; after a restart it announces nothing.  But every SAFE of
  the operator, and on the bench every DISABLE, is sent to the board even if the
  servos count as off: if it arrives they are off, otherwise it is counted.
* `LogTellsServo`: the last ROLL entry is the last command, in network order.
  `LogTellsArming`: the last MESG and V8A8 entries determine `armed` and `GPS_locked`.
* `CallbackHasItsSocket`: a polled descriptor is open and is the socket its
  callback belongs to.  `NoStrayWrites`: a write reaches its own peer or nobody.
* `ArmedByLocks`: from one state to the next, roll control becomes armed only if
  the sensor lock is overridden or both locks hold.  `RollControlSpec`: the
  composition implements RollControl.

### Why the bounds are enough

* roll: the rates include one that the integrator can outweigh and one it cannot,
  in both directions; the clock passes the deadline by several ticks from every
  disconnect up to tick 4, and the contact may bounce in between.
* arm: 7 samples are enough to gain a lock of 3, lose it and gain it again; the
  sample values lie on both sides of the bounds of both bands.
* ethmux: with two datagrams in flight one can overtake the other; each may be
  delivered any number of times; the counter of 4 wraps several times.
* venus: a buffer of 16 allows packets of 8 bytes, so that a cut frame can
  swallow the start of the next; a residue of at most 14 bytes and datagrams of
  5 reach the overrun of `cots_raw_in`; 16 bytes fill the buffer and 17 do not fit
  it.  The cuts take every position.
* state: four samples allow one or two on the pad, a launch, and a further shock
  or a gap in flight; `CHECK_DEADLOCK FALSE`, since a sensor may fall silent.
* logger: five messages cause flushes for either buffer, with and without the
  timer, several times in a run; the second run follows the first with one file
  name left, and a third finds none.
* flight: the three samples are one shaken on the pad with roll, a launch with
  roll, and one that passes the lock; two of them take the estimator from the pad
  to flight, so that arming, launch, a command and its loss occur in every order.
  Five descriptors are enough for a start-up in which nothing fails; where a
  connect fails, the number of the closed descriptor comes back.  The counter
  wraps at every second command, and up to two commands in a row are missed.

`CHECK_DEADLOCK FALSE` is set for venus because a behaviour stops where a datagram
was written past the buffer, and for the logger: a process that finds no free
file name exits for good, and that is a state of the model.  It is set for
flight because a flight computer whose listening socket could not be opened
(`ethmux_init` returns) polls nothing once the hub has answered.

### Fairness

* `RollControl!FairSpec`: weak fairness of state messages.  The IMU transmits
  periodically, `state.c` sends one VSTE for each sample, and the loop serves
  every ready descriptor.  Nothing is assumed of the operator or the umbilical.
* `VenusFrames!FairSpec`: weak fairness of the loop's iterations.  The handler
  runs to completion; nothing is assumed of what arrives.  A spilled buffer
  disables them.
* `Logger!FairSpec`: weak fairness of `log_timeout`.  The timerfd is periodic
  (100 ms) and never disarmed.  Nothing is assumed of the writers.

## 4. Findings

1. `src/rollcontrol.c:179`.  A timestamp has 48 bits of nanoseconds (78 hours);
   the deadline is kept in 64.  When the timestamp wraps between disconnect and
   deadline, it never exceeds the deadline and the servos stay on (`roll_wrap`).
   `FlightTimer` is proved under the assumption that this does not happen.
2. `src/arm.c:31`.  The accelerations are used in network byte order, unlike in
   `src/state.c:35`.  On a little-endian host a rocket on the pad never gets the
   lock (`arm_byte_order`); `LockIsExact` speaks of the readings the code makes.
3. `src/ethmux.c:67`.  The MPU stream is declared with the fixed length 65535,
   which no datagram has, so its data is never routed (`ethmux_mpu`).  The
   theorem `AdvancesAreHandled` shows what a correct declaration guarantees.
4. `src/devices/gps.c:107`.  A frame of length 0 passes every check; its data
   length is then `packet_len-1`, 65535 in 16 bits (`venus_empty`).  What the
   parser promises otherwise, `Genuine` and `NoFrameMissed`, includes such frames.
5. `src/state.c:46`.  At a wrap of the 48-bit timestamp `now - last_time` is about
   2^64 ns, and one step of the integration destroys velocity and altitude
   (`state_wrap`).  `FlightClock` is proved under the assumption of no wrap.

Not a run of its own: `src/devices/gps.c:122`.  The check against an overrun drops
what was collected, but then copies the datagram whatever its length.  No line of
the repository says how long the receiver's datagrams are (those of the test at
the end of `gps.c` have about 100 bytes).  The venus run includes longer ones, and
`TypeOK` and its theorem say exactly when the buffer is exceeded.

## 5. What is proved

All theorems hold for every value of the constants that satisfies the named
assumption of the module (`RollControlAssumption`, ...).

* **RollControl_proofs**.  `TypeCorrect` is inductive as it stands, by the two
  clamps (`ClampFacts`).  `ServosOffAnnounced`, `ServosOffCentred` and `AntiWindup`
  follow from it by one step per handler; `StepShapes` says once what each
  handler does to the message.  `FlightTimer` needs `TimerInv`: while launched,
  `timeout` is the true time of the disconnect plus TIMEOUT, which relates the
  history to the code's variable; its assumption `MaxTime < TimeMod` says that
  the timestamp does not wrap.  `ImplementsAuthority` maps each handler to one
  step of ServoAuthority or a stutter.
* **Arm_proofs**.  `LockInv`: the counter is the number of samples since the last
  reading off the vertical, held at N.  The equality with N that the code tests
  is then the lock (`AccelLockExact`).  `ArmNeedsLocks` adds that the GPS flag is
  the verdict on the last fix.  `OffAxisIsNotVertical` proves that the scaled
  comparison is the band of raw counts, for either byte order.
* **EthMux_proofs**.  `SequenceInv`: `next_sequence` is the successor of the last
  well-formed arrival, and of the last handled one as long as no SEQE was
  written since.  `GapsAreReported` follows; `AdvancesAreHandled` assumes that
  nodes send the lengths their streams declare.
* **Logger_proofs**.  Types alone are not inductive: `flush_log` returns early
  when the disk buffer is empty, whatever the other one holds.  The invariant
  `BufferInv` adds that the packet buffer is never fuller than the disk buffer
  (`NetNeverAlone`: what waited only there, `flush_log` would miss); with it every
  flush makes room in both (`FlushFacts`), so no message that fits an empty buffer
  overruns it (`TypeCorrect`), and the bytes that `log_write` copies to the packet are those of its own message
  (`ToGroundFacts`).  `NewLog`: the file in use is none of an earlier run.
  `LossShows` rests on `FileInv`: `Whole` is what holds of the blocks written, and
  `Pending` says that the disk buffer holds the newest messages in order, that
  the file ends just before them when its last number is the one before, and
  that no number in it has been reached again; a failed write uses up its number
  (`FlushKeepsPending`), a new message extends what is pending
  (`AppendKeepsPending`).  `ImplementsFlightLog` uses all of this: `Pending` says
  that the early return of `flush_log` is taken just when the queue is empty, the
  packet buffer is what `Matched` (below) makes it, and after one flush both
  sizes are 0, so that no second is needed (`RoomByOneBatch`).  `PacketsMatch` adds `Matched`: the packet buffer carries
  the ground messages of the disk buffer, and all numbers used are below
  `sequence`, so that block and packet of one number left in one flush.

* **VenusFrames_proofs**, for every stream, every length of a datagram and every size
  of the buffer.  The
  heart is `Window`: the buffer holds the bytes of the stream that end at `pos`.
  `KeepKeepsWindow` (the memmove) and `ReceiveKeepsWindow` (overrun and memcpy)
  preserve it, also when a datagram does not fit; `SameByte` and its followers carry each test of the loop from the buffer
  to the stream, so that `ValidIsFrame` and `RejectedIsNoFrame`.  `IInv` adds `Behind`
  (no report reaches beyond the pointer), which gives that reports do not
  overlap; `Passed` says that to move the pointer one must account for what is
  skipped, and each step lemma does (`SkipStep`: two bytes may be skipped because
  the second is A1).  From it follow `TypeCorrect`, `Genuine`, `NoFrameMissed` and
  `ResidueBound`.  The checksum is any function of the bytes: no proof opens it.
  `CutsAreInvisible` concludes that the cuts do not matter: the reports form a
  reading of the stream (`IsReading`: every frame is read or begins inside one
  that is, and no two of them overlap), and `OneReading` shows that there is only
  one, by induction over the place of the first frame on which two readings
  would differ.  `Apart` is the invariant that no report contains the start of
  another.

* **StateEstimator_proofs**.  `Step` says once what a sample does.  `LatchInv` adds to
  `LaunchDecides` what is remembered, `TimeInv` that `launch_time` is the true time of
  the first strong sample; from them follow `LaunchLatched` and, without a wrap,
  `FlightClock`.  `FlightIsIntegrated` is about the whole history: `IntegralInv` says
  that the speed and altitude held are the sums over `samples` of what each
  contributed, and `IntegralStep` that one more sample adds the summand that the
  definition of `IntegratesFlight` gives it, since the unsigned difference of the
  times is the true gap (`GapIsElapsed`).  The sums are values of a recursive
  function; `AccumulatedFacts` (it exists and unfolds), `SameAccumulated` (it does not look
  past its argument) and `SumsAppended` are inductions over Nat.  It assumes that
  the timestamp does not wrap (`MaxTime < TimeMod`, finding 5) and that no sample is
  stamped 0 (`0 \notin StartTimes`): `last_time = 0` is the code's mark for "no
  sample yet", and a sample that really has it is not integrated from.

* `Arm_proofs!TypeCorrect` and `EthMux_proofs!TypeCorrect` add the types of what is
  observed to the two invariants.

* **Sockets_proofs** holds lemmas for the composition.  `SocketsInv`: types,
  every polled descriptor is connected as its callback expects, and nothing is
  polled before its init function has run.  `WritersInv`:
  where each `sd` leads, init function by init function.  It assumes `LoopbackConnects`: connecting a datagram socket to the
  two loopback addresses does not fail.  Without it the number of the arm
  manager's closed descriptor would go to roll control, and the answer to an
  operator's command to the wrong client.

* **FlightComputer_proofs**.  `ImplementsRollControl`, `ImplementsArm` and
  `ImplementsStateEstimator` map each step to a step of the component or a stutter;
  by INSTANCE the theorems of RollControl_proofs, Arm_proofs and
  StateEstimator_proofs then hold of the composition.  For the estimator, whose
  clock stands still between two samples, the clock is mapped to the time of the
  last sample (`Sampled`), and the time that passes in between becomes the gap of
  the next one.  `ToldOfTheFlight` is what follows: between datagrams of every
  other kind, roll control is told of a flight from the first strong sample on,
  with the time and the integrals of that flight.  `ArmNeedsLocks` and the lock
  invariant are used below in this way.  `LinkInv` relates board, counter and
  missed commands to `servo`; from it `BoardIsTold` and `LossNumbered`.
  `SafeIsRepeated` follows each of the operator's two commands to the servo
  interface (`OffIsSent`) and takes from `LinkInv` that a loss is counted; it needs
  no assumption on what the board did before.  `DivisionBounds` and `PWMBounds` show that every
  angle in range has ticks between the two ends and below 2^16.  `PadInv` says that
  before the first strong sample the speed told to roll control is 0, so that
  only angle 0 is ever sent (`PadIsSafe`).  `OnlyLocksArm`, `GroundSeesArming` and
  `LogIsTold` hold by one step per datagram; `CallbacksOwnSockets`, `WritesReachPeers`
  and `TypeCorrect` lift the lemmas on sockets.

The induction theorems of the library take an operator as a parameter, which the
provers cannot instantiate.  The two inductions needed are therefore stated for
sets (`SetInduction`: a set of naturals that contains each number below which it
contains all is Nat), which follows from the well-foundedness of `<` on Nat.

Only model-checked: `TimeoutFires`, `ScanEnds` and `BufferedIsFlushed`, because
liveness under fairness is out of the provers' reach, and the five violations.
Every other property of a passing run is stated by a theorem.

## 6. What is abstracted or left out

* Values the properties do not tell apart: payloads, positions and velocities,
  the wording of responses, log text.
* Logger: a write is whole or fails (no short write), `sequence` does not wrap,
  and each message fits its buffers: the assumption `LoggerAssumption`.  It holds
  for the sensor streams; a GPS frame of length 0 breaks it (finding 4).
* VenusFrames: what the program does after a datagram was written past the buffer
  (undefined behaviour), and the timestamp passed on.
* StateEstimator: rounding of doubles, and the conversion of raw sensor words.
* The clock of received datagrams is not stepped back by a time service.
* The link to the roll board delivers a command at once or never (section 2).
* An error of `recvmsg` other than an empty datagram: `demux` ignores it and
  changes nothing.
* The `_final` functions, except the logger's: they close descriptors as the
  process ends.  Note that nothing tells the roll board then: the servos keep
  their last command, also into the next run.
* `readsocket`, `readsocketfrom` and the addresses that nothing uses; generated
  message structs; the operator's command-line client and the health monitor,
  which have no state of the flight computer.
* The mounting of the IMU.  `src/arm.c` expects -1 g along x at rest, `src/state.c`
  subtracts 9.81 from a positive `acc_x` ("IMU is upside down").  The repository
  does not say which is right, so no property relates the two; each module is
  taken at its word.  In the flight run the sample that passes the lock is read
  by the estimator, which converts the byte order, as a strong one.

## 7. Plan

Done, in this order, since the first decide whether fins move: RollControl with
ServoAuthority, Arm, EthMux, Logger, VenusFrames, StateEstimator; then RollServo,
Sockets and the composition FlightComputer; then FlightLog and the theorems on
whole histories (`FlightIsIntegrated`, `CutsAreInvisible`).  Left:

1. An abstract specification of the demultiplexer's stream, of which EthMux is an
   implementation: a log in which every break is marked.
2. The logger's buffers inside the composition, to relate the order of entries
   of different kinds; the last entries that FlightComputer keeps do not.
