# ArmSimulator in TLA+

ArmSimulator drives a two-joint arm: two RMD-X8 motors (elbow `0x141`, shoulder
`0x142`) on a CAN bus, a keyboard for commands, a joystick, an optional WT901
inertial sensor and a display line printed by a timer. This directory models the
program as it is written in `src/src/`, checks the models with TLC and proves the
main results with TLAPS.

## 1. The system

| Component | State it keeps | Operations | Meets |
|---|---|---|---|
| CAN driver, `CAN_BUS_HCPS.c/.h` | static `frame_send`, `frame_recv`, `nbytes_recv`, `receive_buf`, two sockets | `CAN_BUS_Init/Send/Receive/Close` | called by the Motor methods of two threads at once; talks to the motors |
| Motor, `motor.cpp/.h` | `position_`, static `can_reply` and `rec_buf` shared by all motors | `read_position`, `set_position`, `set_zero_cmd`, `shutdown_cmd`, getters, `in_range` | CAN driver |
| Control thread, `main.cpp:73` | `elbow_pos`, `shoulder_pos` | reads the elbow with the mutex held, signals, reads the shoulder without it | mutex, `cond`, Motor |
| Keyboard thread, `main.cpp:139` | `flip`, `elbow_set_pos` | `b` moves, `z` zeroes (mutex, `pthread_cond_wait`), ESC runs `close_all` (no mutex) | mutex, `cond`, Motor, cancels the control thread, ends the process |
| Display timer, `main.cpp:19` | `arm_x_pos`, `arm_y_pos` | `Timer_IRQ`, a notification thread every 50 ms | reads the control and joystick threads' globals |
| Joystick thread, `main.cpp:189`, `joystick.cc` | `joyEvent`, `joy_*` | one non-blocking `sample` every 50 ms | display |
| IMU driver, `IMU_WT901.c` | `chrBuf`, `chrCnt`, `real_data` | `WT901_Init/Get_data/Close`, `ParseData` | serial line; `IMU_read_thread`, whose creation is commented out |
| Kinematics, `kinematics.cpp` | link lengths | forward and (not called) inverse kinematics | display |
| Start-up, `main.cpp:281` | terminal mode, timer, threads | `main`, `init_timer`, `start_timer` | everything |
| Keyboard terminal, `keyboard_event.c` | saved terminal modes | `tty_set`, `tty_reset` (not called), `kbhit` | keyboard thread |
| X8 codec, `x8-can.cpp/.h` | static `can_tx_data`, one static message per request | `x8_can_send_xxx`, `x8_can_get_xxx` | a third-party library that `multitask_make.sh` does not build; the same motors |

What is hard, by component, and what makes it correct:

* **CAN driver, Motor and the two threads.** Every frame goes through buffers
  both threads share. The mutex protects only the elbow's read and a key's
  commands; the shoulder's read and `close_all` run beside them. The receive is one
  non-blocking read after a fixed delay, so that an answer may come too late and
  be taken for the next one. Correct: a locked read is never given a foreign answer
  and, on a punctual bus, never loses its own; commands exclude the elbow's read
  though `pthread_cond_wait` tests no condition; a key that is typed is read and carried out;
  what is sent and what is read stay in balance.
* **Shutdown.** `close_all` cancels the control thread wherever it is, perhaps with
  the mutex locked or a frame half filled, and closes sockets that thread uses.
  Correct: ESC ends the process, each motor is sent its shutdown, no motion command
  follows it, nobody uses the closed bus.
* **IMU driver.** A frame scanner whose window survives from call to call. Correct: it finds the
  frames a scan of the whole stream finds, and loses a frame only to an overlapping one.
* **Display and joystick.** Unlocked pairs of floats, overlapping callbacks, an
  event queue drained slower than it fills. Correct: what is shown settles on the present state,
  and only overlapping callbacks tear a pair of coordinates.
* **Codecs.** Angles pass through floats, 16-bit units, undefined conversions and a transmit
  buffer that keeps the bytes of the request before. Correct: the motor understands what it is asked and
  the program reads what it answers, within limits that can be named.
* **Start-up.** Results of initialisation are ignored; the key thread runs before the
  timer is started. Correct: the program ends with its devices and the terminal released.

## 2. Modules

| Module | Content |
|---|---|
| `CanBus` | the driver and the Motor methods, one action per access to a shared buffer; motors, wire and socket queue as external parts |
| `ArmControl` | both threads, the mutex, the condition variable, cancellation, `close_all`; EXTENDS `CanBus` |
| `MCArmControl` | what comments of the repository claim of `ArmControl` and the code does not keep; the module of the runs |
| `ArmControlProofs`, `ArmShutdownProofs`, `ArmBalanceProofs`, `ArmElbowProofs` | theorems about `ArmControl` |
| `ImuFrame` | the sensor's frames: header, type, checksum, shorts |
| `ImuScan` | abstract specification: frames cut greedily from the stream |
| `ImuParser` | `WT901_Get_data` and `ParseData`; implements `ImuScan` |
| `MCImuParser` | pieces a read may return, for TLC |
| `ImuProofs` | theorems about `ImuParser` |
| `Bytes` | integers in the bytes of a frame, with C's conversions |
| `MotorCodec` | the conversions of the Motor methods: floats as they are, ranges, bytes |
| `MotorAngles` | a Motor object reading, setting and holding an angle; EXTENDS `MotorCodec` |
| `X8Can` | the requests and replies of `x8-can.cpp` and the buffer they share |
| `MCCodecs` | values for both codecs |
| `CodecProofs` | theorems about both codecs |
| `Joystick` | `joystick_thread` and `Joystick::sample` on a device that announces, queues and overflows |
| `Display` | overlapping `Timer_IRQ` callbacks, `Control_thread` and `joystick_thread`; composes `Joystick` and `MotorCodec` |
| `MCPanel` | the scenarios of the display |
| `DisplayProofs` | theorems about `Display` and its stick |
| `Lifecycle` | `main` from its first statement to `exit(0)` against `close_all` and the timer |
| `LifecycleProofs` | theorems about `Lifecycle` |

A definition commented *Fault* is a plausible wrong version of the one after it
(a missing unlock, an untested address, a forgotten decrement). No specification uses
it; with it in place of the right one, TLC finds the property it is meant for
violated, which shows that the property says something about the code.

### CanBus and ArmControl

`at[t]` is the place of thread `t` inside a Motor method and `call[t]` what it was
called with. `Begin` enters `CAN_BUS_Send`; `SendCommand`, `SendArgs` and `SendWrite` are the
rest of it; `ReadSocket`, `CheckFrame`, `Reject`, `FillHead`, `FillBody` and `ClearFrame` are
`CAN_BUS_Receive`; `StoreReply`, `TestReply`, `CopyFromNull`, `AcceptReply` and `IgnoreReply` the
rest of the method. The threads' own statements are the variables `ctl` and `key`.
The build has no optimisation flag, so the accesses keep program order. A frame is split where
two threads can see the difference: address, command byte, other seven bytes. The bytes
of an answer are represented by what they answer (motor and command): a property about
angles only has to tell whether the bytes decoded are an answer of that motor to that request.
`position_` of a copied reply is decoded in the same step as the copy: `rec_buf` is
touched by `read_position` only, and only the control thread calls it. Every action of the threads is a whole
statement of `main.cpp` or one access of the driver; a key that means nothing is `PressOther`.

A pending cancellation takes effect in a system call or a `usleep`; the mutex stays
locked. `pthread_cancel(IMU_tid)` on a thread never created is undefined: it crashes
or returns. What the operator types, one of `Scripts` key by key, goes to `terminal`; `kbhit` looks there,
while `getchar` takes all of it into `stdin`, the buffer of stdio, and a key that is in that buffer is not
looked at before the next one is typed. Sockets, delays and motors are external: `Answer` delivers a motor's
answers in order, `Lose` drops a frame, and a read may come before the answer.

### ImuParser

`chrBuf`, `chrCnt`, `real_data`, `r_buf` are the variables of the code; `received` and `frames`
are history. `GetData` is the `read` of `WT901_Get_data`, and each turn of its loop is
`StoreByte` (fewer than eleven bytes), `SlideWindow` (no frame) or `AcceptFrame`. Bytes are
0..255 with the code's own arithmetic; angles are kept as the signed shorts the degrees are
computed from. The only size that differs from the code's is the number of reads.

### Lifecycle

`main` and `key` are the next statements of `main` and of the keyboard thread; every step of
`main` that tests a result has its error path, and the two results nobody tests (`tty_set`,
`CAN_BUS_Init`) change only the device. `close_all` is one action per statement. `callbacks` counts the
notification threads in `Timer_IRQ`. `exit` takes effect some time after it is called, the
other threads running on, which is why the order of the joins matters. What the threads do between start and
ESC is `ArmControl`'s part, which in turn starts with the threads created and ends with
`close_all`; `Lifecycle` leaves out the frames and the locks, `ArmControl` the devices and `main`.

### Joystick and Display

`joyEvent` and the `joy_` variables are those of the code; `device`, `announced`, `queue` and `lost` are the
device, after the joystick driver of Linux: it announces every control when it is opened and when
its queue overflows, and a change of a control already announced, made while it announces the others, gets no
event. `JoystickThread` is one round of the thread; its `sample` may fail, which the thread does not
look at, and then `ProcessEvent` runs on the event before. `joy_x_current` is `joy_x_value` in other units and
is represented by it.

In `Display` a callback `c` is at `at[c]`; the three `printf`s, each load of an argument of `forward_kinematics` and
each store of a coordinate are steps. A coordinate is the pair of angles it is computed from (`Unset` before there are any), which tells
apart what a reader of the line could: which angles a coordinate belongs to, and whether x and y belong together.
`Control_thread` has its four statements that change something; the bus here answers in time and the key thread
is asleep. `alone` is history: the callback started last, if no other ran since it was started. The two set
positions, which are printed too, are left out.

### Codecs

`MotorCodec` keeps floats exactly: sign, significand of 24 bits and exponent, with the rounding of each
operation, because the code cuts `new_position * position_scale` to an integer after two roundings: an
angle read as 0.53 degrees is set as 0.52. 569 of the 9001 hundredths from 0 to 90 degrees lose one, and a program
that sets the angle it has read over and over can walk through a run of them (2.12 to 2.08). Beyond 131072 degrees
(`ExactAngle`) the floats are further apart than hundredths, and what is read of a multi-turn angle is up to three of
them off. The build in
`src/src/main` is for ARM, where `char` is unsigned (so the sum of `motor.cpp:53` is right) and a negative float
becomes the unsigned 0: a negative angle, which `in_range` lets pass, moves the motor to 0. Both outcomes of that
undefined conversion are in `ScaledBytes`.

In `X8Can` a request is what the caller asked (`asked`) and what the buffer holds (`can_tx_data`). `Understood` reads
the buffer as the motor does, by the structures of `x8_can.h`, `Wanted` is the request in the motor's units; the
property compares the two, so that it does not use the packing code. A request without arguments leaves the
bytes of the one before in the buffer, as the code does. Arguments have the whole range of their parameters; the
`int32_t` products by 100, 6 and 360 overflow beyond 3 579 139, which is undefined, and wrap in the model
(`Times32`), as they do on the machine: no property is about a request whose product wraps. An angle in a reply is any of 56 bits; its
eighth byte is the seventh once more, which is right for angles of six bytes and a sign (`SixBytes`). The value of any other `int64_t` is not
computed.

## 3. What the runs check

| Run | Instance | Shows |
|---|---|---|
| `arm_keys` | `b` or `z` typed once, one late and one lost answer; 1.1 M states | `TypeOK`, `CommandsExcludeElbowRead`, `ElbowAngleGenuine`, `RepliesBalance`, `ElbowReadSucceeds` |
| `arm_shutdown` | `b` and ESC typed at any moment, only the keyboard thread and the motors fair; 2.3 M states | `NoMotionAfterShutdown`, `NoBusUseAfterClose`, `EscapeEnds` |
| `arm_liveness` | `b` and then `z`, or another key and then `b`, punctual bus, fair threads | `KeyIsServed`, `ElbowKeepsBeingRead` |
| `imu_parser` | four reads out of ten pieces: whole, truncated, changed frames, misleading noise | `NoFrameMissed`, `AnglesOfLastFrame`, `ImplementsScan` |
| `panel` | a stick on a queue of two events and a device that overflows, with one callback, or one motor moving with two callbacks; 307 000 states | `TypeOK`, `AtRestRight`, `TornOnlyByOverlap`, `DisplaySettles`, `StickSettles` |
| `codecs` | every request after every other; every hundredth from -90.01 to 90.01 degrees, and angles around 131072 and at a million; 461 000 states | `TypeOK`, `UnderstoodIfFits`, `ReturnedRight`, `CommandsObeyed`, `AnglesReadBack` |
| `lifecycle` | all error paths of `main`, ESC at any moment, three overlapping callbacks; 442 states | `OrderlyEnd`, `QuietAfterEscape` |

Bounds. One key press lasts several rounds of the control thread, and the system comes back
to an idle state after it, so a second press starts from a state the first already met, but for
the surplus frames late answers leave: one late and one lost answer already give a
surplus and a deficit, and the balance is proved for any number. In the same way ESC follows a served `b` in `arm_shutdown`:
what `b` leaves in the buffers is what an ESC typed first does not meet. All runs stop at no
artificial time: the control thread goes round for ever. The IMU's pieces contain an
angle frame that forms a false frame with the noise before it, so that a real frame is lost
to an overlap, the only exception `NoFrameMissed` allows. `ImuParser.cfg` does not check deadlock,
because the serial line falls silent after the last read.

The stick and the arm share nothing but the line, so a behaviour of `panel` moves one of them and the thread
that follows the other sleeps; two callbacks are enough for every overlap of a pair, and one for the stick, of which a
callback only reads. A button, two axes, an extreme and a neutral value and two events of room are enough for
a burst, an overflow and a change lost while announcing; in Linux the queue has room for 63. The values
of `codecs` are those at which 16 bits overflow, on both sides, and signs and byte boundaries; the requests leave
different bytes in the buffer for those without arguments. One codec is exercised in a behaviour.

What `codecs` shows of the limits: 16-bit angles are understood up to 109 degrees, speed limits up to 182 rpm, and
arguments of 32 bits up to 3 579 139; reported speeds come back right up to 546 degrees per second. The values just
beyond are in the run too. `x8_can.h:367` allows 360 degrees, and `x8-can.cpp:247` knows no limit of the speed: both are
in `AsDocumented`, below, among what the code does not keep. TLC's integers have 32 bits: the angles that need more are left to `X8Returned`.

Fairness. Each thread is scheduled (weak fairness). Taking the mutex is strongly fair: the
control thread holds it for a few milliseconds and then sleeps in four `usleep(can_delay)`
calls, so a waiting keyboard thread finds it free again and again. Motors answer. Typing, spurious
wakeups and losses are never obliged to happen. `KeyIsServed` starts at the key on the terminal, not behind `getchar`, and so
does `EscapeEnds`, unless keys read earlier are still before the ESC. `EscapeEnds` needs less: only the keyboard
thread and the motors. It is satisfied by a crash as well: after the undefined `pthread_cancel(IMU_tid)` the process has ended either way. In `panel` the threads and each callback run on, and the timer, which is periodic, expires
for ever; the stick and the arm move when they like, and the settling properties speak of behaviours in which
they stop.

### What the code does not keep

| Run | Claim | What happens |
|---|---|---|
| `shoulder_torn` | `motor.h:24`, "Gets the position from the motor" | the unlocked shoulder read decodes the answer to a `set_position` |
| `null_copy` | `motor.cpp:40`, `can_reply != NULL` | the other thread sets `can_reply` to NULL between the test and the `memmove` |
| `late_answer` | `motor.h:24` | one answer later than the delay shifts every later request and answer by one: the elbow is never read again |
| `shutdown_torn` | `CAN_BUS_HCPS.h:89`, "input the 8 bytes data", and `:22`, "set send address (motor address)" | `close_all` writes the shared frame with the control thread's request or address in it: a motor is not shut down |
| `x8_documented` | `x8_can.h:367`, "360 => 360 degree (1 circle)" | from 110 degrees on the product overflows a `uint16_t`: the motor is told another angle |

`AsDocumented` has two more parts, which fail as well and are what `UnderstoodIfFits` and `ReturnedRight` except: the torque request
(`x8_can.h:315`, "Can send torque close loop cmd") has no case in `m_x8_can_send_msg`, so that the request before is sent again; and the speed of
a status (`x8-can.cpp:247`, "Cover dps to rpm") overflows an `int16_t` from 547 degrees per second on and changes its sign.

Four more differences met while modelling, which a look at the code settles and no run is spent on: of keys typed so fast that one `getchar` reads them
all, `kbhit` (`keyboard_event.c:44`, "Watch stdin (fd 0) to see when it has input") sees only the first, and the others, ESC too, wait in the buffer of
stdio until another key is typed; the terminal stays as
`tty_set` set it, since nothing reads `tty_set_flag` or calls the `tty_reset` of the example in
`keyboard_event.h:20`; the acceleration, angular rate and field that `IMU_WT901.h:14` promises are commented out
in `IMU_WT901.c`; and `timer_settime` with `TIMER_ABSTIME` (`main.cpp:64`) makes the "start timer after 1s" of
`main.cpp:52` an instant of 1970, so that the timer expires at once.

## 4. What is proved

All theorems hold for every value of the bounds, whatever is typed, and every instance of the
names; assumptions are `CanBusAssumption`, `ArmAssumption` (the names differ, bounds are naturals, what is typed is made of the four kinds of keys),
`ImuAssumption` (a read returns 1 to 44 bytes), `LifecycleAssumption` (a natural), `JoystickAssumption` (two
axes at least, values of a short, a queue of two slots or more), `DisplayAssumption` (angles that a float holds to
the hundredth), `X8Assumption` (arguments and reports of the
types of `x8-can.cpp`: `int32_t`, `uint16_t`, `int16_t`, angles of seven bytes) and `MotorAnglesAssumption` (angles up to a million degrees, where `MotorCodec`'s arithmetic is exact).

* `TypeCorrect` (`TypeOK`): needs `FrameAddressed`, since a frame with the zero address
  of the fresh buffer must never be written.
* `Exclusion` (`CommandsExcludeElbowRead`): from `MutexInv`, which ties the owner of the mutex to the places of
  both threads; a dead control thread keeps it.
* `BusClosedForGood`, `ShutdownStopsMotion`: `CallInv` (which
  method a thread can be in at each of its statements), `CloseInv` (the cancellation precedes the
  close) and `MotionInv` (after the first shutdown frame is filled, `frame_send.cmd` is never `0xA4` again).
* `Balance` (`RepliesBalance`): each step changes both sides equally; needs `CallInv` to know
  that a read belongs to a call that wrote.
* `ParserTypeCorrect`, `Refinement` (`ImplementsScan`), `Complete` (`NoFrameMissed`), `AnglesGenuine`
  (`AnglesOfLastFrame`): the inductive invariant says that the window holds the last bytes received, starts
  after every accepted frame (`AfterFrames`) and, while not full, right after the last one (`NothingSkipped`).
  The first gives that a full window is the last eleven bytes, the second that no accepted
  frames overlap, the third that a window not yet full cannot hide a frame.
* `EndsOrderly` (`OrderlyEnd`), `EscapeQuiets` (`QuietAfterEscape`): `MainWaits` (a keyboard thread keeps `main`
  from getting past its second join), `CloseAllSoFar` (what is released at each statement of
  `close_all`, in particular that `start_timer` does not revive a deleted timer) and `WhoEnds`.
* `StickAtRest` (`AtRestRight`): `WillBeShown` says of every control announced, with no change lost,
  that its last change in the queue is to where it is, and that it is shown there or comes in the queue
  (`ComesAgain`); `Processed` says that the thread's last event has left its mark, so that to process it again
  when `sample` fails changes nothing.
* `OnlyOverlapTears` (`TornOnlyByOverlap`): a callback that is still `alone` has stored
  from its own copy of the angles only, at each of its places.
* `ElbowGenuine` (`ElbowAngleGenuine`): the sent frame, the received frame and `receive_buf` are shared by all
  threads, so `ReadsElbowAngle` says what the locked read finds in them at each of its places: what is in
  `frame_recv` is a frame some motor sent, after the tests of its head it is the elbow's answer to `0x92`, and
  `receive_buf` holds that angle from its copy to its decoding. The mutex keeps a key's commands away from those
  buffers meanwhile (`MutexInv`). Until `close_all` starts, no other thread can write them at that time; afterwards nothing is claimed.
* `ReadSucceeds` (`ElbowReadSucceeds`): in `PunctualInv` a thread has at most one request on the wire, and only
  while it waits to read (`OneRequestEach`); what the elbow's read finds on the wire and in the socket is its own
  request or its own answer (`ElbowRequestSent`), and it rejects it nowhere (`ElbowReplyTaken`).
  `RepliesBalance` gives that the answer is there when the read comes.
* `TypeCorrect` of `DisplayProofs` (`TypeOK`, which types every variable of `Display` and `Joystick`): the stick is shown negated, and -32768 negated
  fits no short, so that a value is followed from the device through the queue and `joyEvent` to what is shown; an angle shown, or that a coordinate is of,
  is one a motor reported or the initial zero.
* `X8TypeCorrect`, `X8Understood` (`TypeOK`, `UnderstoodIfFits`): one lemma for each request. It takes the layout apart
  (`Layouts`), reads each number back from its bytes (`Signed32Back` and its like) and shows of the products of 16 and 32
  bits that they are right as long as nothing is cut. A request without arguments
  needs only its command byte, and the torque request is excepted.
* `X8Returned` (`ReturnedRight`): for an angle of six bytes and a sign the seventh byte taken twice makes the eight of its `int64_t` (`AngleBack`), and a
  division by 100 and then by 6, each towards zero, is one by 600 (`QuotientTwice`).
* `MotorObeys` (`CommandsObeyed`), `MotorReadBack` (`AnglesReadBack`): `position_` is always the float of an angle the
  motor can have (`FloatsOfAngles`). `ScaleFits` gives the exponent of every angle up to `MaxAngle`, `FloatOf` the
  error of its significand (half a unit of its last bit), `PrintedNear` and `ScaledNear` what the second
  rounding adds to it, `RangeBound` that it cannot carry an angle over the limit of 90 degrees.

Only model-checked: the liveness properties (`KeyIsServed`, `ElbowKeepsBeingRead`, `EscapeEnds`, `DisplaySettles`,
`StickSettles`), which rest on fairness and `ENABLED` and are out of the prover's reach. Every other
property of a passing run is a theorem.

## 5. Not modelled, and the plan

Left out: floating-point trigonometry (`kinematics.cpp`: `forward_kinematics` is represented by the angles it is given;
`inverse_kinematics` is not called, and the angles its trigonometry computes decide only whether it
changes the ones it is passed), printing, the serial port's settings (`uart_set` only succeeds or fails),
`IMU_read_thread` (never created), `motor_init` (never called), Motor's unused setters, and what becomes of the stick when
it is unplugged.

Next: `CanSession`, the exchange of one thread alone with the bus as an atomic request and answer, and
`CanBus` with one thread shown to implement it.
