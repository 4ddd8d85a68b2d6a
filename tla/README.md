# TLA+ models of the FreeCNCLasercutter firmware

The firmware drives a laser cutter: an AVR (ATmega32U4) reads G-code from a
serial port, a planner turns commands into jobs, and a timer interrupt executes
the jobs one motor step at a time while it fires the laser. There is no
operating system. One main loop shares memory with interrupt handlers, and most
of the hard questions of this code are about that sharing, about state that
survives from one command to the next, and about numbers that have little room.

`PROJECT.json` holds the machine-readable side of this document: components,
runs, the source lines behind every definition, hazards, findings, theorems.

## 1. Inventory

| part | state it keeps | operations | meets others through |
|---|---|---|---|
| circular buffers (`buffer.h`) | `head`, `tail`, slots | put, push, get, pop, used, is_empty, is_full, init | one side is main, the other a handler |
| serial port (`uart.c`) | two buffers, `XOFF_STATE`, the interrupt enable | getchar, putchar, available, two handlers | main; host |
| USB port (`usb_serial.c`) | configuration, flush timer, the selected endpoint; the banks in the controller | putchar, flush, available, getchar, two handlers | main; host |
| parser (`parser.c`) | line state, numbers, checksum, raster bytes | process_char | fills LASER_RASTERDATA, calls gcode |
| G-codes (`gcode.c`, `coordinates.c`) | modal state, units, offsets, laser settings | process_command | planner, laser, stepper_drain_buffer |
| planner (`planner.c`) | its own position | move, line, arc, home_axes, set_position | fills STEPPER_QUEUE in place |
| stepper (`stepper.c`) | current job, counters, positions | the timer-1 handler, drain_buffer | empties STEPPER_QUEUE and LASER_RASTERDATA, fires the laser |
| step counters, arithmetic (`asm.h`, `asm.c`) | 24-bit error counters | ADVANCE_STEP_COUNTER, ADVANCE_POSITION, times_ten, mul16SHR16, roots | used by every kernel, the laser, the parser and the planner |
| laser output (`laser.c`) | pin, `laser_is_on`, timer 3, the time it was on | laser_fire, start_pulse_timer, the timer-3 handler, add_time | called by main and by two handlers |
| arcs (`arc.c`) | error term, octant | prepare an arc, arc_kernel | planner and stepper must agree on its end |
| clock (`time.c`) | milliseconds, flags of periods | millis, micros, the timer-0 handler | laser time, waits, idle |
| display (`lcd.c`, `HD44780.c`, `4094.c`, `strings.c`) | none: the chip has it, and cannot be asked | init, update | called by idle |
| main (`main.c`) | reporting of parser and queues | loop, idle, kill | all of the above |
| host (`pysend.py`) | what it has read, the line to send | sendline, checkreply, sendfile | the port, line by line |
| simulator (`avrtest/`) | registers, flags, memory, program counter | one function for each instruction | runs the same firmware on a PC |
| configuration store, watchdog | - | - | compiled out |

Behaviours that are hard here:

* *Interleaving and atomicity.* Main reads and writes bytes that handlers
  change in between: both buffer indices, `XOFF_STATE` and `UCSR1B`, the laser,
  the milliseconds, the flags of the clock, the selected USB endpoint.
* *Ordering.* `stepper_drain_buffer` looks at two things one after the other.
  A job ends by setting a mode on which only the next interrupt acts. The timer
  of a pulse expires in whatever job comes next. Raster bytes of later lines
  enter the buffer while an earlier line is still reading. The address of a USB
  device changes only after the answer to the request that sets it.
* *Agreement without communication.* The planner never reads the stepper's
  position; it relies on every job taking exactly its steps. The display cannot
  be read: the firmware has to know what state it is in.
* *Numeric edges.* The carry of a 24-bit addition stands for "greater than 0";
  counters wrap; products, roots and quotients are cut to 16 and 32 bits.
* *Unreliable delivery.* A character from the host may be lost or changed. A
  checksum, an answer per line and `resend!` are all there is against it.
* *Blocking.* Main waits in `put`, `push`, `uart_putchar`, `usb_serial_putchar`,
  `drain_buffer`, in G4 and for the end of a pulse; somebody else has to move
  for it to return.

What makes each part correct:

* buffers: a FIFO of `Size - 1` elements whatever the interleaving, and a fill
  level one can act on;
* counters: exactly as many events as asked for, evenly spread, and assembler
  texts that compute what their C forms say and touch nothing else;
* stepper and planner: they agree; waiting really waits; homing calibrates;
* laser: dark when nothing asks for light, whatever ran before; pulses end;
* raster: every line gets its own bytes, and the parser is never stuck;
* serial port: no byte is lost to an overrun, no request to send is forgotten, a
  stopped host is told to go on;
* USB port: characters in order and none left behind, requests answered whole;
* parser and host: what is executed is the job, each raster line once;
* G-codes: no sequence of units, origins, relative moves and homing makes the
  coordinates drift; speed and pulses are those asked for;
* clock and display: no wait too short, no flag lost, the time of the laser
  measured across every wrap, the screen readable whatever it showed before.

## 2. Modules

```
BoundedFifo   <--refined by--  RingBuffer  <- RingBufferProofs, MCRingBuffer
StepArithmetic <- StepCounter              <- KernelProofs
   |    |              +--- MCStepCounter
   |  AvrFlags <- Avr <- AsmRoutines       <- KernelProofs, MCStepCounter
   |
Beam -+- Stepper <- Machine                <- MachineProofs, MCMachine
UartFlow                                   <- UartFlowProofs, MCUartFlow
Arc                                        <- KernelProofs, MCArc
Parser
   +--- Sender                             <- ParserProofs <- MCSender
Gcode                                      <- GcodeProofs, MCGcode
Beam, Clock, Display <- Idle               <- IdleProofs, MCIdle
UsbData <- Usb                             <- UsbProofs, MCUsb
```

* **BoundedFifo** - the promise of the comment in `buffer.h`: a FIFO with room
  for `Capacity` elements.
* **RingBuffer** - the macro functions, one access to a shared byte per action.
  `WriteSlot`, `SeeRoom`, `AdvanceHead` are `put`; `SeeData`, `ReadSlot`, `Pop`
  are `get`; `FetchFirst` and `ProducerUsed`/`ConsumerUsed` are `used`, whose two
  operands are read in either order; `ResetTail` and `ResetHead` are
  `head = tail = 0`; `DiscardSlot` is the loop of G4. `reader` says whether the
  handler may take elements: main resets a buffer only while it may not, and
  `DrainedIsIdle` of Machine is what justifies that.
* **StepArithmetic**, **StepCounter** - `ADVANCE_STEP_COUNTER` as arithmetic
  modulo `W`, for one counter during one job, next to the C form of the macro.
* **Beam** - pin, flag and timer of the laser as pure functions: `Fire` and
  `Extinguish` are `laser_fire`, `StartTimer`, `Expire`.
* **Stepper** - one timer-1 interrupt per action: first the laser (changes of
  mode, the laser's own counter, raster pixels), then the axes, then, at the end
  of a job, rest or the next job. `IrqStep` stands for both `move_kernel` and
  `line_kernel`; `IrqSeek`, `IrqTurn`, `IrqLeave` are `home_kernel`; `IrqRest`
  and `IrqFetch` the end of `_stepper_irq`. `head_at` is where the head really
  is, which the firmware learns only from the limit switches.
* **Machine** - main against the interrupts. Each command is chosen from what
  the host may send; `Put`, `PutDone`, `Push`, `QueueSeenEmpty`, `JobSeenDone`,
  `ResetRaster` and the five actions of a single pulse are the steps between
  which interrupts can come. Queue and raster buffer are sequences here, which
  RingBuffer's refinement of BoundedFifo allows. `Hosts` are the jobs the host at
  the other end may be sending; one is chosen at the start, so that commands that
  have nothing to do with each other are not mixed.
* **UartFlow** - both handlers, main as their user, and a host that obeys XON
  and XOFF.
* **Arc** - the two arc kernels, one after the other: `PlanStep` is `kernel()` of
  `arc.c`, called in a loop by `buffer_arc` (`Queue`), `DrawStep` is `arc_kernel()`.
  The sixteen cases of each are a table of four, turned by quarters; what differs
  is whether the change of octant is tested before or after the step.
* **Parser** - `process_char` as a function from a state and a character to the
  next state: `Interpret` has one operator per state of the code's `switch`,
  `EndOfLine` the verdict on a line. Characters are their numbers. Words have `W`
  values and wrap, as `int32_t` does.
* **Sender** - the parser behind a port that may lose or replace a character
  (`Lose`, `Replace`), and `pysend.py` in front of it: `SendLine`, `CheckReply`,
  `CheckTornReply` (an answer read in two pieces), `UnpackFails` (one that ends the host), `Again` for `resend!`.
* **Gcode** - `process_command` from one command to the next: units, offsets,
  coordinates in micrometres and in steps, the centres of arcs, the settings of
  the laser, and of each queued block its steps, ticks, pulses. Divisions and
  roots are those of the C code, truncated and cut to their widths.
* **Clock**, **Display**, **Idle** - the interrupt of timer 0 with its chain of
  counters and flags (`TIMER0_COMPA_vect`), `micros()` with its critical section;
  the display's chip as a machine of nibbles and bytes and all that is sent to
  it; and `idle()`, G4 and single pulses of the laser as main's steps between
  which interrupts come, with `millis()` read byte by byte.
* **UsbData**, **Usb** - the banks of the two endpoints for data, the frame
  interrupt with its flush timer, the functions main calls; and endpoint 0 with
  the requests of a host. The selected endpoint is a variable both interrupts
  overwrite.
* **AvrFlags**, **Avr**, **AsmRoutines** - the instructions of `avrtest.c` as
  functions from machine to machine, with the flags of its tables;
  and the assembler texts of `asm.h`, `asm.c` and `main.c` as programs for it.
  `Step` is `do_step`, `Perform` the table of instructions.

How the state of the code appears: variables keep the names of the source
(`step_ctr`, `steps_to_go`, `home_mask`, `XOFF_STATE`, ...). `s->axis_mask` is split
into its axis bits, LASER_MASK and the nibble homing uses. `job`, modes and flags
are strings and sets of flags. `line`, `pixel`, `sent`, `reference`, `taken`,
`irqs`, `got` and `head_at` are history or environment, as are the lists of what
was sent and received in Sender and UsbData. The comment at each variable says
which values it has; `TypeOK` is a definition where a proof rests on it
(RingBuffer, StepCounter, UartFlow); other proof modules state the types
they need themselves (`MotionType`, `Coordinates`, `DataInv`). Each mutant operator ("Mutant of ...") is a
plausible mistake in the definition below it and no part of the model.

## 3. Runs

| run | what it shows | instance |
|---|---|---|
| `ring` | FIFO (`ImplementsFifo`), safe fill level on both sides (`UsedSafe`) | 4 slots (3 elements), 2 values: indices wrap, full and empty occur |
| `counter` | straight and complete lines (`FollowsLine`), close to the C form (`NearReference`); in every state of every job, each assembler text computes what it should and leaves everything else alone (`RoutinesCompute`) | all jobs of up to 24 steps and 26 events, real width 2^24 |
| `arc` | exact error term, planner and stepper agree on where an arc ends (`Lands`), and draw it on its circle | all arcs and full circles from the first quarter, both ways, radius 16 to 17 |
| `motion` | planner and stepper agree, drained is still, homing calibrates, waiting returns | two axes that home in opposite directions, started in the middle or on both switches, 3 targets, 3 commands of 7 kinds, queue of 2 |
| `laser` | dark jobs, dark rest, pulses end, own pixels, room comes | one axis; hosts that fire in every mode, that home in between, that send raster lines through a buffer of 2 bytes; 3 commands |
| `uart` | no overrun, no lost wakeup, a request to go on | receive buffer 16, transmit buffer 4, host lag 3 |
| `uart_host_resumes` | *violated*: XOFF is sent for XON | the same |
| `parser` | what is executed is what was sent (`ExecutesJob`), raster lines once and in order (`RastersOnce`), no byte out of bounds, jobs end, or the host with them | 6 jobs of up to 3 lines, one damaged character |
| `gcode` | no drift, right pace, right centres, as many pulses as the distance has, laser settings stay | 33 commands, sequences of 4 |
| `gcode_axes` | *violated*: the word Z takes the number of X | the same |
| `idle` | no flag lost, laser time measured, readable screens, waits long enough and ending | scaled clock of 84 rounds; three jobs: screens, waits, pulses |
| `usb` | order, nothing left behind, requests whole and ended, calls return, characters arrive while the port is configured | 2 banks of 2 bytes, 5 characters, real endpoint 0 |

Bounds, and why they are enough for what the runs ask:

* `W` is the real 2^24 except in `laser`, where an idle stepper keeps advancing
  the laser's counter through all its values. There it is 16, more than three
  times the steps of any job in that run, so a counter below zero carries where
  it does in the firmware.
* `QueueRoom` 2: one job running, one queued, one waiting for room, one being
  planned. All combinations of two consecutive jobs and of a full queue occur.
* `MaxCommands` 3 in Machine: the properties relate a job to the one before it
  and to the command that follows; a third command puts pressure on the queue.
  4 in Gcode: unit, origin, offset, move.
* Targets are at least two steps apart. A job of a single step loses it (section
  5), and `PlannerAgrees` is about everything else. Every multi-axis combination
  where one axis has a step count of its own still occurs.
* `IntRange` is the real 2^16: `abs` cuts a distance of steps to an int
  (`Apart`). Distances of the runs fit; one of 36000 steps, which Z can go, would
  come out as 29536, and planner and stepper part (section 5).
* `Regular` in Machine: a raster line asks for no more pulses than it has
  steps. Otherwise the laser's counter, once above zero, does not carry again: the
  line loses pulses, and its bytes stay for the next one.
* Assembler: operands come from the jobs of `counter`, so they reach all three
  bytes of the counter (it starts below zero) but not all values; the theorems on the
  texts (section 6) are about all of them. TLC's integers have 32 bits, so `TenComputes` stays below
  2^27 and `MulComputes` takes a second factor below 2^15. The other instructions
  of `avrtest.c` are translated, but only those the texts use are exercised.
* UART: XOFF is asked for by the byte that finds more than a quarter used (the
  sixth). Baud rates are the same in both directions, so while there is something
  to send, at most one byte arrives for each that leaves (`Sending`, `sinceSent`).
  XOFF can wait behind the byte in the shift register and the one in UDR1; after
  it, the host has `HostFifo` bytes on the way. The nine places left are more than
  those five or six; the margin of the 256 bytes in use is wider. A host that does
  not obey XOFF is outside of the property: nothing then stops the buffer from
  running over.
* Arc: radii of at least 16 steps (0.2 mm) that differ by half a step at most
  between the two ends. Below that, and for ends a step apart in radius (which
  rounding to steps can make), the planner's walk ends at a near hit or runs out
  of steps and the stepper stops up to a few steps off. Each arc is a single
  behaviour, and every octant is entered and left both ways. A centre in the
  start (I0 J0) has no octant and is left out.
* Parser: 16-bit words with one digit after the point instead of 32 bits with
  three, so that the largest numbers are four digits long; a raster line of 4
  bytes. One character in a job is lost or becomes one of eleven, among them all
  that change the parser's state. A longer job, or a second fault, repeats what
  one does: a line is judged by its own checksum. `MaxFull` bounds how often the
  firmware answers `full` and an answer is read in two pieces at most once.
* Gcode: the machine's real scales (79220 steps per metre in X and Y, 0.8 per
  micrometre in Z), speeds and positions; coordinates within 46 mm, because squares
  of more do not fit TLC's integers (`Reach`). `LongRange` is 2^29 rather than 2^32, so
  that the product of length and pulses per metre does overflow. Where the C code
  divides by zero the model takes any of `Unknown`.
* Idle: 4 counts of the timer to a round, 2 rounds to a millisecond, seconds of 4
  milliseconds; bytes of 3 values, so that every carry and wrap occurs within
  `MaxNow`. The pulse durations are the real ones at each limit of a prescaler.
  The display is real: all its states, 80 addresses, screens with the longest
  numbers that fit.
* USB: packets of 2 bytes and two banks, 5 characters: a bank fills, both fill, and a
  character is left alone. Timeouts of 2 frames of a counter of 3: a frame counter
  that wraps. Descriptor lengths and the 16 bytes of endpoint 0 are real, requests
  ask for lengths below, at and above them. One bus reset, one or two requests per
  job.

`CHECK_DEADLOCK FALSE` stands where a host may stop sending, where a job or a
bound ends a behaviour, and where the writer of LASER_RASTERDATA may wait for a
stepper that reads nothing. `idle` and `usb` have none: time and frames go on.

Assumptions of single properties, all of them met by the firmware in use or named
here because it does not always meet them:

* `FlagsServed`: main comes round twice in a tenth of a second (`MaxLag`, `FlagsAssumption`). The busy
  wait of a single pulse (`gcode.c:715`) is longer; flags are then lost, which
  skips an update of the display.
* Clock: no handler and no critical section lasts a whole round of the timer, 125 us,
  so that no round is lost. Two of them can: `laser_add_time`, called by a handler,
  counts a long pulse off millisecond by millisecond (`laser.c:226-229`), and the
  handler of the USB requests waits for the host (`usb_serial.c:763-774`).
* `LasingMeasured`: pulses are longer than a round of the timer, and less than a round
  passes in `laser_fire` from the time it takes to the pin, interrupts within it
  included (`MaxHold`). Main calls it with interrupts on (`gcode.c:712`), and only
  `micros()` keeps them off: `TakeTime` ends that, `LightUp` comes later. A pulse
  within a millisecond of the 71 minutes at which the sum of `laser_add_time` wraps
  (`laser.c:222-225`) is left out.
* `PulseEnds` is about the beam. Main may stay in P: the loop at `gcode.c:715` has no
  body and its flag is no volatile, so that a build may read it once (`PulseHangs`).
* `ScreenTells`: Y and Z have at most six characters; longer ones run over the
  next line. A shorter number for the laser leaves a digit of the longer one at
  column 19.
* `RastersOnce`: no line was refused for its form. The parser answers each character
  of such a line, so the answers the host reads are one behind from then on.
* `JobEnds`: no raster line is as long as `base64_bytes`; it is answered with
  `resend!` however often it is sent. No newline is lost: the host then waits for ever.
  The job ends by its last line or with the host: an answer cut off behind its `OK`
  raises an exception nobody catches (`pysend.py:28`, `UnpackFails`). One cut off
  within its number gives the host a wrong count of free places (`Torn`).
* `ArcRight`: R arcs have two ends; `PaceRight`: a move has steps in X or Y.
* `CallReturns`: the host sends frames. With the cable pulled, `usb_serial_putchar`
  waits for ever.
* `Arrives`: the host listens and the port stays configured. SET_CONFIGURATION enables
  and resets the endpoints whatever its value (`usb_serial.c:869-880`), 0 included. A
  function that looked at `usb_configuration` before still puts its character, and the
  frame interrupt, which finds 0 (`usb_serial.c:747`), never sends it.

## 4. Fairness

* `Irq`: timer 1 is never stopped after `stepper_init`, so its interrupt
  recurs. Weak fairness.
* `Timer3`: a started timer reaches its compare value, unless something stops
  it. Weak fairness.
* `Main`: interrupts take less than all of the time, and main's waiting loops
  test their conditions again and again: each calls a function or reads a volatile in
  its body. The exception is the empty loop at `gcode.c:715`, where main goes on
  (`PulseDone`) or stays for ever (`PulseHangs`). Weak fairness of its steps. `Command`
  has none: nobody has to send anything.
* UART: `Udre` and `Receive` are interrupts of a running peripheral, `HostReceives`
  the wire. `HostSends` has no fairness.
* Sender: weak fairness of `Host \/ Deliver`. `pysend.py` is a loop and the port
  delivers; faults have none.
* Idle: `Tick` and `Interrupt` (a running timer with interrupts on), and `Main`
  while there is something to do.
* USB: one of the two interrupts when one is pending; main's return to what it
  did; the next frame; a host that finishes its requests, and one that reads if it
  listens. Whether it listens is chosen at the start: a host may never open the
  port, and then `Arrives` says nothing, but `CallReturns` still does. A host reads
  and writes characters only while the port is configured.

Weak fairness is enough for the waits of main since what they wait for stays
true until main itself moves (an empty queue, an idle job), or, for room in a
buffer, because only main takes it.

## 5. What disagrees with the code's own words

Two runs expect a violation; the findings in `PROJECT.json` quote the lines.

1. `HostResumes` (run `uart_host_resumes`): the branch of `uart_getchar` that should
   send XON sends XOFF.
2. `GoesAsTold` (run `gcode_axes`): `gcode.c:138` takes the number of X for the word
   Z, against the comment at `gcode.c:113`.

The following came up while modelling. The models do what the code does; where a
property excludes such a case, section 3 says so.

Stepper and laser:

* A job of one step starts its counter at -(1/2) = 0 and never carries
  (`stepper.c:998`, against `stepper.h:116`): the planner counts the step and the
  positions drift apart.
* Fetching a job sets `last_mode` to OFF (`stepper.c:905`), so the tests for CW to
  PULSE and back (`stepper.c:714`) are never true, and a pulsed line starts
  with the beam of the line before it.
* After a line, the single pulse of `P` is cut short by the idle stepper, which
  still acts on that line's mode (`gcode.c:711`, against the comment at `laser.c:99`).
* A single pulse of no length only stops the timer (`laser.c:107`); main then waits
  for ever at `gcode.c:715`.
* That loop, `while (laser.laser_is_on) ;`, reads a plain bool of a plain struct
  (`laser.h:45`); optimised, it need not see what the timer's handler writes.
* `lasing_time` is never incremented, so the part of `idle()` that looks at it does
  nothing.
* Pulses shorter than a round of timer 0 may be measured as 71 minutes.

Parser, host and G-codes:

* `;` or `(` right after a fraction is an error (`parser.c:401`, `parser.c:263`,
  against `parser.c:21`).
* A raster line as long as `base64_bytes` is answered with `resend!` for ever.
* The words of G92 and G28 ignore inches (against the README, line 27).
* An R arc without a centre goes straight, and its words for the laser are ignored.
* A move without steps in X and Y, and an arc that ends where it starts, divide by
  zero. A negative G4 waits for 50 days.
* `abs` has an int of 16 bits for its argument: a move of 36000 steps in Z is queued
  with 29536 (`planner.c:45`).
* `pysend.py` dies of an answer cut off behind its `OK` (`pysend.py:28`).

USB, display and assembler:

* The packet of no length that should follow a full one is left out when both banks
  are full (`usb_serial.c:753`, against `usb_serial.c:72`).
* A character put while the host sets the configuration to 0 may never be sent.
* `usb_init` enables interrupts (`usb_serial.c:339`) before the rest of `setup()`.
* The comment at `lcd.c:93` expects one call to synchronise the display every
  second time; sent by nibbles, every call does.
* `asm.h:51` says that C is 0 after CLR, which leaves C alone. Nothing relies on it.
* The simulator's half-carry table for subtraction is built with the formula for
  addition (`gen-flag-tables.c:153`). The firmware never reads H.

## 6. Proofs

Checked by TLAPS for every value of the constants (within the named ASSUMEs).

* **RingBufferProofs.** `TypeCorrect`; `UsedIsSafe` (`UsedSafe`, both directions);
  `Refinement` (`ImplementsFifo`). The invariant adds to the type that a side
  between two of its steps still has what it saw: room for a producer past its
  test, an element for a consumer past its test, and for a half-done `used` an
  operand that can only have moved in the harmless direction. Assumptions:
  `Size >= 2`, one producer, one consumer. Nothing needs `Size` to be a power of
  two once the mask is read as wrapping.
* **KernelProofs**, the counters. `TypeCorrect`, `StepsExact` (`AllTaken`), `LineStraight`
  (`Straight`), `LineDrawn` (`FollowsLine`, both together), `CarryLikeSign`
  (`NearReference`). The invariant is the closed form of the counter: start + irqs *
  add - taken * total, between -total and 0 modulo W. It needs `total <= W` and
  `add <= total`.
* **KernelProofs**, the assembler texts, run by the instructions of the simulator from
  every state of the machine and in every allocation of their operands to registers:
  `AdvanceForAll` (`ADVANCE_STEP_COUNTER` is `Advance` of `StepArithmetic` for W = 2^24,
  for every counter, addend and subtrahend), `PositionForAll` (`ADVANCE_POSITION` adds 1
  or -1 to every position), `MulForAll` (`mul16SHR16` is the upper half of the product of
  any two words), `TenForAll` (`times_ten` for every number whose tenfold fits 32 bits,
  wherever the stack is), `DetectionForAll` (the simulator is told from a chip). Each
  says too that the text ends behind its last instruction and changes only what it
  declares. `CompareExtends`: a CP followed by CPCs compares numbers of several bytes.
  `Execute` is turned into a sequence of states (`ExecuteRuns`), each the `Step` of the
  one before; lemmas say what one instruction does to a byte, to C and to nothing else
  (`Does`), chain additions through C (`Sums`), and follow each text one by one.
  `RoutinesRight` (`RoutinesCompute`) puts the operands of a job in: in every state of
  every job whose numbers fit the counters, all five texts compute what their C forms say.
  The limits of the run (section 3) are not limits of the theorem.
* **KernelProofs**, the arcs. `ErrorTermExact` (`ErrExact`): the error term, kept by increments,
  never drifts, for any arc; with it `dx` and `dy` stay twice the coordinates. The
  step from one point to the next is a lemma on squares (`SquareGains`), and the
  octant only has to stay one of eight.
  `DrawsOnCircle` (`OnCircle`): the walk stays within a step of its circle, for any set
  of arcs, long or short, that are `Circular`: eight steps or more in radius, with ends
  that differ in radius by half a step at most (`SameCircle` of the run, which starts at
  radius 16). The code checks neither, and an arc whose ends lie on different circles
  starts off the second. The invariant `Walk` turns the point back to the first quarter
  (`TurnBack`). There it lies in the octant the kernel takes it to be in (`Placed`), and the
  error is at most the larger coordinate or the error of the start, or one more in the
  step that entered an even octant clockwise (`Near`, `Fresh`); it was checked with TLC on
  the run `arc` first. A step of the walk changes the error by twice a coordinate and
  one; that it is taken only when the error is past half of that, and that the test for
  the end of the octant comes before the next step, keep it there.
* **MachineProofs.** Each invariant is the one before it and something more.
  * `JobsAreDark` (`DarkJobs`), `WaitingWaits` (`DrainedIsIdle`), from `DarkInv`.
    `Quiet`: during a job without laser the mask is clear, `mode` and `last_mode` are
    both off and the pin is low, so no interrupt of it has a reason to fire. `Still`:
    whenever main may touch the laser itself, the stepper is idle with nothing
    queued, which needs `pc` and `after` to be related.
  * `HomingCalibrates` (`HomeIsCalibrated`), from `HomeInv`: the types, what an axis
    that left the mask has seen (`Homing`, `Backing`), and where the last homing that
    main asked for is (`LastHome`): still the last of the queue, looking for the
    switch, leaving it, or done with nothing moved since.
  * `PlannerKeepsUp` (`PlannerAgrees`), `DrainingArrives` (`DrainedIsStill`), from
    `PlanInv`: the counters within their range (`Counting`), and a path of places from
    the landing of the current job through those of the queued jobs to the planner's
    position (`Chain`). A step takes one from `Remaining` exactly when the counter
    carries, and at the last step nothing remains (`RestSteps`, `RestEnds`).
    Hypotheses: `[]ProperJobs`, no job is a single step long or longer than a counter
    counts, and `[][ShortMove]_vars`, no move or line goes further on an axis than an
    int counts. Both are needed: a job of one step loses it, and `abs` cuts a distance
    (section 5). `SpacedIsProper` shows that they are met whenever no two targets are
    one step apart on an axis, or too far apart for a counter or an int, as those of
    the runs are not.
  * `LinesOwnPixels` (`OwnPixels`), from `PixelInv`: the bytes in the buffer and those
    main still puts can be cut (`Divided`) into those the current line still takes and
    those of each queued line, in order. Its count is the same `Rest` as that of an
    axis, applied to the laser's own counter; that it reaches 0 when the job ends is
    why no line takes from the next one. `ResetRaster` finds nothing to throw away.
    The same hypotheses, and `Regular` of the model.
  * `TimerFits`: for every duration of a pulse the compare value fits the 16 bits of
    OCR3A and ends less than a tick early. `RefusedOnly`: the only durations for which
    the laser does not light are none at all and those that no prescaler reaches.
* **UartFlowProofs.** `TypeCorrect`, by a split of the type into counters,
  sequences and flags; `WakeupKept` (`NoLostWakeup`), which is inductive; and
  `NeverOverruns` (`NoOverrun`) for every `RxSize` and `HostFifo` with `Margin`, a
  quarter of the buffer and five places more than the host's bytes: with 256 bytes,
  a host may still send 187. The margin is exact in the instances tried with TLC
  (with 16 bytes and 7 from the host nothing is lost, with 8 `NoOverrun` fails). The invariant has six
  phases: XON of `uart_init` waits (`Starting`) or is on its way (`Permitting`), the
  host sends (`Running`), XOFF is asked for (`Wanted`), is on its way (`Stopping`), has
  arrived (`Stopped`); each has its budget of bytes that can still come. There is no
  seventh, since the request for XON is served with XOFF (section 5).
* **ParserProofs.** `RasterBytesInBounds` (`BytesInBounds`): for every size of the
  array, every alphabet and every host, no character writes behind
  `base64_bytes`. The invariant is that the next byte has a place unless the line is
  already refused; one lemma per state of the parser shows that it stays so.
  `JobExecuted` (`ExecutesJob`): for any jobs, alphabets and bounds, what the host sends
  is executed in order, each command once. Hypothesis: `JobsLegible`, every line alone,
  read from a fresh parser, gives what it means or is refused; MCSender has TLC evaluate
  it for the jobs of the run (`LinesAreLegible`). So what one line does is checked line
  by line, and that nothing of a line reaches the next one, that no answer is taken for a
  request to send again and that no line is skipped or doubled is proved. The automaton
  is written once more as a function of state and character (`Read`, `CharacterReads`),
  so that its run over a text is a recursive function (`Reads`). The invariant `JobInv`
  cuts what is under way into pieces, empty lines and lines of the job (`Pieces`): of the
  first one the parser has read so many characters and is in the state these lead to
  from `Fresh`, and the log is that of the lines before it (`Progress`). There may be
  many pieces, since the parser answers each character of a refused line and the host
  takes any of these answers for its own.
* **UsbProofs.** `CharactersInOrder` (`InOrder`), `FlushedInTime`
  (`NothingLeftBehind`), from `DataInv`, which relates what is in the banks, packet by
  packet, to what was accepted and what was read. The lemmas on `Flat`, the packets
  joined, hold for every number of packets. `DescriptorsWhole` (`DescriptorWhole`),
  from `ControlInv`: what the handler has still to send and what the host has got are
  together what was asked for, or as much of it as there is, at every stage of a
  request, one that is broken off by the next or by a reset included.
* **GcodeProofs.** `NeverDrifts` (`NoDrift`): the planner stands at the steps of the
  destination whatever was commanded, for every resolution of the axes, and a relative
  coordinate in inches loses at most 4/5 of a um (`DriftInv`, `CoordinateNear`).
  `SettingsStick` (`LaserSticks`, an action property) rests on the type of the settings
  alone (`IsLaser`). `RootRoundsDown`: `_sqrt_u64`, a loop of `Rounds` rounds from the
  highest bit, returns the root rounded down for every argument of its range: in each
  round `num` is the argument less the square of the root so far, and the argument is
  less than the square of the next root possible.
  `PulsesFitLines` (`PulsesAsLong`) needs that root: the length of a line from its
  coordinates and the length from its steps differ by less than the tolerance.
  Hypothesis: `ReachFits`, moves whose steps fit an `int` and whose squares fit the
  root; the constants of the run meet it.
  `LinesKeepPace` (`PaceRight`), from `PaceInv` (`DriftInv`, a speed between the least
  and the largest), under `ReachFits` and `Configured`, the resolution, the clock and the
  speeds of hw_config.h: for these scales, but for any commands before. A line of a
  millimetre or more has 158 to 160 um squared per square of a step (an inch that was
  rounded and a root that was cut off included); the two divisions that make its ticks
  lose 1.2% at most; and the ticks stay below 57600, within their 16 bits.
* **IdleProofs.** `WaitsInFull` (`WaitsLongEnough`, an action property), from `WaitInv`:
  what main has in `tmp` was put together from the clock at two moments `a <= b` of the
  wait, and it has counted no more changes than milliseconds that had begun by `a`. A
  value torn between its parts may differ from the clock though nothing passed, but not
  from the parts of one and the same moment; so each change counted is a millisecond
  that began after the last look, whatever the order in which the parts are read.
  `LasingCounted` (`LasingMeasured`), from `LasingInv`: each value of `micros()` is a look
  (`Sampled`) at the timer no longer ago than `laser_fire` takes, one round
  behind or none; the difference of two of them, and of nothing else, enters the time of
  the laser, over any wrap of `micros()` and every carry of `laser_add_time`. Assumptions:
  `laser_fire` takes less than a round of the timer from the time to the pin, and the time
  of the laser counts further than `micros()` does (`TimesAssumption`).
  `EveryFlagServed` (`FlagsServed`), from `ServeInv`: the counters of the clock's chain are
  digits of the milliseconds (`ChainInv`; a level runs out when its product of radices
  divides them), the milliseconds are the rounds of the timer but one that waits
  (`RoundsInv`), and a flag is set no longer ago than main's way to its test (`Soon`,
  `Late`). So when the next tenth of a second is over, main is not between the read and
  the write of the byte, and the flag of the last one is served (`AgeOver`). Assumptions:
  `FlagsAssumption`, two passes of main and a round of the timer within a tenth of a second.

Sums, joined packets and loops are recursive functions in the models. What they compute
is proved by induction over a set of numbers: there is a function that satisfies the
equations (`LoopExists`, `JoinExists`), it is the one that CHOOSE yields, and the set of
arguments for which the claim holds contains 0 and with each number the next
(`Induction`, from the least element of a set of naturals).

Only model-checked:

* All liveness (`DrainReturns`, `RestIsDark`, `PulseEnds`, `RoomComes`,
  `AsksToResume`, `JobEnds`, `WaitEnds`, `RequestsEnd`, `CallReturns`, `Arrives`): fairness
  is about ENABLED, which the provers do not reason about.
* `Lands`: it holds for the radii of the run and not for every arc (section 3, Arc);
  how large a radius has to be is not known in closed form.
* `ArcRight`: its tolerance holds for the arcs of the run and not for every arc. A chord
  short against the radius leaves the centre ill determined, and coordinates below zero
  are rounded up to a step and a half off (`position2steps`).
* `RastersOnce`: what the checksum catches depends on the texts of the lines and on the
  damage. That each line of the jobs is read as what it means (`JobsLegible`) is
  evaluated by TLC as well; it is a matter of these texts.
* `ScreenTells`: it is about the texts the constants give, character by character.

## 7. Not modelled

* Speeds as the stepper uses them: OCR1A and the ramp. They decide when an
  interrupt comes, and in Machine it may come at any time. (Gcode has the ticks
  and the speed of each block.)
* Pixels of less than a byte (`modbits`); duties of the PWM beyond on and off.
* Arcs as jobs among others: Arc draws them one at a time, without the laser.
* `kill()` ends a behaviour; a restart is `Init` with the host in either state.
* Configuration store and watchdog: compiled out.
* USB: `usb_serial_write` with its unrolled copy (`usb_serial.c:504`), `flush_input`,
  the control lines, halting of endpoints. Nothing in the firmware calls them, or
  no property depends on them.
* Simulator: decoding of instructions, loading of ELF files, logging, the graph,
  performance, options, and system calls of the host's. They print and read files; what
  could be wrong there is no matter of states.
* File names (M23) that fill their array; the scripts that draw test jobs.
* `XOFF_STATE |=` outside of a critical section in `uart_getchar`: unreachable from
  `loop()`, which calls it only after `uart_available`.

## 8. Plan

Done: buffers, counters with their assembler texts, stepper with laser and main,
port, arcs on their own, parser and host, G-codes, clock, display and idle, USB.

Left, in this order:

1. `RasterBits`: `modbits` and `valid_bits`, every modulation, against the
   definition "n-th group of bits"; composed with `TakePixel`.
2. Arcs as jobs of Machine, with the laser.
3. Proofs: damaged lines (`RastersOnce`); the radii for which
   planner and stepper agree (`Lands`).
4. `usb_serial_write`.
