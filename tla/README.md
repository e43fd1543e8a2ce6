# Cobra Combat: a verification project

Cobra Combat is a two-player snake shooter on a DE10-Lite FPGA board. SystemVerilog
modules draw the game and run it; a Nios II processor on the same chip runs C code
that reads a USB keyboard through a MAX3421E host controller and writes the keycodes
into a register that the hardware reads. This directory holds TLA+ modules that model
the program, the TLC configurations that check them, and proofs, checked by TLAPS, of
the results that matter most. `PROJECT.json` says which lines of the source each
definition stands for, which hazards the code has and which property is about which.

## The system

Four activities run at once, each at its own pace, and interrupts cut into the last:

| clock | source | what moves on it |
|---|---|---|
| `Clk`, 50 MHz | the board | magazines, headings, apple and egg registers |
| `vga_clk`, 25 MHz, one edge per pixel | `clkdiv` in `VGA_controller.sv` | pixel counters, bullet machines, hearts, obstacle flags, generators |
| `frame_clk` = VS, 60 Hz | `vs` in `VGA_controller.sv` | snakes, flight of the bullets, `ISDU`, `Second_Counter` |
| the loop of `main` | `main.c` | USB host, keycode and seed registers, `printf` |

There is no handshake between the first three: a machine reads the registers of another
clock as they are. Collisions are found while drawing: a pixel that belongs to a bullet
and to a snake is a hit, and a pixel beside a snake that belongs to an obstacle stops it
at the end of the frame. What goes wrong in this design goes wrong between two clocks,
between the software and the plug, or where a number comes round to 0.

| component | state | operations | reads from, writes to |
|---|---|---|---|
| magazine (`venomCountMachine`) | slot to fire, waiting for release or reload | reset, pull, release, reload | key; end screens; apple pixels; the bullets compare its slot with theirs |
| bullet (`venom_stateMachine`, six) | Halted, Idle, fired, moving | launch, land, reset | key, magazine; pixels of walls and of the other snake |
| flight (`venom`) | position, motion, direction | move, return to the snake | bullet machine; heading; its disc is drawn |
| hearts (`health_stateMachine`, two) | place in a chain of 13 states | hit, three quiet pixels, reset | pixels; end screens; `ISDU` reads the count |
| round (`ISDU`) | 24 states, frame and second counter | frame | hearts, key 88; its end screens reset hearts, magazines and snakes |
| screen (`VGA_controller`) | hc, vc, sync pulses | pixel | drives both other clocks |
| snakes (`snake`, `snake2`) | position, motion | move, bounce, be pushed back | keys, headings, obstacle flags |
| obstacle flags | OB1Flag, OB2Flag | set and cleared while drawing | obstacle pixels, headings; the snakes read them |
| headings (`move_stateMachine`, `regUnit`) | last direction | load | keys |
| apple, egg | coordinates, two generators; seconds, two flags | reload; seconds of a round, taken | walls, snakes, the seeds of `main`; end screens |
| loop of `main` | `runningdebugflag`, `errorflag`, `device` | poll, show, restart, sleep | USB task state; keycode, digits, LEDs, velocities, seeds |
| `USB_Task` | `usb_task_state`, device table, address, settle limit | one case for each state | transfers; chip registers; clock |
| interrupt handler, `MAX_busprobe` | `usb_task_state` | probe, acknowledge | chip registers |
| HID probes | `bigbuf`, table entries | read, walk, configure | transfers |
| transfers | retries, toggles, time limit | dispatch, in-transfer, control | chip registers, clock |
| register access | SPI master, chip select | command | the MAX3421E |
| JTAG UART driver | two circular buffers, enables, timeouts | write, read, close, ioctl, handler, alarm | `printf`; the host's console |
| alarms | linked list, clock | start, stop, tick | timer handler; the UART's second |
| file descriptors | table, flags, locks | open, close, read, write, ioctl, fcntl | devices |
| interrupts and boot | PIE, ienable, handler table | register, enable, disable, dispatch, `alt_main` | timer, UART |

What each must do, in a sentence: a pull launches one bullet and costs one venom and at
most one heart; no bullet passes a wall in flight and no snake enters an obstacle it
heads for; a round is decided once and shown; the picture is drawn whole between two
frame edges; the software enumerates what is plugged in, ends what it began, takes each
answer for the packet it belongs to and passes on only what a keyboard typed; and the
services below it lose no character, no tick, no descriptor and no interrupt.

## Modules

| module | models | what it is checked against |
|---|---|---|
| `Duel` | magazine, bullets and hearts of one direction of the fight | implements `Hearts` |
| `Hearts` | what the display of hearts promises; `Round` implements it too, for both snakes | |
| `Round` | `ISDU`, its counters and the hearts it reads | implements `Match` |
| `Match` | what a round promises: a verdict, then its end screen | |
| `VgaController` | `VGA_controller.sv` | |
| `Snake` | one snake, its heading and its obstacle flag, over the lines of a frame | |
| `Flight` | one bullet in the air, over the rows of its disc | |
| `Prizes` | the apple with its generators, and the egg with its seconds | |
| `UsbHost` | `main.c`, `USB_Task`, the handler, the probes' outcome; chip, bus and devices | |
| `Transfer` | `XferCtrlReq`, `XferCtrlData`, `XferCtrlND`, `XferInTransfer`, `XferDispatchPkt` against chip and device | implements `Request`, while the chip is in time |
| `Request` | what a control request promises `UsbHost`: success only once the device has carried it out | |
| `UsbTime` | the two waits on the clock | |
| `HidProbe` | `HIDMProbe`, `HIDKProbe` over a device's descriptors | |
| `MaxSpi` | `alt_avalon_spi_command` and `MAX3421E_reset` against the SPI master | |
| `Panel` | what a pass of `main` writes into the registers of the game and the panel | |
| `JtagUart` | the driver's calls, its handler, its alarm; the UART and its host | implements `Channel`, each way |
| `Channel` | what a direction of the UART promises | |
| `Alarms` | `alt_tick`, `alt_alarm_start`, `alt_alarm_stop` and their list | |
| `Files` | descriptors, locks and streams | |
| `Interrupts` | `alt_main`, registration, dispatcher, critical sections | |
| `MCPicture`, `MCRound`, `MCDriver`, `MCJtag`, `MCBoard` | compositions for the runs, see below | |
| `DuelProofs`, `RoundProofs`, `PictureProofs`, `UsbProofs`, `TransferProofs`, `DriverProofs`, `JtagProofs`, `BoardProofs` | the theorems | |

How they meet. `Duel` and `Round` meet in `Hearts`: `Duel` shows that what a player sees
of a snake under fire is `Hearts`, one heart at a time and all back at an end screen,
and the hearts `Round` reads move by the steps of `Hearts` and no others
(`RoundKeepsHearts`). `Snake`, `Flight` and `Round` move on the frame edge of
`VgaController` and rest on its promise that the edge lies outside the picture. In
`UsbHost` a transfer succeeds or fails as a whole; in `Transfer` a control request is
what the packets make of it, and the two meet in `Request`: one that succeeds has been
carried out by the device, one that fails may have been (`TransferImplementsRequest`);
the time limit is an event in `Transfer`, and arithmetic in `UsbTime`; a register access
is one step in all of these and a train of bytes in `MaxSpi`. In `Panel` a device that
was enumerated anew has been seen by `main` in another state between, which is what
`Forgotten` in `UsbHost` shows. `JtagUart` and `Alarms` take it that no handler
interrupts a critical section or another handler, which is what `Interrupts` shows. Each
module begins with a comment on its correspondence to the code.

**Duel.** A pixel is two edges of `Clk` and one of `vga_clk`, in any order (`due`),
because a machine on one clock may sample the other before or after it changes. `venom`
and `ammo` are the enumerated states of the code; the numbered states `VenomN`,
`Wait_stateN` are one state and `venomCount`. What a pixel shows is chosen freely for
each edge. Keys and end screens last milliseconds, so that they do not change again
before both clocks have sampled them (`unsampled`); `halt = "reset"` stops `vga_clk` as
KEY0 does. An end screen resets the magazine and the hearts, and leaves the bullets in
the air; KEY0 resets all. `fresh`, `used`, `served`, `refilled`, `rearmed`, `budget` and
`heldLanding` are history: no guard reads them. `Spec` is written for `NVenom` slots; the
code has three.

**Round.** One action for each group of states of `ISDU`, each of them a whole edge of
`frame_clk` with the counter beside it (`Frame`). `cntr_rst` is an asynchronous reset
held for the frame of `V6` or `V61`. Between frames a snake may lose a heart, the key
may change and KEY0 may go down.

**VgaController.** One action is one pixel, with the registered sync pulses computed
from the counters as they were. The screen's size is a CONSTANT.

**Snake.** A frame is drawn line by line (`DrawLine`); only the lines beside the sprite
can set the flag, and the keys may change between any two of them. `MoveBall` is the edge
of `frame_clk`: the old motion moves the snake, or the flag pushes it back along the
heading of that moment; the new motion is the first of the four bounces that applies, or
the key. Positions wrap as the code's 10 bits do. `EndGame` and `Reset` differ as in the
code: an end screen leaves the flag and the heading. `Obstacles` are the pixels that set
the flag (line 1256 of `colorBGD_example.sv`). They are more than those the player sees:
one palette entry differs from the background in one colour only and is not drawn, so
that the real map has an invisible fringe of obstacles.

**Flight.** `BulletEdge` moves the bullet by the motion it has and then loads the motion
of its direction, so that the first frame of a flight still uses that of the flight
before; a bullet at rest is put on the head. `DrawRow` ends a flight at a row that meets
a wall or, freely chosen, the other snake. `Halted` and `bulletFired` last a pixel and
are passed. The end of a game recentres the snake (`head'` in `Heads`).

**Prizes.** The two generators share clock and reset (`RandomEdge`), and are seeded by
two bits that `main` writes at any time (`setRandCord`). `LoadX` and `LoadY` are one
signal; outside the field it holds until a coordinate inside is shown (`LoadOutside`),
and at the apple's middle pixel it fires under a wall or a snake (`LoadCovered`). The
egg's coordinates are loaded and used by nothing: it is drawn at a fixed place.

**UsbHost.** An action is the code from one place where the world may interfere to the
next: the read of the request register, the probe, the acknowledgement, one call of
`USB_Task`, one arm of `main`'s `if`, the two halves of `MAX3421E_init`. `usb_task_state`
is the byte, with its masks and its increment. The bus shows a device, SE0 or SE1, and
may change between any two actions; a device answers at its address unless it is being
reset; any transfer may fail. The chip is external: its request bits, its bus reset and
start of frames do what the code and its comments take them to do.

**Transfer.** The program launches a packet (`Launch`), waits for its flag (`SeeDone`) or
the time limit (`Expire`), and reads the result (`Result`), with the counts of NAKs and
time-outs. The chip and the device run beside it: packets and handshakes are lost, the
device NAKs, stalls, or falls silent for good. `owed` is history: the data a device saw
acknowledged less the data handed to the caller. Data are counted, not looked into.

**UsbTime, HidProbe, MaxSpi, Panel.** `UsbTime` has the product `nticks * 1000` modulo
the word and the limit, a sum, outside it; an action is a tick or a look at the clock.
`HidProbe` walks a sequence of descriptors in a static buffer that holds what the last
device left there. A transfer fails, or succeeds with all that was asked for or with
less, as a short packet ends it; `missing` is history and says where the answer broke
off. What is walked behind it is an earlier device's, which no property excludes and the
properties say. `UsbHost` takes the outcome of a probe for the class of the device,
which is so where answers are whole. `MaxSpi` has the credit loop of
`alt_avalon_spi_command` and the SPI master (`finalprojsoc_spi_0.v`), which holds one
byte in each of its registers; bytes are positions, so that an answer is right when it
holds the positions asked for. `Panel` has the C arithmetic on signed chars and the bits
of the shared digit and LED registers.

**JtagUart.** The program's calls are cut at each access to what the handler shares: an
index of a buffer, `irq_enable`, the control register. The handler is cut at its loops,
the host acts between any two of its steps. A second is an alarm that counts up to
`timeout` while no host is there.

**Alarms, Files, Interrupts.** The list is modelled pointer by pointer, the clock modulo
its word, and `togo` counts, without a width, the ticks until each alarm is due. `Files`
has one action for each call, with its error paths. `Interrupts` has the program from
`alt_main` to `main` as a sequence of steps with critical sections among them, and the
dispatcher's loop; lines rise at any time.

## Runs

Components that share no variable are checked side by side in one run: the initial state
chooses `part`, only that part moves, and no action of one part reads a variable of
another, so that the states of the run are the sum of the parts' states and not their
product, and a property of one part holds of the others because they stand still.
`MCPicture`, `MCRound`, `MCDriver` and `MCBoard` are such sums; `MCJtag` lets the program
either write or read, because the two ways of the driver have a buffer each and TLC
cannot hold both at once (the theorems about them do). The proof modules of the sums,
`PictureProofs`, `DriverProofs` and `BoardProofs`, prove each part's properties for that
part's own specification, of which the run's is the same part beside others at rest.

| run | question | bounds and why they are enough |
|---|---|---|
| `duel` | does a pull launch, charge and hurt once, whatever the two clocks, pixels and players do, and does a hit reach the display? | two slots, so that there is a slot to pass to and a last one; the theorems have any number; `budget` stops at `NVenom + 4`, above every value it is compared with |
| `round` | is the round decided once and shown, does each press count once? Does an apple that was moved away come back, does an egg go? | the code's 60 frames; `counter` stops at 2, it is only compared with 1. Coordinates of three bits, with a field of a half each way: as in the code, the two limits add up to no more than the range, which is what makes opposite generators miss it. The code's seconds, 25 and 28 |
| `picture` | is `frame_clk` outside the picture and the picture whole? Does a snake enter what it heads for, does a bullet pass a wall? | the code's screen, 800 by 525; pixels are counted to one more than a picture (`MostDrawn`). A snake of side 4 in an arena of 18 by 16 whose wall is wider than half a sprite and narrower than one, as on the real map, with a block in it, and a bullet of radius 2 and step 2 among walls one pixel thick; the theorems have any size |
| `snake_left` | does a snake stay on the screen? | finding |
| `shot_from_wall` | does a shot start at its snake? | finding |
| `usb` | is only a keyboard typed from, does `main` find its entry, is the reset waited for, does every enumeration end once the plug is left alone? | three addresses instead of seven: enough for a table that is empty, partly and wholly taken by failed enumerations |
| `transfer` | is a result the packet's own, is everything acknowledged handed on once, is success complete, does a request end? | limits of 2 for NAKs and time-outs (200 and 3 in the code), packets of 2 units, requests of two packets: the counts are compared, never computed with |
| `driver` | the four small parts of the USB software, below | a clock of 64 values at 3 per tick; up to four descriptors, every type, those of length 0 among them, in a buffer of three (an interface and an endpoint behind the configuration), and answers of every length; what does not fit the buffer is not told apart; accesses of 0, 2 and 3 bytes, one after another in any order; two keys, displacements on both sides of the sign and of a hundred |
| `usb_time_settle` | does every settle delay end? | finding |
| `jtag`, `jtag_live` | is each way a channel, is no wake-up lost, do calls end? | buffers of 3 and FIFOs of 2 with threshold 1: they fill, wrap, and are drained across the threshold; calls of 1 and 3 characters, less and no less than a buffer; two different characters tell orders apart (one for liveness) |
| `board` | three services below, below | three alarms on a clock of five values, delays and periods of 0 and almost a word; six descriptors, three of them streams; three lines, one of them nobody's |

What the properties say is stated above each of them. Those of the sums, in short:

* `driver`: no wait on the clock is cut short (`NotEarly`), and every wait whose limit the
  clock can pass ends (`Ends`); as far as the device has answered, a probe reads this
  device's bytes and asks for all it walks over (`OwnBytes`); a device runs only as the
  first interface in the buffer is, which is its own up to the same limit, and never in a
  class that a failed probe left (`RunsAsItIs`); every probe ends or stands at a
  descriptor of length 0 (`ProbesEnd`, where `Stuck` is exact); an SPI access
  hands back its own answer (`OwnAnswer`); the panel shows both numbers of the last
  report (`PanelShows`), and a change of keys comes to the game (`KeysFollow`).
* `board`: the alarms' list is doubly linked at every moment (`Linked`) and every alarm is
  called at its tick and no other (`OnTime`), across the wrap; no descriptor leaks
  (`NoLeak`) and a lock holds (`LockHolds`); the dispatcher calls only what is wholly in
  the table (`HandlerThere`), critical sections stay whole (`SectionsWhole`), and a line
  that rises is served (`Served`).
* `picture`: `NoBlindStep` is about a snake whose heading is that of the whole frame and of
  its motion. Without those two conditions it does enter obstacles, which is where
  `snake_left` begins.
* `round`: `PrizesInTime` holds up to `Stuck`, which is exact: a generator of ones with seed
  1 stays so, and so do two generators with different seeds that show opposite numbers.
  They never show a place inside, because the two limits 600 and 400 add up to less than
  1024, and an apple moved outside then stays away until `main` changes a seed
  (`StaysAway`, a theorem).

### Findings

* `snake_left`. A key tapped within a frame turns the heading and not the motion. A snake
  that moves along A and heads for S enters the left wall unseen; taps of W and D there
  push it on, out of the wall and across column 0, and the 10-bit position wraps: it
  comes back at the other end. The bounce does not help, as its motion counts one frame
  later and the push back overrides it. `snake.sv:62` and `README.md:5` say otherwise.
* `shot_from_wall`. A bullet that lands while its trigger is held is launched again two
  pixels later, where it lies, and no edge of `frame_clk` has taken it back to the head:
  it passes through the wall, three pixels a frame.
* `usb_time_settle`. `alt_nticks()*1000` wraps after 4294967 ms. A settle delay begun in
  the last 200 ms before that has a limit no later time exceeds: the enumeration stays.

Smaller ones, which have no run here. Where a constant shows one, it is given; the
formula is in the module and can be put in a configuration.

| module | what the code does | where |
|---|---|---|
| `UsbTime` (`TransferTimesOut`) | the wait of a transfer begun in the last five seconds before the wrap never times out | `transfer.c:153` |
| `Transfer` (`ResultIsOwn` with `LateChip = TRUE`) | a packet that ends after its time limit leaves `HXFRDNIRQ` set, and the next dispatch reads the result of a packet still under way | `transfer.c:151` |
| `Transfer` (`DocumentedCodes`) | a time-out comes back as 0xff, the comment says fe | `transfer.c:190` |
| `Duel` (`OneBulletPerPull`) | a trigger held over an end screen launches slot 0 while the bullet it has launched before is still in the air: the end screen resets the magazine and not the bullets | `colorBGD_example.sv:244` |
| `HidProbe` (`WholeConfiguration`) | an answer that a short packet ends counts as "the whole configuration": the walk goes on over bytes of an earlier device, by whose interface and endpoint this one may then run | `HID.c:36`, `transfer.c:217` |
| `HidProbe` (`SkipsOn`) | a descriptor of length 0, sent or left in the buffer, keeps a probe at its place for ever | `HID.c:140` |
| `UsbHost` (`CasesCovered`) | a failed enumeration runs the case that "should never" be reached | `transfer.c:382` |
| `UsbHost` (`FirstSof`) | the wait for a start of frame does not wait: the register is or-ed with its bit, not and-ed | `transfer.c:298` |
| `UsbHost` (`HardWiredAddress`) | a device enumerated after a failure runs at address 2, not at `main`'s hard-wired one | `main.c:22` |
| `UsbHost` (`ChangesServiced`) | a connection change between probe and acknowledgement is lost, and the device stays unseen until it is plugged again | `MAX3421E.c:252` |
| `MaxSpi` (`OscStarts = FALSE`) | the wait for the oscillator counts to 256, prints and goes on | `MAX3421E.c:135` |
| `Panel` (`PanelShows` with displacement 128) | -128 is its own negation: the bits of its digits run over those of the other number | `main.c:105` |
| `VgaController` (`VSyncAtItsLines`) | the vertical pulse is a line from its comment | `VGA_controller.sv` |
| `JtagUart` (`EioMeansNoHost`) | a full buffer that has just been drained may still return -EIO after a second without a poll | `altera_avalon_jtag_uart_write.c:187` |
| `Alarms` (`StoppedIsSilent` with `StopsOthers = TRUE`) | a callback that stops the alarm next in the walk does not keep it from being called | `alt_tick.c:102` |
| `Alarms` (`OnTime` with the widest delay) | a delay of 2^32 - 1 is due at the next tick | `alt_alarm_start.c:89` |
| `Files` (`Exclusive`) | the highest descriptor is not looked at when a lock is asked for | `alt_fd_lock.c:61` |

Two quirks of the egg show in `Prizes`: one taken in its first second, 25, stays
(`show_me` keeps the taking), and one that is on when a round ends is on from the
first second of the next, because nothing resets it.

### Fairness

* `Duel`, `VgaController`, `Prizes`: the clocks of the board never stop, so their edges are
  weakly fair; nobody is required to press a key, to let KEY0 go, or to end a round.
* `Round`: VS ticks as long as KEY0 is up, so frames are weakly fair.
* `UsbHost`: the loop of `main` never stops; a delay passes; a bus reset ends, and it also
  ends while `main` sleeps if `main` sleeps again and again, because the loop spends almost
  all its time in `usleep(4000)` and a reset lasts 50 ms. Without that last assumption a
  reset could for ever end in the same few instructions before the handler reads its
  request, and the restart of the attachment would go round.
* `Transfer`: the program runs, and the environment does something: a packet ends one way
  or another, or its time does. No particular outcome is promised; the device may NAK for
  ever.
* `UsbTime`: the loop looks at the clock and the clock ticks. `HidProbe`: the probe runs.
* `Panel`: `main` passes. A keyboard that has news and is polled again and again tells it
  (`SF` on `KeyReport`: polls may fail, not for ever while it talks).
* `JtagUart`: the handler runs (`WF`); the program moves when handlers let it (`SF`, as they
  may come between any two of its steps, not for ever); a second passes, if the handler is
  out again and again. The host is not required to do anything.
* `Interrupts`: program and dispatcher run. The timer rises at most once between two steps
  of the program (`Paced`), as a millisecond is long; the UART may rise as it likes.

## Proofs

Each theorem holds for every value of the constants that its module's `...Assumption`
allows; it is named so in the module that declares the constants. A theorem that needs
more says so in its statement, and below: `~LateChip` in `TransferProofs` (a chip that
ends every packet before the program gives it up), `NoExtreme` in
`DriverProofs`, `Word - 1 \notin Delays` and `~StopsOthers` in `BoardProofs`. Each of
these is one of the findings above, which shows that the theorem fails without it.
`AppleStaysAway` and `TimerWaitsForOne` take numbers from the code.

* `DuelProofs`: `TypeCorrect`, `PullLaunchesOne`, `EveryShotCharged`,
  `PullCostsOneHeart`, `NoWaste`, `ResumesFull`, `DuelImplementsHearts`. The inductive
  invariant `IInv` adds what each clock owes the other: a halt or a pull that a clock
  has sampled has moved its machines (`HaltSeen`, `PullSeen`); what this pull has
  launched came from the slot being passed, or the magazine was reset under it and stays
  at slot 0 until the trigger is let go (`FreshIsPulled`), so that there is a second
  bullet but no third; no slot ahead of the magazine's was used (`UsedInOrder`); and the
  account of the round includes the bullet that a held trigger may still launch
  (`BudgetHolds`). Without the last, a launch would spend a bullet nobody had entered.
  `NoWaste` is proved and not among the properties of the run.
* `RoundProofs`: `TypeCorrect`, `LastPicturePasses`, `PressStartsOnce`,
  `RoundImplementsMatch`, `RoundKeepsHearts`, `DyingTakesItsFrames`, and
  `AppleStaysAway`. The counters run freely, so the argument is that the picture before
  the last clears them (`Cleared`) and that the last picture's age is then what they
  show (`SecondMeasured`). `Owes` says where a press may still be unreleased.
  `HeartsStep` sorts every step, for either snake, into those of `Hearts`.
  `DyingTakesItsFrames` counts the frames to the end screen (`FramesLeft`: the pictures
  still to come, then the age of the last one), one off with each frame and none with
  anything else. `AppleStaysAway` is about `Prizes`, with the generators of the code
  (`Bits = 10`, `Tap = 6`, because powers of two of unknown exponents are induction) and
  limits that add up to no more than 1024: opposite generators with different seeds stay
  opposite, and the apple away.
* `PictureProofs`: `TypeCorrect`, `EdgeInBlank`, `PictureWhole`, `PictureSeen`, `NeverBlind`,
  `NeverTunnels`. For the screen: the pulses are registered, so the invariant says what the
  pulse shown says about the counters one pixel ago, and counts the visible pixels from the
  position (`Counted`). For the snake: the lines drawn so far have shown a steady,
  unflagged snake nothing (`Seen`), so that at the edge all of the side it heads for is
  free; the rest is arithmetic on wrapped positions. For the bullet: the rows drawn so far
  have met no wall (`RowsClear`); at the edge its whole disc is clear, and the disc reaches a
  step each way, ahead and behind, because a step is no longer than the radius: 3 and 4 in
  the code. The walls, sizes and words are arbitrary.
* `UsbProofs`: `TypeCorrect`, `OnlyKeyboardsTyped`, `NoNullEntry`, `ResetAwaited`. The byte
  may be incremented by the handler at any time, so the argument bounds when: the copy of
  the requests lives from the read to the acknowledgement (`CopyHeld`) and holds no
  event of a reset still going on (`NoOldEvent`); in between, `usb_task_state` is what the
  probe left (`Probed`). Addresses are taken in order (`InOrder`, `LastGiven`), which makes
  entry 1 present and the last entry the running one; and `main` forgets the class it
  polls in the pass in which the device stops running (`Forgotten`).
* `TransferProofs`: `PromptResultIsOwn`, `TogglesKeepStep`, `SuccessComplete`,
  `DeviceCarriesOut`, `TransferImplementsRequest`, `TransferTypeCorrect`,
  `EveryStepCounts`. The flag of the chip belongs to the packet launched (`OwnTokens`,
  `Prompt`); the data read are there (`DataHasCome`); setup and status stages move host
  and device together (`SetupInStep`, `StatusInStep`); and the two toggles differ
  exactly by the packet that is acknowledged and not yet handed on (`InStep`,
  `ControlInStep`, `PollInStep`). For the refinement, a device that is told to finish
  stands in this request and not at the end of the one before (`StageOwn`). The last two
  hold with a late chip too. A step of the program passes to a later stage, or has fewer
  data to come, or fewer attempts left (`AttemptsLeft`), or comes closer to the next
  dispatch, in this order (`Closer`).
* `DriverProofs`, four parts:
  * `UsbTime`: `NoWaitCutShort`, `NoWaitOverdue`. A limit is the time of its beginning plus
    the wait, and the time shown moves by at most one with a tick, forwards, also where the
    product wraps (`Awaited`). A limit in reach is come to tick by tick and looked at on the
    way (`Approached`). They hold for a word of any width and ticks of any frequency. What
    they rest on is arithmetic that no prover finds at once: quotients and remainders are
    taken apart once (`Divided`, `Unique`, `OneMore`, `WrapAdd`) and cited after that.
  * `HidProbe`: `OwnBytesOnly`, `RunsInItsClass`, `ProbesComeCloser`, for configurations
    and buffers of any length and answers that break off anywhere. `Read` says that the
    part of the buffer a probe walks over was written for this device as far as it
    answered (`missing`), `Walked` what it has passed on the way, `FirstIsOwn` that what
    is first in the buffer is then first in the device, `Obeyed` which requests were
    answered. The steps left of both probes are bounded by the buffer and the place of
    the walk (`ProbeStepsLeft`), which every step moves on but the one that stays at a
    descriptor of length 0, and that one changes nothing.
  * `MaxSpi`: `AnswersItsOwn`, `NeverOverruns`, `AccessInOnePiece`, for accesses of any length.
    One credit is enough to find the byte that is under way in exactly one of three
    registers (`OneUnderWay`); what was sent, received and is still to come adds up to the
    access (`Accounts`), which puts each byte received at its place (`Answers`).
  * `Panel`: `PanelAlwaysShows`, `LED9Follows`. The first is a fact about C arithmetic: a
    number is its hundreds, tens and ones (`Parts`), a decimal digit is its four bits
    (`DigitBits`), and each routine writes its eight bits and keeps the others
    (`DigitsFit`). Its hypothesis `NoExtreme`, no byte 128 from a device, is the finding
    about -128 above. In the second, `FlagsKnow` says what `runningdebugflag` and `errorflag`
    tell of the last pass.
* `JtagProofs`: `Wakes`, `OutIsAChannel`, `InIsAChannel`, `HandlerComesCloser`, with
  both ways in use at once. First, `NoLostWakeup` is not inductive alone: the handler
  decides to disable an interrupt some steps before it does. The invariant says where
  program and handler can stand together (`Located`), that the indices are in the buffer
  (`Indexed`), and what the handler has left behind when it comes to that decision
  (`Filled`, `Emptied`), as a reader has (`FoundSome`). Then the refinements. The
  contents of a circular buffer are a sequence that grows at one index and shrinks at
  the other (`ContentsGrow`, `ContentsShrink`, over `Advance` modulo the length), so
  that a copy, a transfer to or from the FIFO and the host are each one step of
  `Channel`. What must be known for it: a copy still fits, although the handler has
  moved the other index since the caller looked (`Copies`), and the handler does not
  believe in more room than the FIFO has (`Fits`). Last, the handler: with each turn it
  has moved a character or disabled an interrupt (`HandlerWork`), or it is closer to a
  place that does (`HandlerPlace`), because what it has read of the control register
  still holds (`HandlerKnows`).
* `BoardProofs`, three parts:
  * `Alarms`: `StaysLinked`, `AlarmsOnTime`, `NoAlarmMissed`, `SilentOnceStopped`, for any
    number of alarms and any word. That the walk misses nobody needs an order of the list,
    which no variable holds: `ClockInv` says that one exists (`Order`), that `time`, `rollover`
    and the clock tell when an alarm is due (`Clocked`), and that what is due now is ahead
    in the walk (`Pending`). `StaysLinked` needs no hypothesis. The others have two, both
    findings above: no delay of a word less one (`Word - 1 \notin Delays`), which would be
    due a tick after it begins, and no callback that stops another's alarm
    (`~StopsOthers`).
  * `Files`: `NoDescriptorLeaks`, `LocksHold`, `StreamsSurvive`. A lock is asked of the
    descriptors up to the watermark of the highest ever taken, so the invariant keeps the
    mark above what is held (`MarkAbove`).
  * `Interrupts`: `CallsWhatIsThere`, `SectionsStayWhole`, `SearchEnds`, `MainFindsAll`,
    `TimerWaitsForOne`. `Nested` says what contexts are saved at each place of the
    program, `Table` that what is active is whole in the table, `Taken` that what the dispatcher
    has seen stays pending until it calls it. The last one needs `TIMER_IRQ < JTAG_UART_IRQ`,
    as in `system.h` (0 and 1).

So every safety property of a passing run is a theorem, the refinements of `Hearts`,
`Match` and `Channel` among them (these state no fairness). Proved and not among the
properties of the runs: `NoWaste`, `StaysAway`, `NotLate`, `NoOverrun`, `OnePiece`,
`LED9`, `NotMissed`, `StoppedIsSilent`, `StreamsStay`, `FindsBit`, `BootedWell`,
`TimerIsNext`, the refinements of `Hearts` by `Round` and of `Request` by `Transfer`,
`CarriedByDevice`, `TypeOK` of `Transfer`, and the four progress properties below.

Only model-checked is liveness, because TLAPS does not reach it: `HitLands`,
`DeathIsShown`, `PrizesInTime`, `EnumerationEnds`, `RequestEnds`, `Ends`, `ProbesEnd`,
`KeysFollow`, `CallsEnd`, `Served`. Of most of them the safety part is proved, mostly as
a count of what is left that every step lowers: `DyingCounted` of `DeathIsShown`,
`RequestProgress` of `RequestEnds`, `NotLate` of `Ends`, `ProbeProgress` of `ProbesEnd`,
`FindsBit` and `TimerIsNext` of `Served`, and `HandlerProgress`, which justifies the
fairness behind `CallsEnd`: the handler that interrupts a call ends. Where an argument
needs a least element (the first free descriptor, the lowest pending line), it is taken
from the well-foundedness of the naturals (`LeastElement`), because the library's
induction theorems cannot be used here.

## What is not modelled

* Inside what is modelled. `WaitState9` of the hearts is declared and never entered; a
  device's speed (J and K) does not matter to the enumeration, which treats both alike;
  `printf` is what `JtagUart` writes, not what it says; the chip's status register is
  taken to follow the bus; the two register writes that clear the event and start the
  reset are one step; in `UsbHost` the oscillator is taken to start. In `Snake` the other
  snake is no obstacle, as in the code; in `Flight` it may be anywhere. An eaten apple is a
  reload of the magazine at any pixel (`Duel`); it does not move the apple, which only the
  snake over its middle does. `alt_busy_sleep` and `usleep` are steps of time.
* The two fights and the round as one state machine: `Duel` and `Round` both implement
  the abstract hearts instead, each by a theorem. Their product is beyond TLC, and
  nothing passes between the two fights but the keyboard and the end screens, which
  `Duel` has as free inputs.
* Colours, sprites, palettes and fonts: which colour a pixel gets is combinational data
  and feeds nothing back but the hits and obstacles that the models choose freely or
  take as constants. The ROMs are generated.
* The rest of the board support package: constants and register macros (`system.h`,
  `*_regs.h`, `nios2.h`), logging and profiling that the build leaves out
  (`alt_log_printf`, `alt_gmon`), start-up assembly, the small-driver variants of the UART
  that are compiled out, and services `main` does not call or whose work is one
  assignment (`sbrk`, `settod`). Much of the C in the repository is of this kind, headers
  and licence texts among it: there is no behaviour in it to model. That is why the
  definitions of this project stand for a minor share of the lines of C although they
  cover the operations that change state in the game's software, its USB stack and the
  drivers it runs on. Of the game's own C (`main.c`, `transfer.c`, `MAX3421E.c`, `HID.c`)
  what is left is declarations, handlers that only return, and texts that are printed.
* Modules and files no part of the design uses (`reg_file`, `queue`, `lfsr`, `snake.c`,
  `Color_Mapper` and others).

## Plan

Done, in the order of importance: the fight, the round, the clock of both and the
enumeration; then transfers and the waits below them, the snake among its obstacles, the
bullet in flight, the console's driver, alarms, descriptors and interrupts, and the
prizes of a round. What would add most next:

1. the wake-up chains behind `CallsEnd` and `Served` from the handler's end on, one step of
   each as an action property;
2. polls as an abstract transfer beside `Request`, with the report they hand on;
3. both snakes in one arena, for what they do to one another's bullets.
