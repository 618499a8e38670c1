# Grill-O-Mat: a TLA+ model of the controller

Grill-O-Mat (a HeaterMeter port for the BeagleBone) keeps a pit at a set point:
it reads up to four probes, computes an output percentage, and drives a blower
and a damper with it; it is commanded from a panel, a serial line and a web
server. These modules model that controller from its source, check it with
TLC, and prove its safety with TLAPS.

    tlc -workers 2 -config GrillPid.cfg MCGrillPid
    tlapm GrillPidProofs.tla

Paths below are relative to the repository root.

## 1. The system

Four threads run: `main` (`hmcoreLoop`, every 5 ms), the web server
(`do_server`, one thread, plus one detached thread per `/stream` client), the
analog input sampler (`Adc::adc_loop`) and the servo slewing loop
(`Pwm::pwm_loop`). They share plain members of global objects. There is no lock
and no atomic access anywhere in the program.

| Component | State | Operations | Talks to |
|---|---|---|---|
| Control core, `src/grillpid.cpp` | mode, set point, lid countdown, duration and offset, output, probes, control probe | `doWork` once a second, the setters | reads Adc; feeds fan and servo; read by alarms, LEDs, reports |
| Fan output | settings, moving average, fan speed, long PWM timer, blower target, feedback voltage | `commitFanOutput` per period, `adjustFeedbackVoltage` three times per period | driven by the core, reads the feedback pin |
| Servo and `src/pwm.cpp` | range settings, target, current, lock time | `commitServoOutput`, `setServoMinPos/MaxPos`, `pwm_loop` | driven by the core and, through the range setters, by commands |
| Alarms | limits, armed, ringing per alarm; the alarm shown | `processPeriod`, `checkAlarms`, `setThreshold`, silencing | read the core, move the menu to the alarm screen, publish to the LEDs |
| LED manager, `src/ledmanager.cpp` | per LED: stimulus, triggered, on | `publish`, `doWork` twice a second, `setAssignment` | published to by `publishLeds`, `checkAlarms`, `blinkLed` |
| Menu, `src/menus.cpp`, `src/hmmenus.cpp` | state, last state, button, long-press state, edit buffer | `setState`, `doWork`, one handler per screen | calls the store functions of the core |
| Commands, `handleCommandUrl` in `src/hmcore.cpp` | none | one branch per `set?..=` | called by main (serial) and by the server's thread |
| Configuration, `src/econfig.cpp` | RAM copy, `/etc/hm.cfg`, one file position | byte, word and block reads and writes | written by every store function, read at start and at a reset |
| Analog inputs, `src/adc.cpp` | per pin: accumulator, count, published sum | `filterAdc` on its thread, `setTop`, `analogReadOver` on main | read by the core and the feedback |
| History and reports | a growing vector; last status sent | `writeHistory`, `getHistoryCsv`, `getProbeData` | written by main, read by the server's threads |
| Serial line | a line buffer | `serial_doWork` | feeds `handleCommandUrl` |
| LCD driver, tone, pin and pinmux glue | output only | | |
| `websrv/server_http.hpp` etc. | vendored HTTP server | | |
| Web pages, simulation tools, `eagle/`, `contrib/` | not part of the controller | | |

What is hard to test here:

- the server's thread changes the mode while `doWork` is between its test of
  the mode and the stores that assume the answer, and two commands, one from
  the serial line and one from the web, run through each other;
- unsigned arithmetic decides when a lid event ends and how fast an inverted
  fan runs;
- several stages with memory (averages, timers, locks, feedback, boost) sit
  between an output and the blower, so a gate that closes has effects later;
- alarms arm, ring and are silenced in an order set by temperatures, commands,
  lid events and presses together;
- settings reach the file on many separate paths, and a restart loads what
  the file holds.

`PROJECT.json` lists every such hazard at its line, with the properties that
would catch it going wrong, or why none does yet.

What makes each component correct, in one line each: the core never drives an
output it should not and never forgets what it was told; a lid event lasts as
long as it should and ends; the fan runs its share, starts, and stops; the
damper stays in its range and closes; an alarm rings when, and only while, it
should; an LED shows its stimulus; a write to the configuration is whole; an
edit writes what the cook saw; a reading is the mean of its samples.

## 2. The modules

| Module | Models | Extends |
|---|---|---|
| `OutputGate` | the abstract promise about the output | |
| `GrillPid`, `MCGrillPid` | the control core, one call per step | |
| `LidEvents` | how long lid events last, on top of the core | `GrillPid` |
| `PidLaw`, `MCPidLaw` | the control law and its integral, on top of both | `LidEvents` |
| `GrillThreads` | the core store by store: periods, and commands on both threads | |
| `LedManager` | one LED | |
| `Signals`, `MCSignals` | alarms, alarm screen and LEDs, composed with the core | `GrillPid`, `LedManager` |
| `MovingAverage` | the average of the output that both actuators follow | |
| `FanOutput` | the blower, composed with the abstract gate | `OutputGate`, `MovingAverage` |
| `Servo` | the damper and its thread, composed with the abstract gate | `OutputGate`, `MovingAverage` |
| `Menus` | the panel's menu, with toasts and commands from the server's thread | |
| `ConfigStore` | the configuration file, byte by byte, under two threads and power failures | |
| `Adc` | the analog inputs: sampler, number of samples, readings | |
| `SerialLine` | the buffer of the serial line | |
| `Sampling`, `MCSampling` | both, composed under their three threads | `Adc`, `SerialLine` |
| `History` | the history vector, appended to and downloaded at once | |
| `Stream` | the event stream of a web client | |
| `Reports` | both, as the web server serves them | `History`, `Stream` |
| `Arithmetic` | lemmas about products and quotients | `TLAPS` |
| `GrillPidProofs`, `GrillThreadsProofs`, `FanOutputProofs`, `ServoProofs`, `ConfigStoreProofs`, `SamplingProofs` | the theorems about the module they are named after; `GrillPidProofs` also those about `LidEvents`, `PidLaw` and `Signals` | these modules, `TLAPS` |
| `InterfaceProofs` | the theorems about what people see: panel, history, event stream | `Menus`, `Reports`, `TLAPS` |

`GrillPid` is proved to implement `OutputGate`, so `FanOutput` and `Servo` need
not carry the core along: they take every behaviour the gate allows, which is
more than the core has.

### OutputGate

A gate (`off`, `lidOpen`, `manual`, `auto`) and a percentage. Moving the gate
drops the output to 0 (`Switch`), an operator may set a manual percentage
(`Drive`), and only an open automatic gate may be regulated (`Regulate`). An
output computed under one gate never survives under another.

### GrillPid

The variables are the fields of `pid` named beside them in the module, plus
`config`, what the file holds of them. `doWork` is the whole period: readings
(`Measure`), then one of `Reached`, `CountDown`, `LidDetected`, `Regulate`, the
branches of lines 630 to 656 of `src/grillpid.cpp`, or `Idle` outside the
automatic modes. The commands `sp`, `ld` and `pc`, the buttons of the home
screen, the reset of the configuration and a restart are an action each and
include their write to the file.

Abstractions: temperatures are the integers `doWork` compares; the PID law may
yield any member of `Levels` when it is in control (so nothing proved depends
on it; `PidLaw` narrows the choice); `PidOutputAvg < 90` may come out either way; probe type `INTERNAL`
stands for both types that are read. `"RF12"` can be set but never gets a
reading, since the radio is not compiled in. `config` is written in one piece.
`Panel` says whether the button input is sampled: `GrillPid::init` has the
sampler read the first `NUM_ANALOG_INPUTS`, that is 3, entries of `hm_AdcPins`,
and the buttons are not among them, so as built the panel is dead;
`GrillPid.cfg` checks the core with it and `PidLaw.cfg` without. `offset` in
`menuHome` is a plain `char`: TLC gets its values for both signednesses.

### LidEvents

Adds two history variables and splits the core's steps into periods, switches
of the lid and the rest. `lidOpenFor` counts the periods the present lid event
has lasted. `retimed` says that a command has changed the duration meanwhile in
a way the subtraction at line 631 of `src/grillpid.cpp` cannot follow: raised,
so that the event looks older than it is, or shortened below the running
countdown, so that the subtraction wraps.

### PidLaw

`LawPeriod` is the core's period with `calcPidOutput` deciding the output: the
proportional term, the integral with its anti-windup (`MayAccumulate`), which
looks at the output *in effect*, and its halving at the set point. Terms are
counted in steps of `Unit` percent, so the halving rounds down. The D term
follows a history of temperatures and may be any of `Drifts`. `set?pidi` changes
the integral's constant and clears the integral with it; every other command
leaves the integral alone, a lid event included. Commands for the
other PID constants are left out. `regulated` is a history
variable.

### GrillThreads

One step is one read or store of a shared field. `main` takes a command from the
serial line (`serial_doWork`) or runs `doWork`, one after the other; the server's
thread takes commands at any time. Both hand them to `handleCommandUrl`, so a
command may meet a period, or a command of the other thread. `todo` and `saving`
are what each thread's command has still to store and to save. Stores of straight-line code to
different fields form a set and may take effect in any order, which covers
compiler and CPU reordering on the target; a value read twice may be read once.
Only the control probe is kept. `last` and `raced` are history variables: the last
command that names a mode, and whether it met nothing, a controlled period, or
another command. The panel is left out: as built it is not sampled, and its
stores would be `main`'s like those of the serial line.

### LedManager and Signals

An LED is a record with what the manager believes it shows (`on`) and what the
hardware was last told (`lit`). `Signals` runs a period as `hmcoreLoop` does:
probes and alarms, control, `checkAlarms`, `publishLeds`; the half-second LED
work, alarm limits, silencing, LED assignments, and every action of the core
with the signals it leaves alone. Alarms are numbered as `ALARM_ID` does. The
alarm screen is a flag; the other screens are left out, and a home button needs
that flag down. The reset of the configuration is left to `GrillPid`, the
radio's one-shot to the build that has the radio. A new home display mode falls
through to the LEDs' case (line 766 of `src/hmcore.cpp`) and stores it as the
configuration of LED 255, past the end of the array: what that overwrites is
undefined, and left out (hazard list).

### MovingAverage

Single precision arithmetic is replaced by an interval: an average is known to
1/`Scale` percent, and a step may yield each value the exact step can reach. An
average approaching a constant from below stays below, as the float does: it
stalls once the remaining difference is less than half a unit in the last
place (at 99.99998 for an output of 100).

### FanOutput

`Commit` is the last call of `doWork` in a period, `Adjust` the two in between.
`Demands` is `_fanSpeed` after the active floor, `Pulsed` and `LongPwm` the long
PWM, `Inverted` the inversion in an `unsigned char`, `Blower` the boost and the
target, `adjustFeedbackVoltage` the regulator against any reading of the
feedback pin. `Byte` is the truncation of a command's `int` to `unsigned char`.
`cycle` is a history variable for the duty of a whole long PWM cycle. The pin is
the last value written to it; in this build `analogWrite` is an empty macro.

### Servo

`Period` is `commitServoOutput`; `SlewUp` and `SlewDown` are the two tests of
`pwm_loop`, which runs concurrently. The lock is a flag that time takes down.
`ServoInit` is where start-up leaves the driver: the minimum stored as target
and current without ever being written, the maximum lost to the lock.

### Menus

`state`, `lastState`, `lastButton`, `buttonState` and `repeatCnt` are the
members of `MenuSystem`; `editInt` is the edit buffer all menus share; `pid`
holds what the menus show and store. A turn of `MenuSystem::doWork` takes two
steps. The first, one action per branch of the code (`Timeout`, `Repeat`,
`Release`, `Press`), ends with the handler of the screen shown; the second,
`Settle`, looks up the next screen and goes there. In between the server's
thread may show a toast (`Toast`), which calls `setState` itself, or run a
command (`Command`), and nothing else: `Period`, the alarm check, is the main
thread's.

`setState` leaves one screen and enters the next with all that their handlers
do at `BUTTON_LEAVE` and `BUTTON_ENTER`: the edited value is stored, by most
menus only if it differs (`Stores`), by those of the lid and of the probe offsets
always (`StoredAlways`); the next one is loaded and clamped. Abstractions: a setting is a number
the menu moves by one; a held button repeats but does not move it faster; the
clock is the readiness of `Timeout`; two `setState` calls do not overlap. A
ringing alarm is a choice in every period. `held`, `acts`, `touched` and `raced`
(a toast has come between a home screen's handler and the lookup after it, while
LEFT was the event) are history variables. As built the panel is dead (above): then only the readings
without a button happen, a part of these behaviours.

### ConfigStore

`ram` is `eeprom_config`, `file` is `/etc/hm.cfg`, `pos` the position of the one
descriptor. `StoreByte`, `Seek` and `WriteByte` are the three effects of
`econfig_write_byte`. A thread's `program` is what its command still has to do,
in the code's order: bytes to store, the mode to save, values to put into use.
`LoadBaseConfig`, `LoadProbeConfig` and `StartServer` are the start,
`ResetConfig` the panel's reset, and `PowerFails` may happen at any time and
starts again from the file. One cell stands for a magic number, one for the
mode, one for a probe's type; the set point has its two bytes. A read or write
that fails, and a file that cannot be opened, are left out.

Not every command that changes the mode in use stores it: a set point and a
manual output do (`StoreSetPoint`, `StoreMode`), OFF as a unit and the switch of
the lid do not (`SwitchMode`), so that a restart comes back as before. The long
LEFT of the panel and the reset are `main`'s only. `raced` is a history variable:
`commands` once two commands have overlapped, `reset` if one of them was a reset;
`kept` is the mode that was last to be stored.

### Adc, SerialLine and Sampling

`Sample` is one pass of `adc_loop` over one pin, `SetTop` what
`setOutputFlags` has still to do for one pin, `ReadSum` and `ReadTop` the two
looks of `analogReadOver` at a pin, in the order that matters: a changed
number of samples may fall between the sum and the division, or between a window
and the next. `taken`, `least` and `most` are history: what the window was made
of. A sample that finds the window full is thrown away, as in the code.

`SerialLine` takes the characters one by one, `typed` is the line as it was
typed. In `Sampling` the main thread is in one place at a time (`MainIdle`): it
reads a pin, or receives, or obeys. Of the commands only `set?fn` touches the
inputs, and one character stands for its flags; the server's thread may give the
same command at any moment. The single pin's `setTop` has no caller, the noise
dump and the converter's driver are left out.

### History, Stream and Reports

An entry of `History` is its time, and the time is the start plus the entries
written. `push_back` is two stores that the server's thread may see in either
order (`unseen`), and moves the vector when its block is full (`Full`, a capacity
that doubles). A download is one `Row` per turn of the loop, from which a stale
iterator may go on, end, or kill the process (`Crash`).

`Stream` has a program counter for the thread of one client, the shared buffer,
and the sends in flight. A send takes what the buffer holds when it begins and
consumes as much when it completes, so an event may be sent twice. The client
reads, stalls, leaves; the network gives it up later. `RivalAsks` is another
stream that takes the internals' news first. `MaxPending` bounds the buffer: the
thread waits for room (`Wake`), where the program would go on.

The two share the server's thread and nothing else, and that thread finishes a
download before it looks at a send: `Reports` follows a visitor who asks for the
one or the other.

## 3. The runs

| Run | Checks | Size |
|---|---|---|
| `grillpid` | type, `OutputGated`, `LidOnlyInRecovery`, `ManualSurvivesRestart`, `SettingsSurviveRestart`, `OnlyReadProbesHaveTemperature`, refinement of `OutputGate` | 150,160 states |
| `lid_events` | `ControlProbeFollowsTypes`, `WindupOnlyAfterInterruption`, `LidModeLastsMinimum`, `LidModeEnds`, `SettlesInNormal`, `ErrorIsWorkedOff` | 120,672 |
| `threads` | `MemoryOK`, `UnracedCommandHolds`, `AutomaticModesHeal` | 1,120,778 |
| `signals` | `RingsOnlyIfArmed`, `QuietWhenOffOrLidOpen`, `PressingSilencesAll`, `OneShotEnds` | 99,000 |
| `fan` | `LongPwmDuty`, `BlowerDriven`, `BlowerStops` | 98,824 |
| `servo` | `InRange`, `ClosesWhenOff` | 334,400 |
| `menus` | `OneActionPerPress`, `BrowsingKeepsSettings`, `BackHome` | 616,705 |
| `config_store` | `FileLagsOneByte`, `StoredIsInUse`, `MagicsSurvive` | 3,265,497 |
| `adc` | `SamplingTypeOK`, `ReadingIsMean`, `ReadingsRecover`, `LineObeyed` | 684,024 |
| `remote` | `ReportsTypeOK`, `HistoryIsComplete`, `StreamShowsStatus`, `StreamEnds` | 38,792 |
| `off_race` | finds `OffTakesEffect` violated | |
| `toast_stuck` | finds `ToastKnowsTheWayBack` violated | |

The types of a module are a conjunct of its first invariant, and where something
may go wrong that only the types show, they say it: an LED is never stuck lit
(`SigTypeOK`), a window is never published empty (`SamplingTypeOK`), the countdown
never exceeds its word (`TypeOK`), an event never waits in the buffer for
a later send (`ReportsTypeOK`).

### Bounds, and why they are enough

- `grillpid`: two probes, because the choice of the control probe compares
  probes pairwise and falls back to the first; two set points, one of them a
  reading; one temperature below both set points, with drops of 50 % and 66 %
  against offsets of 6 and 60, so a drop may be enough or not; two lid
  durations, one raised to the minimum and one above it; outputs 0 and 60 plus
  every value the manual steps reach from them by 5, -1, 251 and 255.
- `lid_events`: `PidLaw` without a panel. Two durations, the minimum itself and
  one two seconds above it, so an event can end by itself and by the temperature,
  and a command may raise the duration or shorten it below the countdown at any
  moment. `LidModeLastsMinimum` sets such an event apart (`retimed`), and
  `SettlesInNormal` requires a duration above the minimum: with the minimum
  itself the test at line 631 never holds. Levels are 0, 50 and 100, the startup
  maximum is 75, a step of a term is 50 percent: a pit one degree too cold gets
  50 from the proportional term, less than either maximum, so that only the
  integral works the error off. The error takes all three signs, the integral's
  constant is 0 or 1, its drift 0 or against it. Full power whatever the error
  and the drift are comes with an integral of 4; `IntegralBound` is 5, so there
  is one step left that anti-windup has to prevent. The bound cuts longer
  windups in this run only: `IntegralBounded` is proved for every bound.
- `threads`: a command in flight on each thread, as they have it: two commands
  may overlap anywhere, a command of the server's thread may meet a period
  anywhere, one of `main` falls between periods; a duration of two periods; `Word` is 5, so a
  wrapped countdown is a large number that still counts down to an end.
- `signals`: one probe with a low and a high alarm, one LED on the stimulus
  that combines them. The limits are 1 and 2, the readings 0, 1 and 2: the low
  alarm goes off at 0, the high one at 2, and 1 arms neither again, so both may
  ring while the reading stays at 1, and the press that silences the one hands
  the screen to the other. The alarms of two probes do not interact except in the
  choice of the one shown, which two alarms of one probe exercise.
- `fan`: minimum speed 3 with outputs 0 and 16 against a maximum of 20, so the
  average's path passes through demands of 0 to 3 and both sides of the long
  PWM; the startup maximum differs from the maximum; the feedback pin reads the
  full voltage, which is the reading that pulls the regulator down to its
  bound. `Scale` is 1.
- `servo`: a range of 10 to 30 microseconds instead of 1000 to 2000, slewed by
  one; ceiling 0 (always open) and 100; both directions; at
  `Scale` 6 an average that approaches 0 gets below one percent, as the float
  does.

- `menus`: a setting has the two values a menu offers and one it does not; the
  cook edits one number, the manual mode and the reset, and walks through all
  the menus; probes come and go so that the home screens move on by themselves;
  three toasts: one may meet another, and three are the least with which a press
  that a toast raced acts twice, so that the exception in `OneActionPerPress` is
  taken. A button is read at least once
  between two periods, as 250 ms against a second.
- `config_store`: bytes of four values, one each for the two stored modes, OFF and
  the magic number, so that the set point needs both of its bytes and differs
  from the default in each; four commands or resets, enough
  for two overlaps and a command after them; a power failure costs nothing and
  may happen any number of times.

- `adc`: two pins of which one is sampled, windows of 2 or 3 samples out of two
  values that differ in their byte, lines of up to 4 characters into a buffer of
  3, so that a line overruns and leaves a tail that begins with a slash.
- `remote`: four entries, of which the first three move the vector and the fourth
  does not, so a download may meet either; a clock older and younger than the
  span; two statuses; three events and three sends, one more than one turn of
  the stream's thread makes.

Deadlock is checked in every run.

### Fairness

Fairness is weak throughout. `main` calls `hmcoreLoop` for ever, and with it
`doWork` and the LED work, so those steps are fair; so are the server thread's
steps of a command it has begun, its completion of sends, and the steps of the
servo's thread, of the sampler, of a `setTop` begun and of a stream's thread. Time
passes, so a lock expires, a screen that nobody presses a button on times out and
the network gives up a client that went away. `ConfigStore` has safety
properties only and needs no fairness.
No command, button, restart or sensor reading is ever fair. Properties that
need the operator to leave the controller alone say so (`Quiet`, `<>[][..]`),
and `PressingSilencesAll` carries the cook's pressing as its hypothesis.

### What the violations show

- `off_race`: the mode is tested at line 623 of `src/grillpid.cpp` and the
  output computed for it stored at line 339; an OFF command in between leaves
  the controller in `OFF` with an output of 60, and since no period clears the
  output in `OFF`, it stays; against "OFF - Output, alarms, and lid detect
  disabled" in `src/grillpid.h`. The store of `NORMAL` at line 640 may follow
  an OFF command in the same way.
- `toast_stuck`: `doWork` calls the handler of the screen shown and then looks up
  the next screen of the *present* state. A toast shown in between by the
  server's thread makes both the toast: it is recorded as its own predecessor,
  and neither timeout nor button clears it, against `README.txt`, line 62. An
  alarm does, and so does a restart.

The other side of each is checked too: a command that meets neither a controlled
period nor another command does hold (`UnracedCommandHolds`), a race in an automatic mode is
healed by the next period (`AutomaticModesHeal`), and the panel comes home from
everything but such a toast (`BackHome`). What the code does that no document
contradicts is no finding but an entry of the hazard list: a lid duration
shortened below the running countdown, an LED dark after a new assignment, a
press that acts twice after a toast has raced it.

## 4. The proofs

Each theorem holds for every value of the constants that meets the assumptions
of its module, and rests on an inductive invariant that is a conjunction of
named parts; one lemma per action shows that the step keeps it. `Arithmetic`
holds what the prover's arithmetic lacks about products and quotients of
variables.

`GrillPidProofs`, for any number of probes and any set of set points,
temperatures, levels, durations and offsets:

- `TypeCorrect`: `TypeOK` is inductive by itself. The points that matter are
  that a countdown is only decremented when it is not 0, that a manual output
  is clamped, and that a stored setting leaves the rest of `config` in place.
- `SafetyHolds`, and from it `OutputAlwaysGated`, `LidAlwaysInRecovery`,
  `ManualAlwaysStored`, `SettingsAlwaysStored` and `NoReadingWithoutProbe`. The
  inductive invariant `SafetyInv` is their conjunction. It is needed whole:
  `OutputGated` survives a period only because `calcPidOutput` sees the lid
  open, and survives `ld=,,0`, which clears the countdown and nothing else;
  that this step does not leave a mode behind that claims a lid event needs
  `LidOnlyInRecovery`; a restart keeps `SettingsSurviveRestart` because
  `LoadConfig` loads what `config` holds.
- `ControlProbeAlwaysFollows`, without a panel, as the program is built: with
  one, its reset of the configuration refutes it.
- `GateIsRefined`: `Spec => GateRefined`. Initial states map to initial states
  and each step to `Switch`, `Drive`, `Regulate` or a stutter; one lemma per
  group of actions. `OutputGated` is needed where lid mode is switched off by
  command: the gate opens while the output must already be 0.
- `LawImplementsCore` and `SignalsImplementCore`: the control law with its
  integral, and the alarms with screen and LEDs, take only steps of the core. So
  every theorem about the core holds of them, and their own invariants need not
  carry it along.
- `IntegralBounded`, for any constants of the law: by `LawInv`, while the law is
  in control the output in effect is one the law gives for an integral at least
  as large as the present one. An integral that may grow has seen that output
  below 100, so it does not give full power yet.
- `LidAlwaysLastsMinimum`, for any durations and any change of them: by `LidInv`,
  an event that was not `retimed` has lasted at least what its countdown has run
  of the duration now in force, and that countdown is no longer than the
  duration. So the unsigned difference of the two is the true one and at most
  what the event has lasted. The exception is necessary: a duration shortened
  below a running countdown lets a younger event end (hazard list).
- `AlarmsRingArmed` and `PeriodsQuiet`, for any number of probes, limits and LEDs,
  from `SignalsInv`: alarms (`AlarmsOK`), screen and LEDs (`LedsOK`) apart, since
  they only meet in a period. `LedOK` is what excludes an LED stuck lit.

`GrillThreadsProofs`, for any interleaving of the two threads' stores, commands
on either or both, any lid duration and word size:

- `MemoryAlwaysOK` and `UnracedCommandsHold`, from `ThreadsInv`. `TypeInv` says
  which stores can be in flight at all: a period never stores `MANUAL`, and a
  command that does saves the mode afterwards. The rest is said of the one
  thread (`Here`) whose command nothing overlaps, the other being idle (`Alone`).
  `ManualInv` follows a manual mode from its store to the file, or to the store
  of the next command that `Leaves` it. `CommandInv` follows a command that meets
  nothing store by store, whatever order its stores take effect in: `ModeMade`
  says that what is not left to be stored has been, and holds until the command
  returns. The period that comes after needs `TickInv`, that the countdown about
  to be decremented is still the one that was tested.

`FanOutputProofs`, for any fan settings, outputs, feedback and precision of the
average:

- `LongPwmAlwaysDuty`: by `DutyInv`, that of the first `k` intervals of a cycle
  with one demand as many were on as the demand's share of ten, or all `k`.
- `BlowerAlwaysDriven`: by `RestInv`, that a blower at rest has no target left,
  and `FanTypes`, in which the average never reaches 100: so no demand exceeds
  the speed that an inverted fan subtracts it from.

`ServoProofs`, for any range, ceiling and precision:

- `DamperInRange`, from `ServoInv`: current and target are reachable, that is
  between the limits some range has given them; `mappct` is shown monotone.

`ConfigStoreProofs`, for any width of a byte, set points and number of commands:

- `FileLagsAtMostOneByte` and `MagicsAlwaysSurvive`, from `StoreInv`. A thread's
  program can only hold what its phase allows (`StoreTypes`), a byte past its
  first step has been stored (`StepInv`); where the other thread may have moved
  the position, it is still a cell a command stores into, or the one after it
  (`PosInv`), which is not a magic number unless a reset is among them; `RaceInv`
  says that no overlap goes unnoticed, so that `LagInv` may speak of one thread.
- `StoredAlwaysInUse`, by `UseInv`: without an overlap one thread at most is at
  work, and what its program still has to do is one of the remainders (`Due`) from
  which the set point stored and in use, and the mode stored and `kept`, come out
  the same. Idle threads have no remainder (`Settled`), so then they are the same,
  and the file is memory. A mode in use may differ from `kept` only where a command
  that stores none has switched it, which never makes it `MANUAL`.

`SamplingProofs`, for any samples, numbers of samples and lines:

- `SamplingTypes`, `ReadingsAreMeans` and `LinesAreObeyed`, from `SamplingInv`: the
  accumulator of a window lies between `taken` times its least and its largest
  sample, which division keeps (`MeanBounds`); the line buffer is the remainder
  of what was typed after the last full buffer, which is shown to grow with each
  character (`RemainderGrows`).

`InterfaceProofs`, for the panel with any range of its numbers, menus to edit
and number of toasts, and for any clock, span, history, statuses and buffer:

- `LeftActsOnce`, from `MenusInv`. Its part `PressInv` follows a press of LEFT:
  while it may become a long one it has done nothing (`LongCheck`), and once it
  has done something, the key is waited for (`WaitForKeyup`), from `Settle` on at
  the latest. That gap is the reason for `raced`. The proof found it: the property
  without the exception held in the run with two toasts and fails with three,
  when an alarm under a further toast leads back home with the key still down.
- `BrowsingIsHarmless`, by `ScreenInv`: an untouched menu shows what entering it
  showed, and entering once more shows the same (`EnterType`), although all menus
  share one edit buffer. A menu that stores on every way out thus stores what was
  there.
- `NothingLeftUnsent`, from `StreamInv`: but for the moment before a send, the
  buffer holds no more than the newest send takes (`SendsInv`), however many
  overlapping sends consume from it; `RoomInv` keeps buffer and sends in bounds.
- `DownloadsComplete`, from `HistoryInv`: entry `i` was written at `boot + i`
  (`EntriesInv`), and the rows of a download not torn are, in order, the times
  within the span up to the entry it has come to (`DownloadInv`). The span's
  beginning is computed in an unsigned word; that it is the one asked for needs
  the clock to be older than the span.

The assumptions on the constants are few: sets of numbers of the right sign,
a rejected reading that is not a temperature, values below the word size, limits
of a servo in their order. `StoredWidths`, that what is commanded fits into the
8 or 16 bits the file has for it, is what makes `config` a faithful copy; no proof
needs it.

Every safety and action property of a passing run is a theorem. Left to TLC is
liveness under fairness, which is beyond the prover: `LidModeEnds`,
`SettlesInNormal`, `ErrorIsWorkedOff`, `AutomaticModesHeal`, `PressingSilencesAll`,
`OneShotEnds`, `BlowerStops`, `ClosesWhenOff`, `BackHome`, `ReadingsRecover`,
`StreamShowsStatus` and `StreamEnds`. They hold for the bounds of their runs.

## 5. What is left out

- Output that nothing reads back: the LCD driver and its digits, pins, pinmux,
  the alarm tone, the lines of the screens, what the serial line prints.
- The panel's buttons in `GrillThreads` (as built they are not sampled), and the
  store past the array of LED configurations by a new home display mode.
- The radio (`HEATERMETER_RFM12` is not defined), and the dead handlers of the
  menu that no table entry names.
- The contents of the reports, `/json` and `/conf`, and the files the server
  sends: formatting of what other modules model. A second client of the
  event stream appears only as the rival that takes its news.
- Names, offsets and coefficients of probes and the constants P, D and B: one
  field each that is stored and used as it is. The conversion of a sample to a
  temperature and the single precision of the terms: floating point.
- A single pin's `setTop` (no caller), the noise dump, the converter's driver.
- System calls that fail: the code does not look at their results.
- Servo ranges with the minimum above the maximum, for which the code's
  arithmetic has no meaning, are excluded by `ServoAssumption`.
- The vendored HTTP server but for `Response::send` and its one thread, the web
  pages, the pit simulator, the hardware design.

What could follow: a second tracked stream client; the ordering of downloads and sends on the server's thread.
