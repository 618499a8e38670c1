---------------------------- MODULE GrillThreads ----------------------------
(***************************************************************************)
(* The control core as its two threads run it: the main thread, which      *)
(* takes commands from the serial line (serial_doWork) and then runs       *)
(* GrillPid::doWork, one after the other; and the web server's thread,     *)
(* which takes commands at any time.  Both hand a command to               *)
(* handleCommandUrl, both work on the same fields of the object "pid", and *)
(* nothing locks them.                                                     *)
(*                                                                         *)
(* A step is one read or one store of a shared field.  The stores a piece  *)
(* of straight-line code makes to different fields form a set and may      *)
(* become visible in any order (the fields are plain members, the target   *)
(* is an ARM, the build is -O2); a later set waits for an earlier one.  A  *)
(* value the code reads twice with no store in between may be read once.   *)
(*                                                                         *)
(* Only the control probe is kept, and the settings that do not take part  *)
(* are constants.  The buttons are left out: as built (hm_AdcPins) the     *)
(* panel is not sampled, and its stores would be the main thread's, too.   *)
(***************************************************************************)
EXTENDS Integers, Sequences

CONSTANTS
  SetPoints,      \* set points an operator asks for
  Temps,          \* temperatures the control probe can read
  Levels,         \* percentages the control law or an operator can ask for
  LidOpenOffset,  \* percent
  Duration,       \* _lidOpenDuration, seconds
  MinAutoResume,  \* LIDOPEN_MIN_AUTORESUME
  Word            \* 2^32

ASSUME ThreadsAssumption ==
  /\ SetPoints \subseteq Nat \ {0} /\ SetPoints # {}
  /\ Temps \subseteq Int /\ Temps # {}
  /\ Levels \subseteq 0..100
  /\ LidOpenOffset \in Nat
  /\ Duration \in Nat /\ MinAutoResume \in Nat
  /\ Word \in Nat /\ Duration < Word /\ MinAutoResume <= Duration

VARIABLES
  mem,          \* the shared fields of pid, and the mode in /etc/hm.cfg
  pc,           \* where the main thread is in doWork
  hasTemp,      \* the control probe's reading of this period
  temperature,
  tempDiff,     \* doWork's local
  countdown,    \* the LidOpenResumeCountdown line 643 read
  stores,       \* stores the main thread has still to make: sets, in order
  todo,         \* stores the command of each thread has still to make
  saving,       \* its storePidMode: "no", "read", or the mode about to be written
  last,         \* history: the last command that names a mode
  raced         \* history: what that command met, "no" for nothing

periodVars  == <<pc, hasTemp, temperature, tempDiff, countdown, stores>>
commandVars == <<todo, saving, last, raced>>
vars        == <<mem, periodVars, commandVars>>

Threads   == {"main", "web"}
AutoModes == {"STARTUP", "RECOVERY", "NORMAL"}

\* Mutant: signed subtraction
SubSigned(a, b) == a - b

\* unsigned int subtraction
USub(a, b) == IF a >= b THEN a - b ELSE a - b + Word

\* signed division truncates toward zero
Quotient(a, b) == IF a >= 0 THEN a \div b ELSE -((-a) \div b)

Put(field, value) == [field |-> field, value |-> value]

\* The stores of setPidMode
SetPidMode(mode) ==
  {Put("pidMode", mode), Put("lidCountdown", 0), Put("pidOutput", 0)}

\* The stores of resetLidOpenResumeCountdown
ResetLid == <<SetPidMode("RECOVERY"), {Put("lidCountdown", Duration)}>>

\* What is left of a sequence of sets of stores when w of the first is made
Rest(sets, w) ==
  IF Head(sets) = {w} THEN Tail(sets)
                      ELSE <<Head(sets) \ {w}>> \o Tail(sets)

Make(w) == mem' = [mem EXCEPT ![w.field] = w.value]

InControl == pc \notin {"idle", "mode"}

\* Thread t is in the middle of a command.
Busy(t) == todo[t] # <<>> \/ saving[t] # "no"
AnyBusy == \E t \in Threads : Busy(t)

\* What the last command has met once it meets a period, too: another command
\* it overlapped stays on record.
MetPeriod == IF raced = "no" THEN "period" ELSE raced

-----------------------------------------------------------------------------
(* The main thread in GrillPid::doWork                                     *)

Goto(l) == pc' = l
\* doWork returns: what it worked with is gone.
Return == Goto("idle") /\ hasTemp' = FALSE /\ tempDiff' = 0 /\ countdown' = 0

Keep(l) == Goto(l) /\ UNCHANGED <<mem, hasTemp, temperature, tempDiff, countdown, stores>>

\* calcTemp of the control probe; serial_doWork has returned.
Measure ==
  /\ pc = "idle" /\ ~Busy("main") /\ Goto("mode")
  /\ \/ hasTemp' = FALSE /\ UNCHANGED temperature
     \/ hasTemp' = TRUE /\ temperature' \in Temps
  /\ UNCHANGED <<mem, tempDiff, countdown, stores, commandVars>>

\* Mutant: the period is controlled whatever the mode.
TestModeAlways ==
  /\ pc = "mode" /\ Keep("clear")
  /\ raced' = IF AnyBusy THEN MetPeriod ELSE raced
  /\ UNCHANGED <<todo, saving, last>>

\* if (_pidMode <= PIDMODE_AUTO_LAST)
TestMode ==
  /\ pc = "mode"
  /\ IF mem.pidMode \in AutoModes
       THEN Goto("clear") /\ UNCHANGED <<hasTemp, tempDiff, countdown>>
       ELSE Return
  /\ UNCHANGED <<mem, temperature, stores>>
  /\ raced' = IF mem.pidMode \in AutoModes /\ AnyBusy THEN MetPeriod ELSE raced
  /\ UNCHANGED <<todo, saving, last>>

\* calcPidOutput starts with _pidOutput = 0
ClearOutput ==
  /\ pc = "clear" /\ Goto("law")
  /\ Make(Put("pidOutput", 0))
  /\ UNCHANGED <<hasTemp, temperature, tempDiff, countdown, stores, commandVars>>

\* Mutant: the control law runs while the lid is open.
TestLidIgnored ==
  /\ pc = "law" /\ Keep(IF hasTemp THEN "output" ELSE "diff") /\ UNCHANGED commandVars

\* ... and goes on only with a temperature and the lid closed ...
TestLid ==
  /\ pc = "law"
  /\ Keep(IF hasTemp /\ mem.lidCountdown = 0 THEN "output" ELSE "diff")
  /\ UNCHANGED commandVars

\* ... to store what it computed.
StoreOutput ==
  /\ pc = "output" /\ Goto("diff")
  /\ \E level \in Levels : Make(Put("pidOutput", level))
  /\ UNCHANGED <<hasTemp, temperature, tempDiff, countdown, stores, commandVars>>

ReadSetPoint ==
  /\ pc = "diff" /\ Goto("resume")
  /\ tempDiff' = mem.setPoint - temperature
  /\ UNCHANGED <<mem, hasTemp, temperature, countdown, stores, commandVars>>

\* The first branch: the set point is reached
TestResume ==
  /\ pc = "resume"
  /\ IF tempDiff <= 0 /\ USub(Duration, mem.lidCountdown) > MinAutoResume
       THEN /\ Goto("stores")
            /\ stores' = <<{Put("pidMode", "NORMAL"), Put("lidCountdown", 0)}>>
       ELSE Goto("lid") /\ UNCHANGED stores
  /\ UNCHANGED <<mem, hasTemp, temperature, tempDiff, countdown, commandVars>>

\* The second: lid mode is on
TestCountdown ==
  /\ pc = "lid"
  /\ countdown' = mem.lidCountdown
  /\ Goto(IF mem.lidCountdown # 0 THEN "tick" ELSE "drop")
  /\ UNCHANGED <<mem, hasTemp, temperature, tempDiff, stores, commandVars>>

\* The count is read again for the subtraction, or the one tested is used.
Tick ==
  /\ pc = "tick" /\ Return
  /\ \E c \in {countdown, mem.lidCountdown} : Make(Put("lidCountdown", USub(c, 1)))
  /\ UNCHANGED <<temperature, stores, commandVars>>

\* The third: a drop in NORMAL starts lid mode, if PidOutputAvg < 90
TestDrop ==
  /\ pc = "drop"
  /\ \/ /\ mem.pidMode = "NORMAL"
        /\ Quotient(tempDiff * 100, mem.setPoint) >= LidOpenOffset
        /\ Goto("stores") /\ stores' = ResetLid
        /\ UNCHANGED <<hasTemp, tempDiff, countdown>>
     \/ Return /\ UNCHANGED stores
  /\ UNCHANGED <<mem, temperature, commandVars>>

MainStore ==
  /\ pc = "stores"
  /\ \E w \in Head(stores) :
       /\ Make(w)
       /\ stores' = Rest(stores, w)
       /\ IF stores' = <<>> THEN Return ELSE UNCHANGED <<pc, hasTemp, tempDiff, countdown>>
  /\ UNCHANGED <<temperature, commandVars>>

Main ==
  \/ Measure \/ TestMode \/ ClearOutput \/ TestLid \/ StoreOutput \/ ReadSetPoint
  \/ TestResume \/ TestCountdown \/ Tick \/ TestDrop \/ MainStore

-----------------------------------------------------------------------------
(* Either thread in handleCommandUrl                                       *)

\* The main thread takes a command between two periods only.
Free(t) == ~Busy(t) /\ (t = "main" => pc = "idle")

Start(t, sets, save) ==
  /\ Free(t)
  /\ todo' = [todo EXCEPT ![t] = sets]
  /\ saving' = [saving EXCEPT ![t] = save]
  /\ UNCHANGED <<mem, periodVars>>

\* A command that names a mode
Begin(t, sets, save, command) ==
  /\ Start(t, sets, save)
  /\ last' = command
  /\ raced' = IF AnyBusy THEN "command" ELSE IF InControl THEN "period" ELSE "no"

Cmd(what, value) == [what |-> what, value |-> value]

\* "/set?sp=O"
CommandOff(t) == Begin(t, <<SetPidMode("OFF")>>, "no", Cmd("off", 0))

\* Mutant: the mode is not stored with a manual output.
CommandManualNotSaved(t) ==
  \E v \in Levels :
    Begin(t, <<SetPidMode("MANUAL"), {Put("pidOutput", v)}>>, "no", Cmd("manual", v))

\* "/set?sp=-50"
CommandManual(t) ==
  \E v \in Levels :
    Begin(t, <<SetPidMode("MANUAL"), {Put("pidOutput", v)}>>, "read", Cmd("manual", v))

\* "/set?sp=120"
CommandSetPoint(t) ==
  \E sp \in SetPoints :
    Begin(t, <<SetPidMode("STARTUP"), {Put("setPoint", sp)}>>, "read", Cmd("auto", sp))

\* "/set?ld=,,1"
CommandLidOn(t) == Begin(t, ResetLid, "no", Cmd("lid", 0))

\* "/set?ld=,,0" leaves the mode alone.  What was in flight stays in flight.
CommandLidOff(t) ==
  /\ Start(t, <<{Put("lidCountdown", 0)}>>, "no")
  /\ raced' = IF AnyBusy THEN "command" ELSE raced
  /\ UNCHANGED last

Store(t) ==
  /\ todo[t] # <<>>
  /\ \E w \in Head(todo[t]) :
       Make(w) /\ todo' = [todo EXCEPT ![t] = Rest(todo[t], w)]
  /\ raced' = IF InControl THEN MetPeriod ELSE raced
  /\ UNCHANGED <<periodVars, saving, last>>

\* storePidMode: getPidMode, then the write to the file
SaveRead(t) ==
  /\ todo[t] = <<>> /\ saving[t] = "read"
  /\ saving' = [saving EXCEPT ![t] = IF mem.pidMode \in AutoModes THEN "STARTUP" ELSE mem.pidMode]
  /\ UNCHANGED <<mem, periodVars, todo, last, raced>>

SaveWrite(t) ==
  /\ todo[t] = <<>> /\ saving[t] \notin {"no", "read"}
  /\ Make(Put("fileMode", saving[t]))
  /\ saving' = [saving EXCEPT ![t] = "no"]
  /\ UNCHANGED <<periodVars, todo, last, raced>>

Carry(t) == Store(t) \/ SaveRead(t) \/ SaveWrite(t)

Command(t) ==
  \/ CommandOff(t) \/ CommandManual(t) \/ CommandSetPoint(t)
  \/ CommandLidOn(t) \/ CommandLidOff(t)

-----------------------------------------------------------------------------
Init ==
  /\ \E sp \in SetPoints :
       /\ mem = [pidMode |-> "STARTUP", setPoint |-> sp, lidCountdown |-> 0,
                 pidOutput |-> 0, fileMode |-> "STARTUP"]
       /\ last = Cmd("auto", sp)
  /\ pc = "idle" /\ hasTemp = FALSE /\ temperature = 0
  /\ tempDiff = 0 /\ countdown = 0 /\ stores = <<>>
  /\ todo = [t \in Threads |-> <<>>] /\ saving = [t \in Threads |-> "no"]
  /\ raced = "no"

Next == Main \/ (\E t \in Threads : Carry(t) \/ Command(t))

Spec == Init /\ [][Next]_vars

\* Both threads keep running; nothing obliges an operator to send anything.
FairSpec == Spec /\ WF_vars(Main) /\ \A t \in Threads : WF_vars(Carry(t))

-----------------------------------------------------------------------------
Settled == pc = "idle" /\ ~AnyBusy

\* What the operator last asked for is what the controller does.
Obeyed ==
  CASE last.what = "off"    -> mem.pidMode = "OFF" /\ mem.pidOutput = 0 /\ mem.lidCountdown = 0
    [] last.what = "manual" -> /\ mem.pidMode = "MANUAL" /\ mem.lidCountdown = 0
                               /\ mem.pidOutput = last.value
    [] last.what = "auto"   -> mem.pidMode \in AutoModes /\ mem.setPoint = last.value
    [] OTHER                -> mem.pidMode \in AutoModes

\* Types, and what no race with a period may break: a manual output in effect
\* survives a restart, since doWork never stores MANUAL and storePidMode runs
\* after the mode; and after a command that met nothing the countdown is
\* "seconds remaining" (grillpid.h), never more than a lid event has.  Two
\* commands that overlap can break the first: the mode the one has stored is
\* read or written before the mode of the other.
MemoryOK ==
  /\ mem.pidMode \in AutoModes \cup {"MANUAL", "OFF"}
  /\ mem.setPoint \in SetPoints
  /\ mem.lidCountdown \in 0..(Word - 1)
  /\ mem.pidOutput \in 0..100
  /\ mem.fileMode \in {"STARTUP", "MANUAL", "OFF"}
  /\ ~AnyBusy /\ raced # "command" /\ mem.pidMode = "MANUAL" => mem.fileMode = "MANUAL"
  /\ ~AnyBusy /\ raced = "no" => mem.lidCountdown <= Duration

\* A command, from the serial line or from the web, whose stores fall between
\* two controlled periods and meet no other command takes full effect, and the
\* periods after it never undo it.
UnracedCommandHolds == ~AnyBusy /\ raced = "no" => Obeyed

\* Once no more commands come, an output that a race left behind in an
\* automatic mode with the lid open is gone after the next period.
Quiet == <>[][Main \/ (\E t \in Threads : Carry(t))]_vars

AutomaticModesHeal ==
  Quiet => <>[](Settled /\ mem.pidMode \in AutoModes /\ mem.lidCountdown # 0
                  => mem.pidOutput = 0)

\* "OFF - Output, alarms, and lid detect disabled" (grillpid.h): once an OFF
\* command is through, no other command overlapped it and no period is in
\* progress, the controller is off and drives nothing.
OffTakesEffect ==
  Settled /\ raced # "command" /\ last.what = "off"
    => mem.pidMode = "OFF" /\ mem.pidOutput = 0
=============================================================================
