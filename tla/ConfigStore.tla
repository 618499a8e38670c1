---------------------------- MODULE ConfigStore -----------------------------
(***************************************************************************)
(* The configuration file (HMConfig in src/src/econfig.cpp) and the code   *)
(* of src/src/hmcore.cpp that stores settings in it and loads them.        *)
(*                                                                         *)
(* A setting is stored byte by byte.  Each byte goes into the copy in      *)
(* memory, then the file is positioned, then the byte is written where the *)
(* file now stands: three steps, which the main thread and the server's    *)
(* thread take over one descriptor without a lock.  The power may fail     *)
(* between any two of them; a byte written has reached the file (O_SYNC).  *)
(*                                                                         *)
(* One cell stands for a magic number, the stored mode and a probe's type; *)
(* the set point has the two bytes of its word.  A byte is 0..Byte - 1.    *)
(***************************************************************************)
EXTENDS Integers, Sequences

CONSTANTS
  Byte,       \* values of a byte, 256
  MAGIC,      \* EEPROM_MAGIC
  SetPoints,  \* set points commanded, which fit into the word
  DefaultSetPoint,
  MaxCommands \* bound: commands and resets in a behaviour

ASSUME StoreAssumption ==
  /\ Byte \in Nat /\ Byte > 2
  /\ MAGIC \in 1..(Byte - 1)
  /\ SetPoints \cup {DefaultSetPoint} \subseteq 1..(Byte * Byte - 1)
  /\ MaxCommands \in Nat

VARIABLES
  ram,      \* eeprom_config
  file,     \* /etc/hm.cfg
  pos,      \* the position of fd_config
  phase,    \* how far the main thread has come
  program,  \* what each thread still has to do for its command
  step,     \* where each thread is in econfig_write_byte
  inUse,    \* the set point and mode of the controller
  kept,     \* history: the mode it last got from a start, a reset or a command
            \* that stores the mode
  commands, \* commands and resets so far
  raced     \* history: whether two commands have overlapped since the start

vars == <<ram, file, pos, phase, program, step, inUse, kept, commands, raced>>

-----------------------------------------------------------------------------
Threads == {"main", "web"}
Phases  == {"base", "probes", "server", "running", "resetting"}

\* The addresses: the base block, a gap, and at EEPROM_PROBE_START - 4 the
\* probes' magic number before their blocks.
Magic == 0
SetPointLow == 1
SetPointHigh == 2
PidMode == 3
ProbeMagic == 5
ProbeType == 6
Cells == 0..8

\* PIDMODE_STARTUP, which here stands for the other automatic modes too, as
\* storePidMode makes it; PIDMODE_MANUAL and PIDMODE_OFF (3 and 4 in the code);
\* PROBETYPE_INTERNAL
STARTUP == 0
MANUAL == 1
OFF == 2
INTERNAL == 1

\* Mutant: the high byte is the whole value.
HighWhole(v) == v

Low(v)  == v % Byte
High(v) == v \div Byte
Word(bytes) == bytes[SetPointLow] + Byte * bytes[SetPointHigh]

\* What a thread's program is made of: a byte to store, the mode to save
\* (storePidMode reads it when it gets there), a set point and a mode to put
\* into use, a mode alone, or a mode that its command does not save.
Put(c, v)   == [op |-> "put", cell |-> c, val |-> v]
SaveMode    == [op |-> "save", cell |-> PidMode, val |-> 0]
Use(sp, m)  == [op |-> "use", setPoint |-> sp, mode |-> m]
SetMode(m)  == [op |-> "set", mode |-> m]
Switch(m)   == [op |-> "switch", mode |-> m]

\* DEFAULT_CONFIG and DEFAULT_PROBE_CONFIG, written from the first byte on
DefaultBase ==
  <<Put(Magic, MAGIC), Put(SetPointLow, Low(DefaultSetPoint)),
    Put(SetPointHigh, High(DefaultSetPoint)), Put(PidMode, STARTUP)>>
DefaultProbes == <<Put(ProbeType, INTERNAL)>>

Idle(t)   == program[t] = <<>>
Serving   == phase \in {"running", "resetting"}

\* Thread t starts on ops: an overlap with the other thread is noted.
Begin(t, ops) ==
  /\ Idle(t)
  /\ program' = [program EXCEPT ![t] = ops]
  /\ raced' = IF \A u \in Threads : Idle(u) THEN raced
              ELSE IF phase' = "resetting" THEN "reset"
              ELSE IF raced = "no" THEN "commands" ELSE raced

-----------------------------------------------------------------------------
\* econfig_write_byte
Now(t) == Head(program[t])
Writes(t) == ~Idle(t) /\ Now(t).op \in {"put", "save"}

StoreByte(t) ==
  /\ Writes(t) /\ step[t] = "store"
  /\ ram' = [ram EXCEPT ![Now(t).cell] = IF Now(t).op = "save" THEN inUse.mode ELSE Now(t).val]
  /\ step' = [step EXCEPT ![t] = "seek"]
  /\ UNCHANGED <<file, pos, phase, program, inUse, kept, commands, raced>>

\* Mutant: the file is left where the last write ended.
SeekForgotten(t) ==
  /\ Writes(t) /\ step[t] = "seek"
  /\ step' = [step EXCEPT ![t] = "write"]
  /\ UNCHANGED <<ram, file, pos, phase, program, inUse, kept, commands, raced>>

Seek(t) ==
  /\ Writes(t) /\ step[t] = "seek"
  /\ pos' = Now(t).cell
  /\ step' = [step EXCEPT ![t] = "write"]
  /\ UNCHANGED <<ram, file, phase, program, inUse, kept, commands, raced>>

WriteByte(t) ==
  /\ Writes(t) /\ step[t] = "write"
  /\ file' = [file EXCEPT ![pos] = ram[Now(t).cell]]
  /\ pos' = pos + 1
  /\ step' = [step EXCEPT ![t] = "store"]
  /\ program' = [program EXCEPT ![t] = Tail(@)]
  /\ UNCHANGED <<ram, phase, inUse, kept, commands, raced>>

\* setSetPoint and setPidMode, setPidOutput, setUnits or
\* resetLidOpenResumeCountdown, between two stores
PutIntoUse(t) ==
  /\ ~Idle(t) /\ Now(t).op \in {"use", "set", "switch"}
  /\ inUse' = IF Now(t).op = "use" THEN [setPoint |-> Now(t).setPoint, mode |-> Now(t).mode]
                                   ELSE [inUse EXCEPT !.mode = Now(t).mode]
  /\ kept' = IF Now(t).op = "switch" THEN kept ELSE Now(t).mode
  /\ program' = [program EXCEPT ![t] = Tail(@)]
  /\ UNCHANGED <<ram, file, pos, phase, step, commands, raced>>

Step(t) == StoreByte(t) \/ Seek(t) \/ WriteByte(t) \/ PutIntoUse(t)

-----------------------------------------------------------------------------
\* Commands of the serial line and the panel (main) and of the web server (web)
Unmoved == UNCHANGED <<ram, file, pos, step, inUse, kept>>

\* Thread t may take a command: the main thread is not in a reset.
Accepts(t) == Serving /\ (t = "main" => phase = "running") /\ phase' = phase
Counted    == commands < MaxCommands /\ commands' = commands + 1

\* Mutant: storePidMode is forgotten.
StoreSetPointOnly(t, sp) ==
  /\ Accepts(t)
  /\ Begin(t, <<Put(SetPointLow, Low(sp)), Put(SetPointHigh, High(sp)), Use(sp, STARTUP)>>)
  /\ Counted /\ Unmoved

\* storeSetPoint: the word is stored first, then put into use.
StoreSetPoint(t, sp) ==
  /\ Accepts(t)
  /\ Begin(t, <<Put(SetPointLow, Low(sp)), Put(SetPointHigh, High(sp)), Use(sp, STARTUP), SaveMode>>)
  /\ Counted /\ Unmoved

\* A mode set first and then stored: storeSetPoint of a manual output, and on
\* the panel a long press of LEFT, which turns the controller off or on again.
StoreMode(t, m) ==
  /\ Accepts(t)
  /\ Begin(t, <<SetMode(m), SaveMode>>)
  /\ Counted /\ Unmoved

\* A mode set and not stored: OFF commanded as a unit (storePidUnits), and the
\* automatic mode that lid mode switches to (storeLidParam).
SwitchMode(t, m) ==
  /\ Accepts(t)
  /\ Begin(t, <<Switch(m)>>)
  /\ Counted /\ Unmoved

\* storeProbeTypeOrMap
StoreProbeType(t, type) ==
  /\ Accepts(t) /\ ram[ProbeType] # type
  /\ Begin(t, <<Put(ProbeType, type)>>)
  /\ Counted /\ Unmoved

\* menuResetConfig: eepromLoadConfig(1) on the main thread
ResetConfig ==
  /\ phase = "running" /\ phase' = "resetting"
  /\ Begin("main", DefaultBase \o <<Use(DefaultSetPoint, STARTUP)>> \o DefaultProbes)
  /\ Counted /\ Unmoved

ResetDone ==
  /\ phase = "resetting" /\ Idle("main")
  /\ phase' = "running"
  /\ UNCHANGED <<ram, file, pos, program, step, inUse, kept, commands, raced>>

-----------------------------------------------------------------------------
\* hmcoreSetup: eepromLoadBaseConfig(0), eepromLoadProbeConfig(0), start_server
LoadBaseConfig ==
  /\ phase = "base" /\ phase' = "probes"
  /\ Begin("main", IF ram[Magic] # MAGIC
                     THEN DefaultBase \o <<Use(DefaultSetPoint, STARTUP)>>
                     ELSE <<Use(Word(ram), ram[PidMode])>>)
  /\ Unmoved /\ UNCHANGED commands

\* Mutant: the probes' magic number is written at the start of the gap.
LoadProbeConfigMisplaced ==
  /\ phase = "probes" /\ phase' = "server"
  /\ Begin("main", IF ram[ProbeMagic] # MAGIC
                     THEN <<Put(ProbeMagic - 1, MAGIC)>> \o DefaultProbes ELSE <<>>)
  /\ Unmoved /\ UNCHANGED commands

LoadProbeConfig ==
  /\ phase = "probes" /\ phase' = "server"
  /\ Begin("main", IF ram[ProbeMagic] # MAGIC
                     THEN <<Put(ProbeMagic, MAGIC)>> \o DefaultProbes ELSE <<>>)
  /\ Unmoved /\ UNCHANGED commands

StartServer ==
  /\ phase = "server" /\ Idle("main")
  /\ phase' = "running"
  /\ UNCHANGED <<ram, file, pos, program, step, inUse, kept, commands, raced>>

\* What a start finds in file f: the constructor of HMConfig has read it.
Started(f) ==
  /\ ram = f /\ file = f /\ pos = 0
  /\ phase = "base"
  /\ program = [t \in Threads |-> <<>>] /\ step = [t \in Threads |-> "store"]
  /\ inUse = [setPoint |-> 0, mode |-> STARTUP] /\ kept = STARTUP
  /\ raced = "no" /\ commands = 0

\* The power fails, and the program starts again.
PowerFails ==
  /\ file' = file /\ ram' = file /\ pos' = 0
  /\ phase' = "base"
  /\ program' = [t \in Threads |-> <<>>] /\ step' = [t \in Threads |-> "store"]
  /\ inUse' = [setPoint |-> 0, mode |-> STARTUP] /\ kept' = STARTUP
  /\ raced' = "no" /\ UNCHANGED commands

\* The first start finds no file, and makes one of zeros.
Init == Started([c \in Cells |-> 0])

Command(t) ==
  \/ \E sp \in SetPoints : StoreSetPoint(t, sp)
  \/ StoreMode(t, MANUAL)
  \/ t = "main" /\ StoreMode(t, IF inUse.mode = OFF THEN STARTUP ELSE OFF)
  \/ \E m \in {STARTUP, OFF} : SwitchMode(t, m)
  \/ \E type \in {0, INTERNAL} : StoreProbeType(t, type)

Start == LoadBaseConfig \/ LoadProbeConfig \/ StartServer

Next ==
  \/ \E t \in Threads : Step(t) \/ Command(t)
  \/ Start \/ ResetConfig \/ ResetDone \/ PowerFails

Spec == Init /\ [][Next]_vars

-----------------------------------------------------------------------------
TypeOK ==
  /\ ram \in [Cells -> 0..(Byte - 1)]
  /\ file \in [Cells -> 0..(Byte - 1)]
  /\ pos \in Cells
  /\ phase \in Phases
  /\ step \in [Threads -> {"store", "seek", "write"}]
  /\ inUse.setPoint \in 0..(Byte * Byte - 1)
  /\ inUse.mode \in 0..(Byte - 1) /\ kept \in 0..(Byte - 1)
  /\ commands \in 0..MaxCommands
  /\ raced \in {"no", "commands", "reset"}

\* As long as no two commands have overlapped, the file lacks at most the byte
\* being written: a power failure costs no other setting, at any point of a
\* start, a command or a reset (HMConfig::econfig_write_byte).
FileLagsOneByte ==
  /\ TypeOK
  /\ raced = "no" =>
       \A c \in Cells : file[c] # ram[c] =>
         \E t \in Threads : Writes(t) /\ Now(t).cell = c /\ step[t] # "store"

\* Between commands that did not overlap the file holds the set point in use,
\* and the mode the controller last got from a start, a reset or a command that
\* stores it, whatever else came before.  That is the mode in use unless a
\* command that stores none has switched it since, OFF as a unit (hmcore.cpp:212)
\* or lid mode (hmcore.cpp:881): a restart undoes these.  Neither switches to
\* MANUAL, so a manual output in use is always one a restart returns to.
StoredIsInUse ==
  Serving /\ raced = "no" /\ (\A t \in Threads : Idle(t)) =>
    /\ Word(file) = inUse.setPoint /\ file[PidMode] = kept
    /\ inUse.mode = MANUAL => kept = MANUAL

\* However commands overlap, they spoil only settings: the probes' magic number
\* stays, and so does the base block's unless a reset was among them.  The
\* next start therefore keeps all the rest.
MagicsSurvive ==
  Serving =>
    /\ file[ProbeMagic] = MAGIC
    /\ file[Magic] = MAGIC \/ raced = "reset"
=============================================================================
