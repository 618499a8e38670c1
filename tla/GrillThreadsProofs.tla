------------------------- MODULE GrillThreadsProofs -------------------------
(***************************************************************************)
(* What holds of GrillThreads for every set of set points, temperatures    *)
(* and levels, every lid duration and word size, however the commands of   *)
(* the two threads and the periods of the main thread interleave.          *)
(***************************************************************************)
EXTENDS GrillThreads, SequenceTheorems, TLAPS

-----------------------------------------------------------------------------
(* Types                                                                   *)

Modes == AutoModes \cup {"MANUAL", "OFF"}

Memory ==
  [pidMode : Modes, setPoint : SetPoints, lidCountdown : 0..(Word - 1),
   pidOutput : 0..100, fileMode : {"STARTUP", "MANUAL", "OFF"}]

\* The stores of a period
MainPuts ==
  SetPidMode("RECOVERY")
    \cup {Put("pidMode", "NORMAL"), Put("lidCountdown", Duration)}

ModePuts == {Put("pidMode", mode) : mode \in {"OFF", "STARTUP", "RECOVERY"}}

\* The stores of a command
QuietPuts ==
  ModePuts \cup {Put("lidCountdown", 0), Put("lidCountdown", Duration)}
    \cup {Put("pidOutput", v) : v \in Levels \cup {0}}
    \cup {Put("setPoint", sp) : sp \in SetPoints}

CommandPuts == QuietPuts \cup {Put("pidMode", "MANUAL")}

\* MANUAL is stored only by a command that saves the mode afterwards.
CommandType(t) ==
  /\ saving[t] = "no" => todo[t] \in Seq(SUBSET QuietPuts)
  /\ todo[t] # <<>> => saving[t] \in {"no", "read"}

TypeInv ==
  /\ mem \in Memory
  /\ countdown \in 0..(Word - 1)
  /\ stores \in Seq(SUBSET MainPuts)
  /\ pc = "stores" => stores # <<>>
  /\ todo \in [Threads -> Seq(SUBSET CommandPuts)]
  /\ saving \in [Threads -> {"no", "read", "STARTUP", "MANUAL", "OFF"}]
  /\ \A t \in Threads : CommandType(t)

-----------------------------------------------------------------------------
(* Commands that do not overlap: at most one thread is in one.             *)

Alone(t) == \A u \in Threads \ {t} : ~Busy(u)

\* The command of t is about to store another mode.
Leaves(t) ==
  \E mode \in Modes \ {"MANUAL"} :
    todo[t] # <<>> /\ Put("pidMode", mode) \in Head(todo[t])

\* A manual output is in the file, or about to be, or about to end.
ManualInv(t) ==
  mem.pidMode = "MANUAL" =>
    CASE saving[t] = "no"   -> mem.fileMode = "MANUAL" \/ Leaves(t)
      [] saving[t] = "read" -> TRUE
      [] OTHER              -> saving[t] = "MANUAL"

-----------------------------------------------------------------------------
(* A command that meets no controlled period                               *)

\* The stores of SetPidMode(mode) that are not left in B have been made.
ModeMade(mode, B) ==
  /\ Put("pidMode", mode) \in B \/ mem.pidMode = mode
  /\ Put("lidCountdown", 0) \in B \/ mem.lidCountdown = 0
  /\ Put("pidOutput", 0) \in B \/ mem.pidOutput = 0

\* A command with a mode and one more store, still at the mode
AtMode(t, mode, w) ==
  \E B \in SUBSET SetPidMode(mode) : todo[t] = <<B, {w}>> /\ ModeMade(mode, B)

\* Mode and countdown are as a command left them.
LidIdle(mode) == mem.pidMode = mode /\ mem.lidCountdown = 0

\* A command that clears the lid countdown may be under way, nothing else.
Through(t) == todo[t] \in {<<>>, <<{Put("lidCountdown", 0)}>>} /\ saving[t] = "no"

OffInv(t) ==
  /\ ~InControl /\ saving[t] = "no"
  /\ \/ todo[t] = <<>> /\ ModeMade("OFF", {})
     \/ \E B \in SUBSET SetPidMode("OFF") : todo[t] = <<B>> /\ ModeMade("OFF", B)

ManualAt(t, v) ==
  \/ saving[t] = "read" /\ AtMode(t, "MANUAL", Put("pidOutput", v))
  \/ saving[t] = "read" /\ todo[t] = <<{Put("pidOutput", v)}>> /\ LidIdle("MANUAL")
  \/ saving[t] \in {"read", "MANUAL"} /\ todo[t] = <<>> /\ LidIdle("MANUAL") /\ mem.pidOutput = v
  \/ Through(t) /\ LidIdle("MANUAL") /\ mem.pidOutput = v

ManualCommandInv(t) == ~InControl /\ ManualAt(t, last.value)

\* Automatic control, as any period may find and leave it
Automatic == mem.pidMode \in AutoModes /\ mem.lidCountdown \in 0..Duration

AutoAt(t, sp) ==
  \/ ~InControl /\ saving[t] = "read" /\ AtMode(t, "STARTUP", Put("setPoint", sp))
  \/ ~InControl /\ saving[t] = "read" /\ todo[t] = <<{Put("setPoint", sp)}>> /\ LidIdle("STARTUP")
  \/ /\ ~InControl /\ saving[t] \in {"read", "STARTUP"} /\ todo[t] = <<>>
     /\ LidIdle("STARTUP") /\ mem.setPoint = sp
  \/ Through(t) /\ Automatic /\ mem.setPoint = sp

LidAt(t) ==
  \/ ~InControl /\ saving[t] = "no" /\ AtMode(t, "RECOVERY", Put("lidCountdown", Duration))
  \/ /\ ~InControl /\ saving[t] = "no" /\ todo[t] = <<{Put("lidCountdown", Duration)}>>
     /\ mem.pidMode = "RECOVERY"
  \/ Through(t) /\ Automatic

\* The countdown about to be decremented is the one that was tested.
TickInv == pc = "tick" => countdown = mem.lidCountdown /\ countdown # 0

CommandInv(t) ==
  \/ last.what = "off" /\ OffInv(t)
  \/ last.what = "manual" /\ ManualCommandInv(t)
  \/ last.what = "auto" /\ AutoAt(t, last.value)
  \/ last.what = "lid" /\ LidAt(t)

\* t is the thread in a command, if one is, unless commands overlapped.
Here(t) ==
  raced # "command" =>
    /\ Alone(t)
    /\ ManualInv(t)
    /\ raced = "no" => TickInv /\ CommandInv(t)

ThreadsInv == TypeInv /\ \E t \in Threads : Here(t)

-----------------------------------------------------------------------------
(* Stores                                                                  *)

Fields == {"pidMode", "setPoint", "lidCountdown", "pidOutput", "fileMode"}

\* A store changes its field and no other.
LEMMA StoreEffect ==
  ASSUME mem \in Memory, NEW w, w.field \in Fields, Make(w)
  PROVE  /\ mem'.pidMode = IF w.field = "pidMode" THEN w.value ELSE mem.pidMode
         /\ mem'.setPoint = IF w.field = "setPoint" THEN w.value ELSE mem.setPoint
         /\ mem'.lidCountdown =
              IF w.field = "lidCountdown" THEN w.value ELSE mem.lidCountdown
         /\ mem'.pidOutput = IF w.field = "pidOutput" THEN w.value ELSE mem.pidOutput
         /\ mem'.fileMode = IF w.field = "fileMode" THEN w.value ELSE mem.fileMode
BY DEF Make, Memory, Fields

\* A store of a value of the field's type keeps the types.
LEMMA StoreType ==
  ASSUME mem \in Memory, NEW w, w.field \in Fields, Make(w),
         w.field = "pidMode" => w.value \in Modes,
         w.field = "setPoint" => w.value \in SetPoints,
         w.field = "lidCountdown" => w.value \in 0..(Word - 1),
         w.field = "pidOutput" => w.value \in 0..100,
         w.field = "fileMode" => w.value \in {"STARTUP", "MANUAL", "OFF"}
  PROVE  mem' \in Memory
BY DEF Make, Memory, Fields

\* The stores of the threads are of the right types.
LEMMA PutTypes ==
  ASSUME NEW w \in CommandPuts \cup MainPuts
  PROVE  /\ w.field \in Fields \ {"fileMode"}
         /\ w.field = "pidMode" => w.value \in Modes
         /\ w.field = "setPoint" => w.value \in SetPoints
         /\ w.field = "lidCountdown" => w.value \in 0..(Word - 1)
         /\ w.field = "pidOutput" => w.value \in 0..100
BY ThreadsAssumption DEF CommandPuts, MainPuts, QuietPuts, ModePuts, SetPidMode, Put,
                         Modes, AutoModes, Fields

\* What is left after a store: of any sequence of sets, and of one or two sets.
LEMMA RestType ==
  ASSUME NEW S, NEW sets \in Seq(SUBSET S), sets # <<>>, NEW w
  PROVE  Rest(sets, w) \in Seq(SUBSET S)
<1>1. Head(sets) \in SUBSET S /\ Tail(sets) \in Seq(SUBSET S)
  BY HeadTailProperties
<1>2. <<Head(sets) \ {w}>> \in Seq(SUBSET S)
  BY <1>1
<1>. QED BY <1>1, <1>2, ConcatProperties DEF Rest

\* What is not made yet stays to be made.
LEMMA RestKeeps ==
  ASSUME NEW S, NEW sets \in Seq(SUBSET S), sets # <<>>, NEW w,
         NEW x \in Head(sets), x # w
  PROVE  Rest(sets, w) # <<>> /\ x \in Head(Rest(sets, w))
<1>1. Head(sets) \in SUBSET S /\ Tail(sets) \in Seq(SUBSET S)
  BY HeadTailProperties
<1>2. <<Head(sets) \ {w}>> \in Seq(SUBSET S) /\ Len(<<Head(sets) \ {w}>>) = 1
      /\ <<Head(sets) \ {w}>>[1] = Head(sets) \ {w}
  BY <1>1
<1>3. Rest(sets, w) = <<Head(sets) \ {w}>> \o Tail(sets)
  BY DEF Rest
<1>4. Rest(sets, w) \in Seq(SUBSET S) /\ Len(Rest(sets, w)) >= 1
      /\ Rest(sets, w)[1] = Head(sets) \ {w}
  <2>1. Len(Tail(sets)) \in Nat
    BY <1>1
  <2>. QED BY <1>1, <1>2, <1>3, <2>1, ConcatProperties
<1>. QED BY <1>4

LEMMA RestOne ==
  ASSUME NEW B, NEW w \in B
  PROVE  Rest(<<B>>, w) = IF B = {w} THEN <<>> ELSE <<B \ {w}>>
BY DEF Rest

LEMMA RestTwo ==
  ASSUME NEW B, NEW C, NEW w \in B
  PROVE  Rest(<<B, C>>, w) = IF B = {w} THEN <<C>> ELSE <<B \ {w}, C>>
<1>1. Head(<<B, C>>) = B /\ Tail(<<B, C>>) = <<C>>
  OBVIOUS
<1>. DEFINE A == B \ {w}
<1>. HIDE DEF A
<1>2. <<A>> \o <<C>> = <<A, C>>
  <2>. DEFINE left == <<A>> \o <<C>>
              right == <<A, C>>
  <2>1. <<A>> \in Seq({A, C}) /\ <<C>> \in Seq({A, C}) /\ right \in Seq({A, C})
    OBVIOUS
  <2>2. /\ left \in Seq({A, C}) /\ Len(left) = 2
        /\ left[1] = A /\ left[2] = C
    BY <2>1, ConcatProperties
  <2>3. Len(right) = 2 /\ right[1] = A /\ right[2] = C
    OBVIOUS
  <2>. HIDE DEF left, right
  <2>4. left = right
    BY <2>1, <2>2, <2>3, SeqEqual
  <2>. QED BY <2>4 DEF left, right
<1>. USE DEF A
<1>. QED BY <1>1, <1>2 DEF Rest

-----------------------------------------------------------------------------
(* The main thread                                                         *)

\* What a command is while a period is controlled: automatic control
Controlled(t) ==
  /\ Through(t) /\ Automatic
  /\ \/ last.what = "auto" /\ mem.setPoint = last.value
     \/ last.what = "lid"

LEMMA InControlIsControlled ==
  ASSUME NEW t \in Threads, CommandInv(t), InControl
  PROVE  Controlled(t)
BY DEF CommandInv, OffInv, ManualCommandInv, AutoAt, LidAt, Controlled

LEMMA ControlledNext ==
  ASSUME NEW t \in Threads, Controlled(t)'
  PROVE  CommandInv(t)'
BY DEF CommandInv, AutoAt, LidAt, Controlled

\* A step that touches neither the shared fields nor the command
LEMMA CommandUntouched ==
  ASSUME NEW t \in Threads, CommandInv(t), UNCHANGED <<mem, todo, saving, last>>, InControl' = InControl
  PROVE  CommandInv(t)'
BY DEF CommandInv, OffInv, ManualCommandInv, ManualAt, AutoAt, LidAt, AtMode,
       ModeMade, LidIdle, Through, Automatic

LEMMA ControlledUntouched ==
  ASSUME NEW t \in Threads, Controlled(t), UNCHANGED <<mem, todo, saving, last>>
  PROVE  Controlled(t)'
BY DEF Controlled, Through, Automatic

LEMMA ManualUntouched ==
  ASSUME NEW t \in Threads, ManualInv(t), UNCHANGED <<mem, todo, saving>>
  PROVE  ManualInv(t)'
BY DEF ManualInv, Leaves

\* No step of a period begins or ends a command, or makes two overlap.
LEMMA PeriodKeeps ==
  ASSUME NEW t \in Threads, Here(t), UNCHANGED <<todo, saving>>,
         raced' \in {raced, MetPeriod},
         raced # "command" => ManualInv(t)',
         raced' = "no" /\ TickInv /\ CommandInv(t) => TickInv' /\ CommandInv(t)'
  PROVE  Here(t)'
<1>1. raced' # "command" => raced # "command"
  BY DEF MetPeriod
<1>2. raced' = "no" => raced = "no"
  BY DEF MetPeriod
<1>3. Alone(t) => Alone(t)'
  BY DEF Alone, Busy
<1>. QED BY <1>1, <1>2, <1>3 DEF Here

LEMMA StepMeasure ==
  ASSUME TypeInv, NEW t \in Threads, Here(t), Measure
  PROVE  TypeInv' /\ Here(t)'
<1>. USE DEF Measure, Goto, commandVars, InControl
<1>1. TypeInv'
  BY DEF TypeInv, CommandType
<1>2. raced # "command" => ManualInv(t)'
  BY ManualUntouched DEF Here
<1>3. CommandInv(t) => CommandInv(t)'
  BY CommandUntouched
<1>4. TickInv'
  BY DEF TickInv
<1>. QED BY <1>1, <1>2, <1>3, <1>4, PeriodKeeps

\* A command that is through and did not leave an automatic mode keeps the
\* period from being controlled.
LEMMA StepTestMode ==
  ASSUME TypeInv, NEW t \in Threads, Here(t), TestMode
  PROVE  TypeInv' /\ Here(t)'
<1>. USE DEF TestMode, Return, Goto
<1>1. TypeInv'
  BY ThreadsAssumption DEF TypeInv, CommandType
<1>2. raced # "command" => ManualInv(t)'
  BY ManualUntouched DEF Here
<1>3. ASSUME raced' = "no", CommandInv(t) PROVE CommandInv(t)'
  <2>1. CASE mem.pidMode \in AutoModes
    <3>1. todo[t] = <<>> /\ saving[t] = "no"
      BY <1>3, <2>1 DEF AnyBusy, Busy, MetPeriod
    <3>2. Controlled(t)
      BY <1>3, <2>1, <3>1
      DEF CommandInv, OffInv, ModeMade, ManualCommandInv, ManualAt, LidIdle, AutoAt,
          LidAt, AtMode, Controlled, AutoModes, Put
    <3>. QED BY <3>2, ControlledUntouched, ControlledNext
  <2>2. CASE mem.pidMode \notin AutoModes
    BY <1>3, <2>2, CommandUntouched DEF InControl
  <2>. QED BY <2>1, <2>2
<1>4. TickInv'
  BY DEF TickInv
<1>5. raced' \in {raced, MetPeriod}
  OBVIOUS
<1>. QED BY <1>1, <1>2, <1>3, <1>4, <1>5, PeriodKeeps

\* The steps that only read
LEMMA StepReads ==
  ASSUME TypeInv, NEW t \in Threads, Here(t),
         TestLid \/ ReadSetPoint \/ TestResume \/ TestCountdown \/ TestDrop
  PROVE  TypeInv' /\ Here(t)'
<1>. USE DEF TestLid, ReadSetPoint, TestResume, TestCountdown, TestDrop,
             Keep, Goto, Return, commandVars
<1>1. UNCHANGED <<mem, todo, saving, last, raced>>
  OBVIOUS
<1>2. InControl
  BY DEF InControl
<1>3. stores' \in {stores, <<{Put("pidMode", "NORMAL"), Put("lidCountdown", 0)}>>, ResetLid}
  OBVIOUS
<1>4. countdown' \in {countdown, 0, mem.lidCountdown}
  OBVIOUS
<1>5. pc' = "stores" =>
        stores' \in {<<{Put("pidMode", "NORMAL"), Put("lidCountdown", 0)}>>, ResetLid}
  OBVIOUS
<1>6. pc' = "tick" => countdown' = mem.lidCountdown /\ countdown' # 0
  OBVIOUS
<1>7. TypeInv'
  <2>. DEFINE N == {Put("pidMode", "NORMAL"), Put("lidCountdown", 0)}
              R == SetPidMode("RECOVERY")
              D == {Put("lidCountdown", Duration)}
  <2>1. N \in SUBSET MainPuts
    BY DEF MainPuts, SetPidMode
  <2>2. R \in SUBSET MainPuts /\ D \in SUBSET MainPuts
    BY DEF MainPuts
  <2>3. /\ stores' \in {stores, <<N>>, <<R, D>>}
        /\ pc' = "stores" => stores' \in {<<N>>, <<R, D>>}
    BY <1>3, <1>5 DEF ResetLid
  <2>. HIDE DEF N, R, D
  <2>4. <<N>> \in Seq(SUBSET MainPuts) /\ <<R, D>> \in Seq(SUBSET MainPuts)
    BY <2>1, <2>2
  <2>5. <<N>> # <<>> /\ <<R, D>> # <<>>
    OBVIOUS
  <2>6. countdown' \in 0..(Word - 1)
    BY <1>4, ThreadsAssumption DEF TypeInv, Memory
  <2>7. stores' \in Seq(SUBSET MainPuts) /\ (pc' = "stores" => stores' # <<>>)
    BY <2>3, <2>4, <2>5 DEF TypeInv
  <2>. QED BY <1>1, <2>6, <2>7 DEF TypeInv, CommandType
<1>8. raced # "command" => ManualInv(t)'
  BY <1>1, ManualUntouched DEF Here
<1>9. CommandInv(t) => CommandInv(t)'
  BY <1>1, <1>2, InControlIsControlled, ControlledUntouched, ControlledNext
<1>10. TickInv'
  BY <1>1, <1>6 DEF TickInv
<1>. QED BY <1>1, <1>7, <1>8, <1>9, <1>10, PeriodKeeps

\* What a step of the main thread that makes the store w must do to the period
\* it belongs to
LEMMA StepMainStores ==
  ASSUME TypeInv, NEW t \in Threads, Here(t), InControl, NEW w, Make(w),
         UNCHANGED <<todo, saving, last, raced>>,
         w.field \in {"pidMode", "lidCountdown", "pidOutput"},
         w.field = "pidMode" => w.value \in AutoModes,
         w.field = "lidCountdown" => w.value \in 0..(Word - 1),
         w.field = "pidOutput" => w.value \in 0..100,
         w.field = "lidCountdown" /\ raced = "no" => w.value \in 0..Duration,
         pc' # "tick"
  PROVE  mem' \in Memory /\ Here(t)'
<1>1. mem \in Memory
  BY DEF TypeInv
<1>2. mem' \in Memory
  BY <1>1, StoreType DEF Fields, Modes
<1>3. /\ mem'.pidMode \in AutoModes \cup {mem.pidMode}
      /\ mem'.setPoint = mem.setPoint /\ mem'.fileMode = mem.fileMode
      /\ raced = "no" => mem'.lidCountdown \in (0..Duration) \cup {mem.lidCountdown}
  BY <1>1, StoreEffect DEF Fields
<1>4. ManualInv(t) => ManualInv(t)'
  BY <1>3 DEF ManualInv, Leaves, AutoModes
<1>5. ASSUME raced = "no", CommandInv(t) PROVE CommandInv(t)'
  <2>1. Controlled(t)
    BY <1>5, InControlIsControlled
  <2>2. Controlled(t)'
    BY <1>3, <1>5, <2>1 DEF Controlled, Through, Automatic
  <2>. QED BY <2>2, ControlledNext
<1>6. TickInv'
  BY DEF TickInv
<1>7. Here(t)'
  BY <1>4, <1>5, <1>6, PeriodKeeps DEF Here
<1>. QED BY <1>2, <1>7

LEMMA StepOutput ==
  ASSUME TypeInv, NEW t \in Threads, Here(t), ClearOutput \/ StoreOutput
  PROVE  TypeInv' /\ Here(t)'
<1>. USE DEF ClearOutput, StoreOutput, Goto, commandVars
<1>1. PICK level \in Levels \cup {0} : Make(Put("pidOutput", level))
  OBVIOUS
<1>2. InControl /\ pc' \notin {"tick", "stores"}
      /\ UNCHANGED <<todo, saving, last, raced, stores, countdown>>
  BY DEF InControl
<1>3. mem' \in Memory /\ Here(t)'
  <2>1. /\ Put("pidOutput", level).field = "pidOutput"
        /\ Put("pidOutput", level).value \in 0..100
    BY ThreadsAssumption DEF Put
  <2>. QED BY <1>1, <1>2, <2>1, StepMainStores
<1>4. TypeInv'
  BY <1>2, <1>3 DEF TypeInv, CommandType
<1>. QED BY <1>3, <1>4

\* Without a race the count that is decremented is the one that was tested, so
\* it is positive and at most a lid duration.
LEMMA StepTick ==
  ASSUME TypeInv, NEW t \in Threads, Here(t), Tick
  PROVE  TypeInv' /\ Here(t)'
<1>. USE DEF Tick, Return, Goto, commandVars
<1>1. PICK c \in {countdown, mem.lidCountdown} : Make(Put("lidCountdown", USub(c, 1)))
  OBVIOUS
<1>2. InControl /\ pc' \notin {"tick", "stores"} /\ countdown' = 0
      /\ UNCHANGED <<todo, saving, last, raced, stores>>
  BY DEF InControl
<1>3. c \in 0..(Word - 1)
  BY DEF TypeInv, Memory
<1>4. USub(c, 1) \in 0..(Word - 1)
  BY <1>3, ThreadsAssumption DEF USub
<1>5. ASSUME raced = "no" PROVE USub(c, 1) \in 0..Duration
  <2>1. c # 0 /\ c = mem.lidCountdown
    BY <1>5 DEF Here, TickInv
  <2>2. mem.lidCountdown \in 0..Duration
    BY <1>2, <1>5, InControlIsControlled DEF Here, Controlled, Automatic
  <2>. QED BY <2>1, <2>2, ThreadsAssumption DEF USub
<1>6. mem' \in Memory /\ Here(t)'
  <2>. DEFINE w == Put("lidCountdown", USub(c, 1))
  <2>1. w.field = "lidCountdown" /\ w.value = USub(c, 1)
    BY DEF Put
  <2>2. Make(w)
    BY <1>1
  <2>. HIDE DEF w
  <2>. QED BY <1>2, <1>4, <1>5, <2>1, <2>2, StepMainStores
<1>7. TypeInv'
  BY <1>2, <1>6, ThreadsAssumption DEF TypeInv, CommandType
<1>. QED BY <1>6, <1>7

LEMMA StepMainStore ==
  ASSUME TypeInv, NEW t \in Threads, Here(t), MainStore
  PROVE  TypeInv' /\ Here(t)'
<1>. USE DEF MainStore, Return, Goto, commandVars
<1>1. PICK w \in Head(stores) : Make(w) /\ stores' = Rest(stores, w)
  OBVIOUS
<1>2. InControl /\ pc' \in {"stores", "idle"} /\ countdown' \in {0, countdown}
      /\ UNCHANGED <<todo, saving, last, raced>> /\ (pc' = "stores" => stores' # <<>>)
  BY DEF InControl
<1>3. stores \in Seq(SUBSET MainPuts) /\ stores # <<>>
  BY DEF TypeInv
<1>4. w \in MainPuts
  BY <1>3, HeadTailProperties
<1>5. /\ w.field \in {"pidMode", "lidCountdown", "pidOutput"}
      /\ w.field = "pidMode" => w.value \in AutoModes
      /\ w.field = "lidCountdown" => w.value \in 0..Duration
      /\ w.field = "pidOutput" => w.value = 0
  BY <1>4, ThreadsAssumption DEF MainPuts, SetPidMode, Put, AutoModes
<1>6. mem' \in Memory /\ Here(t)'
  BY <1>1, <1>2, <1>5, ThreadsAssumption, StepMainStores
<1>7. stores' \in Seq(SUBSET MainPuts)
  BY <1>1, <1>3, RestType
<1>8. TypeInv'
  BY <1>2, <1>6, <1>7, ThreadsAssumption DEF TypeInv, CommandType
<1>. QED BY <1>6, <1>8

-----------------------------------------------------------------------------
(* Commands                                                                *)

\* A new command: two sets of stores or one
LEMMA StepBegin ==
  ASSUME TypeInv, NEW t \in Threads, NEW sets \in Seq(SUBSET CommandPuts),
         NEW save \in {"no", "read"}, NEW command,
         Begin(t, sets, save, command),
         save = "no" => sets \in Seq(SUBSET QuietPuts) /\ Leaves(t)',
         ~InControl => CommandInv(t)'
  PROVE  TypeInv' /\ Here(t)'
<1>1. /\ todo' = [todo EXCEPT ![t] = sets] /\ saving' = [saving EXCEPT ![t] = save]
      /\ UNCHANGED <<mem, periodVars>>
      /\ raced' = IF AnyBusy THEN "command" ELSE IF InControl THEN "period" ELSE "no"
  BY DEF Begin, Start
<1>2. /\ todo'[t] = sets /\ saving'[t] = save
      /\ \A u \in Threads \ {t} : todo'[u] = todo[u] /\ saving'[u] = saving[u]
  BY <1>1 DEF TypeInv
<1>3. TypeInv'
  <2>1. /\ todo' \in [Threads -> Seq(SUBSET CommandPuts)]
        /\ saving' \in [Threads -> {"no", "read", "STARTUP", "MANUAL", "OFF"}]
    BY <1>1 DEF TypeInv
  <2>2. \A u \in Threads : CommandType(u)'
    BY <1>2 DEF TypeInv, CommandType
  <2>. QED BY <1>1, <2>1, <2>2 DEF TypeInv, periodVars
<1>4. ASSUME raced' # "command" PROVE Alone(t)' /\ ManualInv(t)'
  <2>1. ~AnyBusy
    BY <1>1, <1>4
  <2>2. Alone(t)'
    BY <1>2, <2>1 DEF Alone, AnyBusy, Busy
  <2>. QED BY <1>2, <2>2 DEF ManualInv
<1>5. raced' = "no" => TickInv' /\ CommandInv(t)'
  BY <1>1 DEF TickInv, InControl, periodVars
<1>. QED BY <1>3, <1>4, <1>5 DEF Here

LEMMA BeginEffect ==
  ASSUME TypeInv, NEW t \in Threads, NEW sets, NEW save, NEW command,
         Begin(t, sets, save, command)
  PROVE  todo'[t] = sets /\ saving'[t] = save /\ pc' = pc /\ mem' = mem /\ last' = command
BY DEF Begin, Start, TypeInv, periodVars

LEMMA StepOff ==
  ASSUME TypeInv, NEW t \in Threads, CommandOff(t)
  PROVE  TypeInv' /\ Here(t)'
<1>. DEFINE A == SetPidMode("OFF")
<1>1. Begin(t, <<A>>, "no", Cmd("off", 0))
  BY DEF CommandOff
<1>2. A \in SUBSET QuietPuts /\ Put("pidMode", "OFF") \in A
  BY DEF SetPidMode, QuietPuts, ModePuts
<1>3. ~InControl => CommandInv(t)'
  <2>1. ModeMade("OFF", A)'
    BY DEF ModeMade, SetPidMode
  <2>2. todo'[t] = <<A>> /\ saving'[t] = "no" /\ pc' = pc /\ last'.what = "off"
    BY <1>1, BeginEffect DEF Cmd
  <2>. QED BY <2>1, <2>2 DEF CommandInv, OffInv, InControl
<1>. HIDE DEF A
<1>4. <<A>> \in Seq(SUBSET QuietPuts) /\ <<A>> \in Seq(SUBSET CommandPuts)
  BY <1>2 DEF CommandPuts
<1>5. Leaves(t)'
  <2>1. todo'[t] = <<A>>
    BY <1>1, BeginEffect
  <2>. QED BY <1>2, <2>1 DEF Leaves, Modes
<1>. QED BY <1>1, <1>3, <1>4, <1>5, StepBegin

LEMMA StepManual ==
  ASSUME TypeInv, NEW t \in Threads, CommandManual(t)
  PROVE  TypeInv' /\ Here(t)'
<1>. DEFINE A == SetPidMode("MANUAL")
<1>1. PICK v \in Levels : Begin(t, <<A, {Put("pidOutput", v)}>>, "read", Cmd("manual", v))
  BY DEF CommandManual
<1>. DEFINE B == {Put("pidOutput", v)}
<1>2. A \in SUBSET CommandPuts /\ B \in SUBSET CommandPuts
  BY DEF SetPidMode, CommandPuts, QuietPuts
<1>3. ~InControl => CommandInv(t)'
  <2>1. ModeMade("MANUAL", A)'
    BY DEF ModeMade, SetPidMode
  <2>2. todo'[t] = <<A, B>> /\ saving'[t] = "read" /\ pc' = pc
        /\ last'.what = "manual" /\ last'.value = v
    BY <1>1, BeginEffect DEF Cmd
  <2>. QED BY <2>1, <2>2 DEF CommandInv, ManualCommandInv, ManualAt, AtMode, InControl
<1>. HIDE DEF A, B
<1>4. <<A, B>> \in Seq(SUBSET CommandPuts)
  BY <1>2
<1>. QED BY <1>1, <1>3, <1>4, StepBegin DEF B

LEMMA StepSetPoint ==
  ASSUME TypeInv, NEW t \in Threads, CommandSetPoint(t)
  PROVE  TypeInv' /\ Here(t)'
<1>. DEFINE A == SetPidMode("STARTUP")
<1>1. PICK sp \in SetPoints :
        Begin(t, <<A, {Put("setPoint", sp)}>>, "read", Cmd("auto", sp))
  BY DEF CommandSetPoint
<1>. DEFINE B == {Put("setPoint", sp)}
<1>2. A \in SUBSET CommandPuts /\ B \in SUBSET CommandPuts
  BY DEF SetPidMode, CommandPuts, QuietPuts, ModePuts
<1>3. ~InControl => CommandInv(t)'
  <2>1. ModeMade("STARTUP", A)'
    BY DEF ModeMade, SetPidMode
  <2>2. todo'[t] = <<A, B>> /\ saving'[t] = "read" /\ pc' = pc
        /\ last'.what = "auto" /\ last'.value = sp
    BY <1>1, BeginEffect DEF Cmd
  <2>. QED BY <2>1, <2>2 DEF CommandInv, AutoAt, AtMode, InControl
<1>. HIDE DEF A, B
<1>4. <<A, B>> \in Seq(SUBSET CommandPuts)
  BY <1>2
<1>. QED BY <1>1, <1>3, <1>4, StepBegin DEF B

LEMMA StepLidOn ==
  ASSUME TypeInv, NEW t \in Threads, CommandLidOn(t)
  PROVE  TypeInv' /\ Here(t)'
<1>. DEFINE A == SetPidMode("RECOVERY")
            B == {Put("lidCountdown", Duration)}
<1>1. Begin(t, <<A, B>>, "no", Cmd("lid", 0))
  BY DEF CommandLidOn, ResetLid
<1>2. /\ A \in SUBSET QuietPuts /\ B \in SUBSET QuietPuts
      /\ Put("pidMode", "RECOVERY") \in A
  BY DEF SetPidMode, QuietPuts, ModePuts
<1>3. ~InControl => CommandInv(t)'
  <2>1. ModeMade("RECOVERY", A)'
    BY DEF ModeMade, SetPidMode
  <2>2. todo'[t] = <<A, B>> /\ saving'[t] = "no" /\ pc' = pc /\ last'.what = "lid"
    BY <1>1, BeginEffect DEF Cmd
  <2>. QED BY <2>1, <2>2 DEF CommandInv, LidAt, AtMode, InControl
<1>. HIDE DEF A, B
<1>4. <<A, B>> \in Seq(SUBSET QuietPuts) /\ <<A, B>> \in Seq(SUBSET CommandPuts)
  BY <1>2 DEF CommandPuts
<1>5. Leaves(t)'
  <2>1. todo'[t] = <<A, B>>
    BY <1>1, BeginEffect
  <2>. QED BY <1>2, <2>1 DEF Leaves, Modes, AutoModes
<1>. QED BY <1>1, <1>3, <1>4, <1>5, StepBegin

\* With neither thread in a command, the one may stand for the other.
LEMMA CommandMoves ==
  ASSUME NEW t \in Threads, NEW u \in Threads, CommandInv(u),
         todo[t] = todo[u], saving[t] = saving[u]
  PROVE  CommandInv(t)
BY DEF CommandInv, OffInv, ManualCommandInv, ManualAt, AutoAt, LidAt, AtMode, Through

\* Clearing the countdown takes nothing back of a command that is through.
LEMMA StepLidOff ==
  ASSUME TypeInv, NEW t \in Threads, NEW u \in Threads, Here(u), CommandLidOff(t)
  PROVE  TypeInv' /\ Here(t)'
<1>. DEFINE w == Put("lidCountdown", 0)
<1>1. /\ todo[t] = <<>> /\ saving[t] = "no" /\ todo'[t] = <<{w}>> /\ saving'[t] = "no"
      /\ todo' = [todo EXCEPT ![t] = <<{w}>>] /\ saving' = [saving EXCEPT ![t] = "no"]
      /\ UNCHANGED <<mem, pc, countdown, stores, last>>
      /\ raced' = IF AnyBusy THEN "command" ELSE raced
  BY DEF CommandLidOff, Start, Free, Busy, periodVars, TypeInv
<1>2. TypeInv'
  <2>1. {w} \in SUBSET QuietPuts /\ {w} \in SUBSET CommandPuts
    BY DEF QuietPuts, CommandPuts
  <2>2. <<{w}>> \in Seq(SUBSET QuietPuts) /\ <<{w}>> \in Seq(SUBSET CommandPuts)
    BY <2>1
  <2>. HIDE DEF w
  <2>3. /\ todo' \in [Threads -> Seq(SUBSET CommandPuts)]
        /\ saving' \in [Threads -> {"no", "read", "STARTUP", "MANUAL", "OFF"}]
    BY <1>1, <2>2 DEF TypeInv
  <2>4. \A v \in Threads : CommandType(v)'
    BY <1>1, <2>2 DEF TypeInv, CommandType
  <2>. QED BY <1>1, <2>3, <2>4 DEF TypeInv
<1>3. ASSUME raced' # "command" PROVE Alone(t)' /\ ManualInv(t)'
  <2>1. ~AnyBusy /\ ManualInv(u)
    BY <1>1, <1>3 DEF Here
  <2>2. saving[u] = "no" /\ todo[u] = <<>>
    BY <2>1 DEF AnyBusy, Busy
  <2>3. mem.pidMode = "MANUAL" => mem.fileMode = "MANUAL"
    BY <2>1, <2>2 DEF ManualInv, Leaves
  <2>4. ManualInv(t)'
    BY <1>1, <2>3 DEF ManualInv
  <2>5. \A v \in Threads \ {t} : todo'[v] = todo[v] /\ saving'[v] = saving[v]
    BY <1>1 DEF TypeInv
  <2>. QED BY <2>1, <2>4, <2>5 DEF Alone, AnyBusy, Busy
<1>4. ASSUME raced' = "no" PROVE TickInv' /\ CommandInv(t)'
  <2>0. ~AnyBusy /\ raced = "no" /\ CommandInv(u) /\ TickInv
    BY <1>1, <1>4 DEF Here
  <2>1. CommandInv(t) /\ TickInv
    BY <2>0, CommandMoves DEF AnyBusy, Busy
  <2>2. CASE last.what = "off" /\ OffInv(t)
    <3>1. ModeMade("OFF", {})
      BY <1>1, <2>2 DEF OffInv
    <3>2. ModeMade("OFF", {w})' /\ {w} \in SUBSET SetPidMode("OFF")
      BY <1>1, <3>1 DEF ModeMade, SetPidMode
    <3>. QED BY <1>1, <2>1, <2>2, <3>2 DEF OffInv, CommandInv, InControl, TickInv
  <2>3. CASE last.what = "manual" /\ ManualCommandInv(t)
    BY <1>1, <2>1, <2>3
    DEF ManualCommandInv, ManualAt, AtMode, LidIdle, Through, CommandInv, InControl, TickInv
  <2>4. CASE last.what \in {"auto", "lid"} /\ Controlled(t)
    <3>1. Controlled(t)'
      BY <1>1, <2>4 DEF Controlled, Through, Automatic
    <3>. QED BY <1>1, <2>1, <3>1, ControlledNext DEF TickInv
  <2>5. CASE last.what = "auto" /\ AutoAt(t, last.value)
    <3>1. Controlled(t)
      BY <1>1, <2>5 DEF AutoAt, AtMode, Controlled
    <3>. QED BY <2>4, <2>5, <3>1
  <2>6. CASE last.what = "lid" /\ LidAt(t)
    <3>1. Controlled(t)
      BY <1>1, <2>6 DEF LidAt, AtMode, Controlled
    <3>. QED BY <2>4, <2>6, <3>1
  <2>. QED BY <2>1, <2>2, <2>3, <2>5, <2>6 DEF CommandInv
<1>. QED BY <1>2, <1>3, <1>4 DEF Here

\* A store of the first set of a command is one store less to make.
LEMMA ModeMadeStep ==
  ASSUME mem \in Memory, NEW mode, NEW B \in SUBSET SetPidMode(mode),
         ModeMade(mode, B), NEW w \in B, Make(w)
  PROVE  ModeMade(mode, B \ {w})' /\ B \ {w} \in SUBSET SetPidMode(mode)
<1>1. w \in SetPidMode(mode)
  OBVIOUS
<1>2. CASE w = Put("pidMode", mode)
  <2>1. /\ mem'.pidMode = mode
        /\ mem'.lidCountdown = mem.lidCountdown /\ mem'.pidOutput = mem.pidOutput
    BY <1>2, StoreEffect DEF Put, Fields
  <2>2. Put("lidCountdown", 0) # w /\ Put("pidOutput", 0) # w
    BY <1>2 DEF Put
  <2>. QED BY <2>1, <2>2 DEF ModeMade
<1>3. CASE w = Put("lidCountdown", 0)
  <2>1. /\ mem'.lidCountdown = 0
        /\ mem'.pidMode = mem.pidMode /\ mem'.pidOutput = mem.pidOutput
    BY <1>3, StoreEffect DEF Put, Fields
  <2>2. Put("pidMode", mode) # w /\ Put("pidOutput", 0) # w
    BY <1>3 DEF Put
  <2>. QED BY <2>1, <2>2 DEF ModeMade
<1>4. CASE w = Put("pidOutput", 0)
  <2>1. /\ mem'.pidOutput = 0
        /\ mem'.pidMode = mem.pidMode /\ mem'.lidCountdown = mem.lidCountdown
    BY <1>4, StoreEffect DEF Put, Fields
  <2>2. Put("pidMode", mode) # w /\ Put("lidCountdown", 0) # w
    BY <1>4 DEF Put
  <2>. QED BY <2>1, <2>2 DEF ModeMade
<1>. QED BY <1>1, <1>2, <1>3, <1>4 DEF SetPidMode

\* ... until the mode and both zeros are there and the second set comes up.
LEMMA AtModeStep ==
  ASSUME TypeInv, NEW t \in Threads, NEW mode, NEW x, AtMode(t, mode, x), Store(t)
  PROVE  \/ AtMode(t, mode, x)'
         \/ todo'[t] = <<{x}>> /\ LidIdle(mode)'
<1>1. PICK B \in SUBSET SetPidMode(mode) : todo[t] = <<B, {x}>> /\ ModeMade(mode, B)
  BY DEF AtMode
<1>2. PICK w \in Head(todo[t]) : Make(w) /\ todo'[t] = Rest(todo[t], w)
  BY DEF Store, TypeInv
<1>3. Head(todo[t]) = B
  BY <1>1
<1>4. w \in B
  BY <1>2, <1>3
<1>5. todo'[t] = IF B = {w} THEN <<{x}>> ELSE <<B \ {w}, {x}>>
  BY <1>1, <1>2, <1>4, RestTwo
<1>6. ModeMade(mode, B \ {w})' /\ B \ {w} \in SUBSET SetPidMode(mode)
  BY <1>1, <1>2, <1>4, ModeMadeStep DEF TypeInv
<1>7. CASE B = {w}
  <2>1. B \ {w} = {}
    BY <1>7
  <2>. QED BY <1>5, <1>6, <1>7, <2>1 DEF ModeMade, LidIdle
<1>8. CASE B # {w}
  BY <1>5, <1>6, <1>8 DEF AtMode
<1>. QED BY <1>7, <1>8

\* The last store of a command
LEMMA LastStore ==
  ASSUME TypeInv, NEW t \in Threads, NEW x, todo[t] = <<{x}>>, Store(t)
  PROVE  Make(x) /\ todo'[t] = <<>>
<1>1. Head(todo[t]) = {x}
  OBVIOUS
<1>2. Make(x) /\ todo'[t] = Rest(todo[t], x)
  BY <1>1 DEF Store, TypeInv
<1>. QED BY <1>2, RestOne

LEMMA StepStore ==
  ASSUME TypeInv, NEW t \in Threads, Here(t), Store(t)
  PROVE  TypeInv' /\ Here(t)'
<1>1. /\ todo[t] # <<>> /\ raced' = IF InControl THEN MetPeriod ELSE raced
      /\ UNCHANGED <<pc, countdown, stores, saving, last>>
  BY DEF Store, periodVars
<1>2. PICK w \in Head(todo[t]) :
        Make(w) /\ todo' = [todo EXCEPT ![t] = Rest(todo[t], w)]
  BY DEF Store
<1>3. mem \in Memory /\ todo'[t] = Rest(todo[t], w) /\ todo[t] \in Seq(SUBSET CommandPuts)
  BY <1>2 DEF TypeInv
<1>4. \A u \in Threads \ {t} : todo'[u] = todo[u]
  BY <1>2 DEF TypeInv
<1>5. w \in CommandPuts /\ todo'[t] \in Seq(SUBSET CommandPuts)
  <2>1. Head(todo[t]) \in SUBSET CommandPuts
    BY <1>1, <1>3, HeadTailProperties
  <2>. QED BY <1>1, <1>3, <2>1, RestType
<1>6. saving[t] = "no" => w \in QuietPuts /\ todo'[t] \in Seq(SUBSET QuietPuts)
  <2>. SUFFICES ASSUME saving[t] = "no"
                PROVE  w \in QuietPuts /\ todo'[t] \in Seq(SUBSET QuietPuts)
    OBVIOUS
  <2>1. todo[t] \in Seq(SUBSET QuietPuts)
    BY DEF TypeInv, CommandType
  <2>2. Head(todo[t]) \in SUBSET QuietPuts
    BY <1>1, <2>1, HeadTailProperties
  <2>. QED BY <1>1, <1>3, <2>1, <2>2, RestType
<1>7. mem' \in Memory
  BY <1>2, <1>3, <1>5, PutTypes, StoreType
<1>8. TypeInv'
  <2>1. todo' \in [Threads -> Seq(SUBSET CommandPuts)]
    BY <1>2, <1>3, <1>5 DEF TypeInv
  <2>2. CommandType(t)'
    BY <1>1, <1>6 DEF TypeInv, CommandType
  <2>3. \A u \in Threads \ {t} : CommandType(u)'
    BY <1>1, <1>4 DEF TypeInv, CommandType
  <2>. QED BY <1>1, <1>7, <2>1, <2>2, <2>3 DEF TypeInv
<1>9. Alone(t) => Alone(t)'
  BY <1>1, <1>4 DEF Alone, Busy
<1>10. ManualInv(t) => ManualInv(t)'
  <2>1. CASE saving[t] = "no"
    <3>1. w.field = "pidMode" => w.value # "MANUAL"
      BY <1>6, <2>1 DEF QuietPuts, ModePuts, Put
    <3>2. w.field \in Fields \ {"fileMode"}
      BY <1>5, PutTypes
    <3>3. /\ mem'.pidMode = IF w.field = "pidMode" THEN w.value ELSE mem.pidMode
          /\ mem'.fileMode = mem.fileMode
      BY <1>2, <1>3, <3>2, StoreEffect
    <3>4. ASSUME mem'.pidMode = "MANUAL", Leaves(t) PROVE Leaves(t)'
      <4>1. PICK mode \in Modes \ {"MANUAL"} : Put("pidMode", mode) \in Head(todo[t])
        BY <3>4 DEF Leaves
      <4>2. w.field # "pidMode"
        BY <3>1, <3>3, <3>4
      <4>3. Put("pidMode", mode) # w
        BY <4>2 DEF Put
      <4>4. todo'[t] # <<>> /\ Put("pidMode", mode) \in Head(todo'[t])
        <5>. DEFINE x == Put("pidMode", mode)
        <5>1. x \in Head(todo[t]) /\ x # w
          BY <4>1, <4>3
        <5>. HIDE DEF x
        <5>2. todo'[t] # <<>> /\ x \in Head(todo'[t])
          BY <1>1, <1>3, <5>1, RestKeeps
        <5>. QED BY <5>2 DEF x
      <4>. QED BY <4>4 DEF Leaves
    <3>. QED BY <1>1, <2>1, <3>1, <3>3, <3>4 DEF ManualInv
  <2>2. CASE saving[t] = "read"
    BY <1>1, <2>2 DEF ManualInv
  <2>. QED BY <1>1, <2>1, <2>2 DEF TypeInv, CommandType
<1>11. ASSUME raced' = "no", CommandInv(t) PROVE CommandInv(t)' /\ TickInv'
  <2>1. raced = "no" /\ ~InControl /\ ~InControl' /\ CommandInv(t) /\ TickInv'
    BY <1>1, <1>11 DEF MetPeriod, InControl, TickInv
  <2>2. CASE last.what = "off" /\ OffInv(t)
    <3>1. PICK B \in SUBSET SetPidMode("OFF") : todo[t] = <<B>> /\ ModeMade("OFF", B)
      BY <1>1, <2>2 DEF OffInv
    <3>2. Head(todo[t]) = B
      BY <3>1
    <3>3. ModeMade("OFF", B \ {w})' /\ B \ {w} \in SUBSET SetPidMode("OFF")
      BY <1>2, <1>3, <3>1, <3>2, ModeMadeStep
    <3>4. todo'[t] = IF B = {w} THEN <<>> ELSE <<B \ {w}>>
      BY <1>2, <1>3, <3>1, <3>2, RestOne
    <3>5. CASE B = {w}
      <4>1. B \ {w} = {}
        BY <3>5
      <4>2. ModeMade("OFF", {})'
        BY <3>3, <4>1 DEF ModeMade
      <4>. QED BY <1>1, <2>1, <2>2, <3>4, <3>5, <4>2 DEF OffInv, CommandInv
    <3>6. CASE B # {w}
      BY <1>1, <2>1, <2>2, <3>3, <3>4, <3>6 DEF OffInv, CommandInv
    <3>. QED BY <3>5, <3>6
  <2>3. ASSUME Through(t) PROVE Make(Put("lidCountdown", 0)) /\ todo'[t] = <<>>
    BY <1>1, <1>3, <2>3, LastStore DEF Through
  <2>4. ASSUME Through(t)
        PROVE  Through(t)' /\ mem'.lidCountdown = 0 /\ mem'.pidMode = mem.pidMode
               /\ mem'.setPoint = mem.setPoint /\ mem'.pidOutput = mem.pidOutput
    <3>1. Put("lidCountdown", 0).field = "lidCountdown" /\ Put("lidCountdown", 0).value = 0
      BY DEF Put
    <3>2. Through(t)'
      BY <1>1, <2>3, <2>4 DEF Through
    <3>. QED BY <1>3, <2>3, <2>4, <3>1, <3>2, StoreEffect DEF Fields
  <2>5. CASE last.what = "manual" /\ ManualCommandInv(t)
    <3>0. PICK v : v = last.value
      OBVIOUS
    <3>1. CASE saving[t] = "read" /\ AtMode(t, "MANUAL", Put("pidOutput", v))
      <4>1. \/ AtMode(t, "MANUAL", Put("pidOutput", v))'
            \/ todo'[t] = <<{Put("pidOutput", v)}>> /\ LidIdle("MANUAL")'
        BY <1>3, <3>1, AtModeStep
      <4>. QED BY <1>1, <2>1, <2>5, <3>0, <3>1, <4>1
           DEF CommandInv, ManualCommandInv, ManualAt, AtMode, ModeMade, LidIdle
    <3>2. CASE saving[t] = "read" /\ todo[t] = <<{Put("pidOutput", v)}>> /\ LidIdle("MANUAL")
      <4>1. Make(Put("pidOutput", v)) /\ todo'[t] = <<>>
        BY <1>3, <3>2, LastStore
      <4>2. Put("pidOutput", v).field = "pidOutput" /\ Put("pidOutput", v).value = v
        BY DEF Put
      <4>3. LidIdle("MANUAL")' /\ mem'.pidOutput = v
        BY <1>3, <3>2, <4>1, <4>2, StoreEffect DEF LidIdle, Fields
      <4>. QED BY <1>1, <2>1, <2>5, <3>0, <3>2, <4>1, <4>3
           DEF CommandInv, ManualCommandInv, ManualAt, LidIdle
    <3>3. CASE Through(t) /\ LidIdle("MANUAL") /\ mem.pidOutput = v
      BY <1>1, <2>1, <2>4, <2>5, <3>0, <3>3
      DEF LidIdle, CommandInv, ManualCommandInv, ManualAt
    <3>. QED BY <1>1, <2>5, <3>0, <3>1, <3>2, <3>3 DEF ManualCommandInv, ManualAt
  <2>6. CASE last.what \in {"auto", "lid"} /\ Controlled(t)
    <3>1. Through(t) /\ Automatic
      BY <2>6 DEF Controlled
    <3>2. Through(t)' /\ mem'.lidCountdown = 0 /\ mem'.pidMode = mem.pidMode
          /\ mem'.setPoint = mem.setPoint
      BY <2>4, <3>1
    <3>3. Automatic'
      BY <3>1, <3>2, ThreadsAssumption DEF Automatic
    <3>4. last' = last
      BY <1>1
    <3>5. Controlled(t)'
      BY <2>6, <3>2, <3>3, <3>4 DEF Controlled
    <3>. QED BY <2>1, <3>5, ControlledNext
  <2>7. CASE last.what = "auto" /\ AutoAt(t, last.value)
    <3>0. PICK sp : sp = last.value
      OBVIOUS
    <3>1. CASE saving[t] = "read" /\ AtMode(t, "STARTUP", Put("setPoint", sp))
      <4>1. \/ AtMode(t, "STARTUP", Put("setPoint", sp))'
            \/ todo'[t] = <<{Put("setPoint", sp)}>> /\ LidIdle("STARTUP")'
        BY <1>3, <3>1, AtModeStep
      <4>. QED BY <1>1, <2>1, <2>7, <3>0, <3>1, <4>1
           DEF CommandInv, AutoAt, AtMode, ModeMade, LidIdle
    <3>2. CASE saving[t] = "read" /\ todo[t] = <<{Put("setPoint", sp)}>> /\ LidIdle("STARTUP")
      <4>1. Make(Put("setPoint", sp)) /\ todo'[t] = <<>>
        BY <1>3, <3>2, LastStore
      <4>2. Put("setPoint", sp).field = "setPoint" /\ Put("setPoint", sp).value = sp
        BY DEF Put
      <4>3. LidIdle("STARTUP")' /\ mem'.setPoint = sp
        BY <1>3, <3>2, <4>1, <4>2, StoreEffect DEF LidIdle, Fields
      <4>. QED BY <1>1, <2>1, <2>7, <3>0, <3>2, <4>1, <4>3
           DEF CommandInv, AutoAt, LidIdle
    <3>3. CASE Through(t) /\ Automatic /\ mem.setPoint = sp
      BY <2>6, <2>7, <3>0, <3>3 DEF Controlled
    <3>. QED BY <1>1, <2>7, <3>0, <3>1, <3>2, <3>3 DEF AutoAt
  <2>8. CASE last.what = "lid" /\ LidAt(t)
    <3>1. CASE saving[t] = "no" /\ AtMode(t, "RECOVERY", Put("lidCountdown", Duration))
      <4>1. \/ AtMode(t, "RECOVERY", Put("lidCountdown", Duration))'
            \/ todo'[t] = <<{Put("lidCountdown", Duration)}>> /\ LidIdle("RECOVERY")'
        BY <1>3, <3>1, AtModeStep
      <4>. QED BY <1>1, <2>1, <2>8, <3>1, <4>1
           DEF CommandInv, LidAt, LidIdle, AtMode, ModeMade
    <3>2. CASE saving[t] = "no" /\ todo[t] = <<{Put("lidCountdown", Duration)}>>
               /\ mem.pidMode = "RECOVERY"
      <4>. DEFINE x == Put("lidCountdown", Duration)
      <4>1. Make(x) /\ todo'[t] = <<>>
        BY <1>3, <3>2, LastStore
      <4>2. x.field = "lidCountdown" /\ x.value = Duration
        BY DEF Put
      <4>3. mem'.pidMode = "RECOVERY" /\ mem'.lidCountdown = Duration
        <5>. HIDE DEF x
        <5>. QED BY <1>3, <3>2, <4>1, <4>2, StoreEffect DEF Fields
      <4>4. saving'[t] = "no" /\ last' = last
        BY <1>1, <3>2
      <4>5. Through(t)'
        BY <4>1, <4>4 DEF Through
      <4>6. Automatic'
        BY <4>3, ThreadsAssumption DEF Automatic, AutoModes
      <4>. QED BY <2>1, <2>8, <4>4, <4>5, <4>6 DEF CommandInv, LidAt
    <3>3. CASE Through(t) /\ Automatic
      BY <2>6, <2>8, <3>3 DEF Controlled
    <3>. QED BY <2>8, <3>1, <3>2, <3>3 DEF LidAt
  <2>9. CommandInv(t)'
    BY <2>1, <2>2, <2>5, <2>7, <2>8 DEF CommandInv
  <2>. QED BY <2>1, <2>9
<1>12. Here(t)'
  <2>1. (raced' # "command" => raced # "command") /\ (raced' = "no" => raced = "no")
    BY <1>1 DEF MetPeriod
  <2>. QED BY <2>1, <1>9, <1>10, <1>11 DEF Here
<1>. QED BY <1>8, <1>12

\* storePidMode finds MANUAL only if it will write it.
LEMMA StepSaveRead ==
  ASSUME TypeInv, NEW t \in Threads, Here(t), SaveRead(t)
  PROVE  TypeInv' /\ Here(t)'
<1>. DEFINE mode == IF mem.pidMode \in AutoModes THEN "STARTUP" ELSE mem.pidMode
<1>1. /\ todo[t] = <<>> /\ saving[t] = "read" /\ saving' = [saving EXCEPT ![t] = mode]
      /\ saving'[t] = mode /\ \A u \in Threads \ {t} : saving'[u] = saving[u]
      /\ UNCHANGED <<mem, pc, countdown, stores, todo, last, raced>>
  BY DEF SaveRead, periodVars, TypeInv
<1>2. mode \in {"STARTUP", "MANUAL", "OFF"} /\ mem.pidMode \in Modes
  BY DEF TypeInv, Memory, Modes
<1>3. TypeInv'
  <2>. HIDE DEF mode
  <2>1. saving' \in [Threads -> {"no", "read", "STARTUP", "MANUAL", "OFF"}]
    BY <1>1, <1>2 DEF TypeInv
  <2>2. \A u \in Threads : CommandType(u)'
    BY <1>1, <1>2 DEF TypeInv, CommandType
  <2>. QED BY <1>1, <2>1, <2>2 DEF TypeInv
<1>4. ManualInv(t)'
  BY <1>1, <1>2 DEF ManualInv, AutoModes
<1>5. Alone(t) => Alone(t)'
  BY <1>1 DEF Alone, Busy
<1>6. ASSUME CommandInv(t) PROVE CommandInv(t)'
  <2>2. CASE last.what = "manual" /\ ManualCommandInv(t)
    BY <1>1, <2>2
    DEF CommandInv, ManualCommandInv, ManualAt, AtMode, LidIdle, Through, InControl, AutoModes
  <2>3. CASE last.what = "auto" /\ AutoAt(t, last.value)
    BY <1>1, <2>3
    DEF CommandInv, AutoAt, AtMode, LidIdle, Through, InControl, AutoModes
  <2>. QED BY <1>1, <1>6, <2>2, <2>3 DEF CommandInv, OffInv, LidAt, Through
<1>7. TickInv => TickInv'
  BY <1>1 DEF TickInv
<1>8. Here(t)'
  BY <1>1, <1>4, <1>5, <1>6, <1>7 DEF Here
<1>. QED BY <1>3, <1>8

LEMMA StepSaveWrite ==
  ASSUME TypeInv, NEW t \in Threads, Here(t), SaveWrite(t)
  PROVE  TypeInv' /\ Here(t)'
<1>. DEFINE w == Put("fileMode", saving[t])
<1>1. /\ todo[t] = <<>> /\ saving[t] \notin {"no", "read"} /\ Make(w)
      /\ saving' = [saving EXCEPT ![t] = "no"] /\ saving'[t] = "no"
      /\ \A u \in Threads \ {t} : saving'[u] = saving[u]
      /\ UNCHANGED <<pc, countdown, stores, todo, last, raced>>
  BY DEF SaveWrite, periodVars, TypeInv
<1>2. saving[t] \in {"STARTUP", "MANUAL", "OFF"} /\ mem \in Memory
  BY <1>1 DEF TypeInv
<1>3. w.field = "fileMode" /\ w.value = saving[t]
  BY DEF Put
<1>4. /\ mem' \in Memory
      /\ mem'.pidMode = mem.pidMode /\ mem'.setPoint = mem.setPoint
      /\ mem'.lidCountdown = mem.lidCountdown /\ mem'.pidOutput = mem.pidOutput
      /\ mem'.fileMode = saving[t]
  <2>. HIDE DEF w
  <2>. QED BY <1>1, <1>2, <1>3, StoreEffect, StoreType DEF Fields
<1>5. TypeInv'
  <2>1. saving' \in [Threads -> {"no", "read", "STARTUP", "MANUAL", "OFF"}]
    BY <1>1 DEF TypeInv
  <2>2. todo[t] \in Seq(SUBSET QuietPuts)
    BY <1>1
  <2>3. \A u \in Threads : CommandType(u)'
    BY <1>1, <2>2 DEF TypeInv, CommandType
  <2>. QED BY <1>1, <1>4, <2>1, <2>3 DEF TypeInv
<1>6. ManualInv(t) => ManualInv(t)'
  BY <1>1, <1>2, <1>4 DEF ManualInv
<1>7. Alone(t) => Alone(t)'
  BY <1>1 DEF Alone, Busy
<1>8. ASSUME CommandInv(t) PROVE CommandInv(t)'
  <2>2. CASE last.what = "manual" /\ ManualCommandInv(t)
    BY <1>1, <1>4, <2>2
    DEF CommandInv, ManualCommandInv, ManualAt, LidIdle, Through, InControl
  <2>3. CASE last.what = "auto" /\ AutoAt(t, last.value)
    <3>1. Controlled(t)'
      BY <1>1, <1>4, <2>3, ThreadsAssumption
      DEF AutoAt, LidIdle, Through, Controlled, Automatic, AutoModes
    <3>. QED BY <3>1, ControlledNext
  <2>. QED BY <1>1, <1>8, <2>2, <2>3 DEF CommandInv, OffInv, LidAt, Through
<1>9. TickInv => TickInv'
  BY <1>1, <1>4 DEF TickInv
<1>10. Here(t)'
  BY <1>1, <1>6, <1>7, <1>8, <1>9 DEF Here
<1>. QED BY <1>5, <1>10

\* A thread in the middle of a command is the one Here speaks of.
LEMMA StepCarry ==
  ASSUME TypeInv, NEW u \in Threads, Here(u), NEW t \in Threads, Carry(t)
  PROVE  TypeInv' /\ Here(t)'
<1>1. Busy(t)
  BY DEF Carry, Store, SaveRead, SaveWrite, Busy
<1>2. Here(t)
  <2>1. Alone(u) => t = u
    BY <1>1 DEF Alone
  <2>. QED BY <2>1 DEF Here
<1>. QED BY <1>2, StepStore, StepSaveRead, StepSaveWrite DEF Carry

-----------------------------------------------------------------------------
(* The theorems                                                            *)

LEMMA ThreadsInit == Init => ThreadsInv
<1>. SUFFICES ASSUME Init PROVE ThreadsInv
  OBVIOUS
<1>1. PICK sp \in SetPoints :
        /\ mem = [pidMode |-> "STARTUP", setPoint |-> sp, lidCountdown |-> 0,
                  pidOutput |-> 0, fileMode |-> "STARTUP"]
        /\ last = Cmd("auto", sp)
  BY DEF Init
<1>2. /\ pc = "idle" /\ countdown = 0 /\ stores = <<>> /\ raced = "no"
      /\ todo = [t \in Threads |-> <<>>] /\ saving = [t \in Threads |-> "no"]
  BY DEF Init
<1>3. TypeInv
  <2>1. mem \in Memory
    BY <1>1, ThreadsAssumption DEF Memory, Modes, AutoModes
  <2>2. <<>> \in Seq(SUBSET CommandPuts) /\ <<>> \in Seq(SUBSET QuietPuts)
    OBVIOUS
  <2>3. \A t \in Threads : CommandType(t)
    BY <1>2, <2>2 DEF CommandType
  <2>. QED BY <1>2, <2>1, <2>2, <2>3, ThreadsAssumption DEF TypeInv
<1>4. "main" \in Threads
  BY DEF Threads
<1>5. Alone("main") /\ ManualInv("main") /\ TickInv
  BY <1>1, <1>2, <1>4 DEF Alone, Busy, ManualInv, TickInv
<1>6. CommandInv("main")
  <2>1. Through("main") /\ Automatic /\ mem.setPoint = sp
    BY <1>1, <1>2, <1>4, ThreadsAssumption DEF Through, Automatic, AutoModes
  <2>. QED BY <1>1, <2>1 DEF CommandInv, AutoAt, Cmd
<1>. QED BY <1>3, <1>4, <1>5, <1>6 DEF ThreadsInv, Here

LEMMA ThreadsNext == ThreadsInv /\ [Next]_vars => ThreadsInv'
<1>. SUFFICES ASSUME TypeInv, NEW u \in Threads, Here(u), [Next]_vars
              PROVE  TypeInv' /\ \E t \in Threads : Here(t)'
  BY DEF ThreadsInv
<1>1. CASE Main
  BY <1>1, StepMeasure, StepTestMode, StepOutput, StepReads, StepTick, StepMainStore
  DEF Main
<1>2. ASSUME NEW t \in Threads, Carry(t) PROVE TypeInv' /\ Here(t)'
  BY <1>2, StepCarry
<1>3. ASSUME NEW t \in Threads, Command(t) PROVE TypeInv' /\ Here(t)'
  BY <1>3, StepOff, StepManual, StepSetPoint, StepLidOn, StepLidOff DEF Command
<1>4. CASE UNCHANGED vars
  <2>1. UNCHANGED <<mem, pc, countdown, stores, todo, saving, last, raced>>
    BY <1>4 DEF vars, periodVars, commandVars
  <2>2. TypeInv'
    BY <2>1 DEF TypeInv, CommandType
  <2>3. CommandInv(u) => CommandInv(u)'
    BY <2>1, CommandUntouched DEF InControl
  <2>4. (ManualInv(u) => ManualInv(u)') /\ (TickInv => TickInv')
    BY <2>1, ManualUntouched DEF TickInv
  <2>5. Here(u)'
    BY <2>1, <2>3, <2>4, PeriodKeeps DEF Here
  <2>. QED BY <2>2, <2>5
<1>. QED BY <1>1, <1>2, <1>3, <1>4 DEF Next

LEMMA ThreadsSafe == Spec => []ThreadsInv
<1>. QED BY ThreadsInit, ThreadsNext, PTL DEF Spec

\* However the commands of the two threads, from the serial line and from the
\* web, and the periods interleave: the shared fields keep their types, a manual
\* output in effect is in the file unless two commands overlapped, and a command
\* that met neither a controlled period nor another command leaves a countdown
\* of no more than a lid event (setPidMode, storePidMode, GrillPid::doWork).
THEOREM MemoryAlwaysOK == Spec => []MemoryOK
<1>1. ThreadsInv => MemoryOK
  <2>. SUFFICES ASSUME TypeInv, NEW t \in Threads, Here(t) PROVE MemoryOK
    BY DEF ThreadsInv
  <2>1. /\ mem.pidMode \in AutoModes \cup {"MANUAL", "OFF"}
        /\ mem.setPoint \in SetPoints
        /\ mem.lidCountdown \in 0..(Word - 1)
        /\ mem.pidOutput \in 0..100
        /\ mem.fileMode \in {"STARTUP", "MANUAL", "OFF"}
    BY DEF TypeInv, Memory, Modes
  <2>2. ASSUME ~AnyBusy PROVE todo[t] = <<>> /\ saving[t] = "no"
    BY <2>2 DEF AnyBusy, Busy
  <2>3. ~AnyBusy /\ raced # "command" /\ mem.pidMode = "MANUAL" => mem.fileMode = "MANUAL"
    BY <2>2 DEF Here, ManualInv, Leaves
  <2>4. ASSUME ~AnyBusy, raced = "no" PROVE mem.lidCountdown <= Duration
    <3>1. CommandInv(t)
      BY <2>4 DEF Here
    <3>2. mem.lidCountdown = 0 \/ Automatic
      BY <2>2, <2>4, <3>1
      DEF CommandInv, OffInv, ModeMade, ManualCommandInv, ManualAt, LidIdle,
          AutoAt, LidAt, AtMode, Through
    <3>. QED BY <3>2, ThreadsAssumption DEF Automatic
  <2>. QED BY <2>1, <2>3, <2>4 DEF MemoryOK
<1>. QED BY <1>1, ThreadsSafe, PTL

\* A command of either thread whose stores fall between two controlled periods
\* and meet no other command takes full effect, and no period undoes it
\* (handleCommandUrl against GrillPid::doWork).
THEOREM UnracedCommandsHold == Spec => []UnracedCommandHolds
<1>1. ThreadsInv => UnracedCommandHolds
  <2>. SUFFICES ASSUME NEW t \in Threads, Here(t), ~AnyBusy, raced = "no" PROVE Obeyed
    BY DEF UnracedCommandHolds, ThreadsInv
  <2>1. todo[t] = <<>> /\ saving[t] = "no" /\ CommandInv(t)
    BY DEF AnyBusy, Busy, Here
  <2>2. CASE last.what = "off" /\ OffInv(t)
    BY <2>1, <2>2 DEF OffInv, ModeMade, Obeyed
  <2>3. CASE last.what = "manual" /\ ManualCommandInv(t)
    BY <2>1, <2>3 DEF ManualCommandInv, ManualAt, AtMode, LidIdle, Obeyed
  <2>4. CASE last.what = "auto" /\ AutoAt(t, last.value)
    BY <2>1, <2>4 DEF AutoAt, AtMode, Automatic, Obeyed
  <2>5. CASE last.what = "lid" /\ LidAt(t)
    BY <2>1, <2>5 DEF LidAt, AtMode, Automatic, Obeyed
  <2>. QED BY <2>1, <2>2, <2>3, <2>4, <2>5 DEF CommandInv
<1>. QED BY <1>1, ThreadsSafe, PTL
=============================================================================
