------------------------- MODULE ConfigStoreProofs --------------------------
(***************************************************************************)
(* What holds of ConfigStore for every width of a byte, every magic        *)
(* number, every set of set points and any number of commands.             *)
(***************************************************************************)
EXTENDS ConfigStore, Arithmetic, SequenceTheorems, TLAPS

-----------------------------------------------------------------------------
(* The inductive invariant                                                 *)

Bytes == 0..(Byte - 1)
Words == 0..(Byte * Byte - 1)

\* What a program that stores into the given cells is made of.  The cells of
\* the magic numbers get nothing but the magic number.
Puts(cells) ==
  {p \in [op : {"put"}, cell : cells, val : Bytes] :
     p.cell \in {Magic, ProbeMagic} => p.val = MAGIC}

Ops(cells) ==
  Puts(cells) \cup {SaveMode}
    \cup [op : {"use"}, setPoint : Words, mode : Bytes]
    \cup [op : {"set"}, mode : Bytes]
    \cup [op : {"switch"}, mode : Bytes \ {MANUAL}]

BaseCells    == {Magic, SetPointLow, SetPointHigh, PidMode}
CommandCells == {SetPointLow, SetPointHigh, PidMode, ProbeType}

\* The cells a thread's program stores into, and then a whole start's
CellsOf(t) ==
  CASE phase = "probes" -> BaseCells
    [] phase = "server" -> {ProbeMagic, ProbeType}
    [] phase = "resetting" /\ t = "main" -> CommandCells \cup {Magic}
    [] OTHER -> CommandCells

StoreTypes ==
  /\ ram \in [Cells -> Bytes] /\ file \in [Cells -> Bytes]
  /\ pos \in Cells
  /\ phase \in Phases
  /\ program \in [Threads -> Seq(Ops(Cells))]
  /\ \A t \in Threads : program[t] \in Seq(Ops(CellsOf(t)))
  /\ step \in [Threads -> {"store", "seek", "write"}]
  /\ inUse \in [setPoint : Words, mode : Bytes] /\ kept \in Bytes
  /\ inUse.mode = MANUAL => kept = MANUAL
  /\ commands \in 0..MaxCommands
  /\ raced \in {"no", "commands", "reset"}

\* Before the server runs, the main thread is alone; at first it has nothing
\* to do.
StartInv ==
  /\ ~Serving => Idle("web") /\ raced = "no"
  /\ phase = "base" => Idle("main")

\* A thread past the first step of a byte has a byte to write; that of a magic
\* number is in memory.
StepInv ==
  \A t \in Threads :
    step[t] # "store" =>
      /\ Writes(t)
      /\ Now(t).cell \in {Magic, ProbeMagic} => ram[Now(t).cell] = MAGIC

\* Where a write can hit when the other thread has moved the position: a cell a
\* command stores into, or the one after it.
PosInv ==
  /\ step["main"] = "write" /\ step["web"] = "write" => pos \in CommandCells \cup {Magic}
  /\ \A t \in Threads :
       step[t] = "write" =>
         /\ pos < 8
         /\ Serving => pos # ProbeMagic
         /\ Serving /\ raced # "reset" /\ Now(t).cell # Magic => pos # Magic

\* No overlap has gone unnoticed.
RaceInv ==
  raced = "no" \/ (phase = "resetting" /\ raced # "reset") =>
    \E t \in Threads : Idle(t)

LagInv ==
  raced = "no" =>
    /\ \A t \in Threads : step[t] = "write" => pos = Now(t).cell
    /\ \A c \in Cells : file[c] # ram[c] =>
         \E t \in Threads : Writes(t) /\ Now(t).cell = c /\ step[t] # "store"

\* Cell c has its magic number, or the main thread is about to store it.
MagicDue(c) ==
  \/ ram[c] = MAGIC
  \/ ~Idle("main") /\ Now("main").op = "put" /\ Now("main").cell = c

MagicInv ==
  /\ phase = "probes" => MagicDue(Magic)
  /\ phase = "server" => ram[Magic] = MAGIC /\ MagicDue(ProbeMagic)
  /\ Serving => /\ file[ProbeMagic] = MAGIC
                /\ file[Magic] = MAGIC \/ raced = "reset"

StoreInv ==
  StoreTypes /\ StartInv /\ StepInv /\ PosInv /\ RaceInv /\ LagInv /\ MagicInv

-----------------------------------------------------------------------------
(* Programs                                                                *)

CellNames == {Magic, SetPointLow, SetPointHigh, PidMode, ProbeMagic, ProbeType}

LEMMA CellsAre ==
  /\ CellNames \subseteq Cells /\ \A c \in CellNames : c < 7
  /\ \A t \in Threads : CellsOf(t) \subseteq CellNames
BY DEF CellNames, CellsOf, BaseCells, CommandCells, Cells, Magic, SetPointLow,
       SetPointHigh, PidMode, ProbeMagic, ProbeType

\* What is left of a thread's program
LEMMA ProgramSteps ==
  ASSUME StoreTypes, NEW t \in Threads, ~Idle(t)
  PROVE  /\ Now(t) \in Ops(CellsOf(t))
         /\ Tail(program[t]) \in Seq(Ops(CellsOf(t)))
         /\ Tail(program[t]) \in Seq(Ops(Cells))
<1>1. /\ program[t] \in Seq(Ops(CellsOf(t))) /\ program[t] \in Seq(Ops(Cells))
      /\ program[t] # <<>>
  BY DEF StoreTypes, Idle
<1>. QED BY <1>1, HeadTailProperties DEF Now

\* The byte a thread is about to store
LEMMA NowWrites ==
  ASSUME StoreTypes, NEW t \in Threads, Writes(t)
  PROVE  /\ Now(t).cell \in CellsOf(t) \cup {PidMode}
         /\ Now(t).cell \in CellNames
         /\ Now(t).op # "save" => Now(t).op = "put" /\ Now(t).val \in Bytes
         /\ Now(t).cell \in {Magic, ProbeMagic} =>
              Now(t).op = "put" /\ Now(t).val = MAGIC
<1>1. Now(t) \in Ops(CellsOf(t)) /\ Now(t).op \in {"put", "save"}
  BY ProgramSteps DEF Writes
<1>2. Now(t) \in Puts(CellsOf(t)) \/ Now(t) = SaveMode
  BY <1>1 DEF Ops
<1>3. PidMode \in CellNames /\ PidMode \notin {Magic, ProbeMagic}
  BY DEF CellNames, PidMode, Magic, ProbeMagic
<1>. QED BY <1>2, <1>3, CellsAre DEF Puts, SaveMode

-----------------------------------------------------------------------------
(* The three steps of a byte                                               *)

LEMMA StepStoreByte ==
  ASSUME StoreInv, NEW t \in Threads, StoreByte(t)
  PROVE  StoreInv'
<1>. USE DEF StoreInv
<1>. DEFINE b == IF Now(t).op = "save" THEN inUse.mode ELSE Now(t).val
            c == Now(t).cell
<1>1. /\ Writes(t) /\ step[t] = "store"
      /\ ram' = [ram EXCEPT ![c] = b]
      /\ step' = [step EXCEPT ![t] = "seek"]
      /\ UNCHANGED <<file, pos, phase, program, inUse, kept, commands, raced>>
  BY DEF StoreByte
<1>2. c \in CellNames /\ c \in Cells /\ b \in Bytes
      /\ (c \in {Magic, ProbeMagic} => b = MAGIC)
  BY <1>1, NowWrites, CellsAre DEF StoreTypes
<1>3. ram' \in [Cells -> Bytes] /\ ram'[c] = b
      /\ \A d \in Cells : d # c => ram'[d] = ram[d]
  BY <1>1, <1>2 DEF StoreTypes
<1>4. step' \in [Threads -> {"store", "seek", "write"}] /\ step'[t] = "seek"
      /\ \A u \in Threads : u # t => step'[u] = step[u]
  BY <1>1 DEF StoreTypes
<1>5. /\ \A u \in Threads : Idle(u)' = Idle(u) /\ Writes(u)' = Writes(u) /\ Now(u)' = Now(u)
      /\ Serving' = Serving
      /\ \A u \in Threads : CellsOf(u)' = CellsOf(u)
  BY <1>1 DEF Idle, Writes, Now, Serving, CellsOf
<1>. HIDE DEF b, c
<1>6. StoreTypes'
  BY <1>1, <1>3, <1>4, <1>5 DEF StoreTypes
<1>7. StartInv'
  BY <1>1, <1>5 DEF StartInv, Threads
<1>8. StepInv'
  <2>. SUFFICES ASSUME NEW u \in Threads, step'[u] # "store"
                PROVE  /\ Writes(u)
                       /\ Now(u).cell \in {Magic, ProbeMagic} => ram'[Now(u).cell] = MAGIC
    BY <1>5 DEF StepInv
  <2>1. CASE u = t
    BY <1>1, <1>2, <1>3, <2>1 DEF c
  <2>2. CASE u # t
    <3>1. Writes(u) /\ (Now(u).cell \in {Magic, ProbeMagic} => ram[Now(u).cell] = MAGIC)
      BY <1>4, <2>2 DEF StepInv
    <3>2. Now(u).cell \in Cells
      BY <3>1, NowWrites, CellsAre
    <3>. QED BY <1>2, <1>3, <3>1, <3>2
  <2>. QED BY <2>1, <2>2
<1>9. PosInv'
  <2>1. \A u \in Threads : step'[u] = "write" => step[u] = "write"
    BY <1>4
  <2>. QED BY <1>1, <1>5, <2>1 DEF PosInv, Threads
<1>10. RaceInv'
  BY <1>1, <1>5 DEF RaceInv
<1>11. LagInv'
  <2>. SUFFICES ASSUME raced = "no"
                PROVE  /\ \A u \in Threads : step'[u] = "write" => pos = Now(u).cell
                       /\ \A d \in Cells : file[d] # ram'[d] =>
                            \E u \in Threads :
                              Writes(u) /\ Now(u).cell = d /\ step'[u] # "store"
    BY <1>1, <1>5 DEF LagInv
  <2>1. \A u \in Threads : step'[u] = "write" => pos = Now(u).cell
    BY <1>4 DEF LagInv
  <2>2. ASSUME NEW d \in Cells, file[d] # ram'[d]
        PROVE  \E u \in Threads : Writes(u) /\ Now(u).cell = d /\ step'[u] # "store"
    <3>1. CASE d = c
      BY <1>1, <1>4, <3>1 DEF c
    <3>2. CASE d # c
      <4>1. file[d] # ram[d]
        BY <1>3, <2>2, <3>2
      <4>. QED BY <1>1, <1>4, <4>1 DEF LagInv
    <3>. QED BY <3>1, <3>2
  <2>. QED BY <2>1, <2>2
<1>12. MagicInv'
  <2>1. \A d \in {Magic, ProbeMagic} : MagicDue(d) => MagicDue(d)'
    <3>. SUFFICES ASSUME NEW d \in {Magic, ProbeMagic}, MagicDue(d) PROVE MagicDue(d)'
      OBVIOUS
    <3>1. d \in Cells
      BY DEF Magic, ProbeMagic, Cells
    <3>. QED BY <1>2, <1>3, <1>5, <3>1 DEF MagicDue, Threads
  <2>2. ram[Magic] = MAGIC => ram'[Magic] = MAGIC
    BY <1>2, <1>3 DEF Magic, Cells
  <2>. QED BY <1>1, <1>5, <2>1, <2>2 DEF MagicInv
<1>. QED BY <1>6, <1>7, <1>8, <1>9, <1>10, <1>11, <1>12

LEMMA StepSeek ==
  ASSUME StoreInv, NEW t \in Threads, Seek(t)
  PROVE  StoreInv'
<1>. USE DEF StoreInv
<1>. DEFINE c == Now(t).cell
<1>1. /\ Writes(t) /\ step[t] = "seek" /\ pos' = c
      /\ step' = [step EXCEPT ![t] = "write"]
      /\ UNCHANGED <<ram, file, phase, program, inUse, kept, commands, raced>>
  BY DEF Seek
<1>2. c \in CellNames /\ c \in Cells /\ c \in CellsOf(t) \cup {PidMode} /\ c < 7
  BY <1>1, NowWrites, CellsAre
<1>3. step' \in [Threads -> {"store", "seek", "write"}] /\ step'[t] = "write"
      /\ \A u \in Threads : u # t => step'[u] = step[u]
  BY <1>1 DEF StoreTypes
<1>4. /\ \A u \in Threads : Idle(u)' = Idle(u) /\ Writes(u)' = Writes(u) /\ Now(u)' = Now(u)
      /\ Serving' = Serving
      /\ \A u \in Threads : CellsOf(u)' = CellsOf(u)
      /\ \A d \in Cells : MagicDue(d)' = MagicDue(d)
  BY <1>1 DEF Idle, Writes, Now, Serving, CellsOf, MagicDue
<1>5. \A u \in Threads : step'[u] # "store" => step[u] # "store"
  BY <1>1, <1>3
<1>6. \A u \in Threads : step'[u] = "write" /\ u # t => ~Idle(u)
  BY <1>3 DEF StepInv, Writes
<1>7. ~Idle(t)
  BY <1>1 DEF Writes
<1>8. Serving => c \in CommandCells \cup {Magic} /\ c # ProbeMagic
                 /\ (c = Magic => t = "main" /\ phase = "resetting")
  <2>1. PidMode \in CommandCells
    BY DEF CommandCells
  <2>2. ProbeMagic \notin CommandCells \cup {Magic} /\ Magic \notin CommandCells
    BY DEF CommandCells, Magic, ProbeMagic, SetPointLow, SetPointHigh, PidMode, ProbeType
  <2>. QED BY <1>2, <2>1, <2>2 DEF CellsOf, Serving
<1>. HIDE DEF c
<1>9. StoreTypes'
  BY <1>1, <1>2, <1>3, <1>4 DEF StoreTypes
<1>10. StartInv' /\ RaceInv'
  BY <1>1, <1>4 DEF StartInv, RaceInv, Threads
<1>11. StepInv'
  BY <1>1, <1>4, <1>5 DEF StepInv
<1>12. PosInv'
  <2>1. ASSUME NEW u \in Threads, u # t, step'[u] = "write"
        PROVE  Serving /\ (raced # "reset" => c # Magic)
    <3>1. \A v \in Threads : ~Idle(v)
      BY <1>6, <1>7, <2>1 DEF Threads
    <3>2. Serving
      BY <3>1 DEF StartInv, Threads
    <3>3. ~(phase = "resetting" /\ raced # "reset")
      BY <3>1 DEF RaceInv
    <3>. QED BY <1>8, <3>2, <3>3
  <2>2. step'["main"] = "write" /\ step'["web"] = "write" => c \in CommandCells \cup {Magic}
    BY <1>8, <2>1 DEF Threads
  <2>3. ASSUME NEW u \in Threads, step'[u] = "write"
        PROVE  /\ c < 8
               /\ Serving => c # ProbeMagic
               /\ Serving /\ raced # "reset" /\ Now(u).cell # Magic => c # Magic
    <3>1. c < 8
      BY <1>2 DEF Cells
    <3>2. Serving => c # ProbeMagic
      BY <1>8
    <3>3. Serving /\ raced # "reset" /\ Now(u).cell # Magic => c # Magic
      <4>1. CASE u = t
        BY <4>1 DEF c
      <4>2. CASE u # t
        BY <2>1, <2>3, <4>2
      <4>. QED BY <4>1, <4>2
    <3>. QED BY <3>1, <3>2, <3>3
  <2>. QED BY <1>1, <1>4, <2>2, <2>3 DEF PosInv
<1>13. LagInv'
  <2>. SUFFICES ASSUME raced = "no"
                PROVE  /\ \A u \in Threads : step'[u] = "write" => c = Now(u).cell
                       /\ \A d \in Cells : file[d] # ram[d] =>
                            \E u \in Threads :
                              Writes(u) /\ Now(u).cell = d /\ step'[u] # "store"
    BY <1>1, <1>4 DEF LagInv
  <2>1. \A u \in Threads : step'[u] = "write" => u = t
    BY <1>6, <1>7 DEF RaceInv, Threads
  <2>2. \A u \in Threads : step[u] # "store" => step'[u] # "store"
    BY <1>3
  <2>. QED BY <2>1, <2>2 DEF LagInv, c
<1>14. MagicInv'
  <2>1. {Magic, ProbeMagic} \subseteq Cells
    BY DEF Magic, ProbeMagic, Cells
  <2>. QED BY <1>1, <1>4, <2>1 DEF MagicInv
<1>. QED BY <1>9, <1>10, <1>11, <1>12, <1>13, <1>14

\* The write goes to pos, which only with a race is not the byte's cell.
LEMMA StepWriteByte ==
  ASSUME StoreInv, NEW t \in Threads, WriteByte(t)
  PROVE  StoreInv'
<1>. USE DEF StoreInv
<1>. DEFINE c == Now(t).cell
<1>1. /\ Writes(t) /\ step[t] = "write" /\ pos' = pos + 1
      /\ file' = [file EXCEPT ![pos] = ram[c]]
      /\ step' = [step EXCEPT ![t] = "store"]
      /\ program' = [program EXCEPT ![t] = Tail(program[t])]
      /\ UNCHANGED <<ram, phase, inUse, kept, commands, raced>>
  BY DEF WriteByte
<1>2. c \in CellNames /\ c \in Cells
  BY <1>1, NowWrites, CellsAre
<1>3. step' \in [Threads -> {"store", "seek", "write"}] /\ step'[t] = "store"
      /\ \A u \in Threads : u # t => step'[u] = step[u]
  BY <1>1 DEF StoreTypes
<1>4. pos \in Cells /\ pos < 8 /\ pos + 1 \in Cells
  BY <1>1 DEF StoreTypes, PosInv, Cells
<1>5. file' \in [Cells -> Bytes] /\ file'[pos] = ram[c]
      /\ \A d \in Cells : d # pos => file'[d] = file[d]
  BY <1>1, <1>2, <1>4 DEF StoreTypes
<1>6. /\ ~Idle(t)
      /\ program' \in [Threads -> Seq(Ops(Cells))]
      /\ program'[t] \in Seq(Ops(CellsOf(t)))
      /\ \A u \in Threads : u # t => program'[u] = program[u]
  <2>1. ~Idle(t)
    BY <1>1 DEF Writes
  <2>. QED BY <1>1, <2>1, ProgramSteps DEF StoreTypes
<1>7. /\ Serving' = Serving /\ \A u \in Threads : CellsOf(u)' = CellsOf(u)
      /\ \A u \in Threads : Idle(u) => u # t /\ Idle(u)'
      /\ \A u \in Threads : u # t =>
           Idle(u)' = Idle(u) /\ Writes(u)' = Writes(u) /\ Now(u)' = Now(u)
  BY <1>1, <1>6 DEF Idle, Writes, Now, Serving, CellsOf
<1>. HIDE DEF c
<1>8. StoreTypes'
  <2>1. \A u \in Threads : (program[u] \in Seq(Ops(CellsOf(u))))'
    BY <1>6, <1>7 DEF StoreTypes
  <2>. QED BY <1>1, <1>3, <1>4, <1>5, <1>6, <2>1 DEF StoreTypes
<1>9. StartInv'
  <2>1. ~Serving => t # "web"
    BY <1>6 DEF StartInv
  <2>. QED BY <1>1, <1>7, <2>1 DEF StartInv, Threads
<1>10. StepInv'
  <2>. SUFFICES ASSUME NEW u \in Threads, step'[u] # "store"
                PROVE  /\ Writes(u)'
                       /\ Now(u)'.cell \in {Magic, ProbeMagic} => ram[Now(u)'.cell] = MAGIC
    BY <1>1 DEF StepInv
  <2>. QED BY <1>3, <1>7 DEF StepInv
<1>11. PosInv'
  <2>1. ~(step'["main"] = "write" /\ step'["web"] = "write")
    BY <1>3 DEF Threads
  <2>2. ASSUME NEW u \in Threads, step'[u] = "write"
        PROVE  pos + 1 < 8 /\ pos + 1 \notin {Magic, ProbeMagic}
    <3>1. u # t /\ step[u] = "write"
      BY <1>3, <2>2
    <3>2. pos \in CommandCells \cup {Magic}
      BY <1>1, <3>1 DEF PosInv, Threads
    <3>. QED BY <3>2 DEF CommandCells, Magic, SetPointLow, SetPointHigh, PidMode,
                         ProbeType, ProbeMagic
  <2>. QED BY <1>1, <2>1, <2>2 DEF PosInv
<1>12. RaceInv'
  BY <1>1, <1>7 DEF RaceInv
<1>13. LagInv'
  <2>. SUFFICES ASSUME raced = "no"
                PROVE  /\ \A u \in Threads : step'[u] # "write"
                       /\ \A d \in Cells : file'[d] = ram[d]
    BY <1>1 DEF LagInv
  <2>1. \A u \in Threads : u # t => Idle(u)
    BY <1>6 DEF RaceInv, Threads
  <2>2. \A u \in Threads : step'[u] # "write"
    BY <1>3, <2>1 DEF StepInv, Writes
  <2>3. pos = c
    BY <1>1 DEF LagInv, c
  <2>4. \A d \in Cells : d # c => file[d] = ram[d]
    BY <2>1 DEF LagInv, Writes, c
  <2>. QED BY <1>5, <2>2, <2>3, <2>4
<1>14. MagicInv'
  <2>1. \A d \in {Magic, ProbeMagic} : t = "main" /\ MagicDue(d) => ram[d] = MAGIC
    BY <1>1 DEF MagicDue, StepInv
  <2>2. ~Serving => t = "main"
    BY <1>6 DEF StartInv, Threads
  <2>3. phase \in {"probes", "server"} => ~Serving
    BY DEF Serving
  <2>4. ASSUME Serving PROVE file'[ProbeMagic] = MAGIC
    <3>1. pos # ProbeMagic /\ ProbeMagic \in Cells
      BY <1>1, <2>4 DEF PosInv, ProbeMagic, Cells
    <3>. QED BY <1>5, <2>4, <3>1 DEF MagicInv
  <2>5. ASSUME Serving, raced # "reset" PROVE file'[Magic] = MAGIC
    <3>1. Magic \in Cells
      BY DEF Magic, Cells
    <3>2. CASE pos # Magic
      BY <1>5, <2>5, <3>1, <3>2 DEF MagicInv
    <3>3. CASE pos = Magic
      <4>1. c = Magic
        BY <1>1, <2>5, <3>3 DEF PosInv, c
      <4>2. ram[c] = MAGIC
        BY <1>1, <4>1 DEF StepInv, c
      <4>. QED BY <1>5, <3>3, <4>2
    <3>. QED BY <3>2, <3>3
  <2>6. phase = "probes" => ram[Magic] = MAGIC
    BY <2>1, <2>2, <2>3 DEF MagicInv
  <2>7. phase = "server" => ram[Magic] = MAGIC /\ ram[ProbeMagic] = MAGIC
    BY <2>1, <2>2, <2>3 DEF MagicInv
  <2>. QED BY <1>1, <1>7, <2>4, <2>5, <2>6, <2>7 DEF MagicInv, MagicDue
<1>. QED BY <1>8, <1>9, <1>10, <1>11, <1>12, <1>13, <1>14

LEMMA WordType ==
  ASSUME NEW low \in Bytes, NEW high \in Bytes
  PROVE  low + Byte * high \in Words
<1>1. Byte * high <= Byte * (Byte - 1) /\ Byte * high \in Nat
  BY StoreAssumption, ProductMonotone DEF Bytes
<1>2. Byte * (Byte - 1) = Byte * Byte - Byte /\ Byte * Byte \in Nat
  BY StoreAssumption
<1>. QED BY <1>1, <1>2, StoreAssumption DEF Bytes, Words

LEMMA StepPutIntoUse ==
  ASSUME StoreInv, NEW t \in Threads, PutIntoUse(t)
  PROVE  StoreInv'
<1>. USE DEF StoreInv
<1>1. /\ ~Idle(t) /\ Now(t).op \in {"use", "set", "switch"}
      /\ program' = [program EXCEPT ![t] = Tail(program[t])]
      /\ UNCHANGED <<ram, file, pos, phase, step, commands, raced>>
  BY DEF PutIntoUse
<1>2. /\ program' \in [Threads -> Seq(Ops(Cells))]
      /\ program'[t] \in Seq(Ops(CellsOf(t)))
      /\ \A u \in Threads : u # t => program'[u] = program[u]
  BY <1>1, ProgramSteps DEF StoreTypes
<1>3. /\ Serving' = Serving /\ \A u \in Threads : CellsOf(u)' = CellsOf(u)
      /\ \A u \in Threads : Idle(u) => u # t /\ Idle(u)'
      /\ \A u \in Threads : Writes(u) => u # t /\ Writes(u)' /\ Now(u)' = Now(u)
  BY <1>1, <1>2 DEF Idle, Writes, Now, Serving, CellsOf
<1>4. /\ inUse' \in [setPoint : Words, mode : Bytes] /\ kept' \in Bytes
      /\ inUse'.mode = MANUAL => kept' = MANUAL
  <2>1. Now(t) \in Ops(CellsOf(t)) /\ inUse \in [setPoint : Words, mode : Bytes]
        /\ kept \in Bytes
    BY <1>1, ProgramSteps DEF StoreTypes
  <2>2. CASE Now(t).op = "use"
    <3>1. Now(t) \in [op : {"use"}, setPoint : Words, mode : Bytes]
      BY <2>1, <2>2 DEF Ops, Puts, SaveMode
    <3>. QED BY <2>2, <3>1 DEF PutIntoUse
  <2>3. CASE Now(t).op = "set"
    <3>1. Now(t).mode \in Bytes
      BY <2>1, <2>3 DEF Ops, Puts, SaveMode
    <3>. QED BY <2>1, <2>3, <3>1 DEF PutIntoUse
  <2>4. CASE Now(t).op = "switch"
    <3>1. Now(t).mode \in Bytes \ {MANUAL}
      BY <2>1, <2>4 DEF Ops, Puts, SaveMode
    <3>. QED BY <2>1, <2>4, <3>1 DEF PutIntoUse
  <2>. QED BY <1>1, <2>2, <2>3, <2>4
<1>5. StoreTypes'
  <2>1. \A u \in Threads : (program[u] \in Seq(Ops(CellsOf(u))))'
    BY <1>2, <1>3 DEF StoreTypes
  <2>. QED BY <1>1, <1>2, <1>4, <2>1 DEF StoreTypes
<1>6. StartInv'
  BY <1>1, <1>3 DEF StartInv, Threads
<1>7. StepInv' /\ PosInv'
  <2>1. \A u \in Threads : step[u] # "store" => Now(u)' = Now(u) /\ Writes(u)'
    BY <1>3 DEF StepInv
  <2>2. StepInv'
    BY <1>1, <2>1 DEF StepInv
  <2>3. \A u \in Threads : step[u] = "write" => Now(u)' = Now(u)
    BY <2>1
  <2>. QED BY <1>1, <1>3, <2>2, <2>3 DEF PosInv
<1>8. RaceInv'
  BY <1>1, <1>3 DEF RaceInv
<1>9. LagInv'
  <2>1. \A u \in Threads : step[u] = "write" => Writes(u)
    BY DEF StepInv
  <2>. QED BY <1>1, <1>3, <2>1 DEF LagInv
<1>10. MagicInv'
  <2>1. \A d \in {Magic, ProbeMagic} : t = "main" /\ MagicDue(d) => ram[d] = MAGIC
    BY <1>1 DEF MagicDue
  <2>2. phase \in {"probes", "server"} => t = "main"
    BY <1>1 DEF StartInv, Threads, Serving
  <2>. QED BY <1>1, <1>3, <2>1, <2>2 DEF MagicInv, MagicDue
<1>. QED BY <1>5, <1>6, <1>7, <1>8, <1>9, <1>10

-----------------------------------------------------------------------------
(* Commands, resets and starts                                             *)

LEMMA StoredBytes ==
  ASSUME NEW v \in 1..(Byte * Byte - 1)
  PROVE  Low(v) \in Bytes /\ High(v) \in Bytes
<1>1. v \in Nat /\ v < Byte * Byte
  BY StoreAssumption
<1>2. High(v) \in Bytes
  BY <1>1, StoreAssumption, QuotientBelow DEF High, Bytes
<1>3. Low(v) \in Bytes
  BY <1>1, StoreAssumption DEF Low, Bytes
<1>. QED BY <1>2, <1>3

\* What programs are made of
LEMMA Instructions ==
  /\ \A cells, c, v : c \in cells /\ v \in Bytes
                      /\ (c \in {Magic, ProbeMagic} => v = MAGIC) =>
       Put(c, v) \in Ops(cells)
  /\ \A cells, sp, m : sp \in Words /\ m \in Bytes => Use(sp, m) \in Ops(cells)
  /\ \A cells : SaveMode \in Ops(cells)
  /\ \A cells, m : m \in Bytes => SetMode(m) \in Ops(cells)
  /\ \A cells, m : m \in Bytes /\ m # MANUAL => Switch(m) \in Ops(cells)
BY DEF Ops, Puts, Put, Use, SetMode, Switch

\* A program of the cells allowed to thread t is a program.
LEMMA OpsGrow ==
  ASSUME NEW t \in Threads
  PROVE  /\ Seq(Ops(CellsOf(t))) \subseteq Seq(Ops(Cells))
         /\ Seq(Ops(CellsOf(t)))' \subseteq Seq(Ops(Cells))
<1>1. CellsOf(t) \subseteq Cells /\ CellsOf(t)' \subseteq Cells
  BY DEF CellsOf, Cells, BaseCells, CommandCells, Magic, SetPointLow, SetPointHigh,
         PidMode, ProbeMagic, ProbeType
<1>2. Ops(CellsOf(t)) \subseteq Ops(Cells) /\ Ops(CellsOf(t)') \subseteq Ops(Cells)
  BY <1>1 DEF Ops, Puts
<1>. QED BY <1>2

\* A program that stores into cell c first
BeginsWith(ops, c) == ops # <<>> /\ Head(ops).op = "put" /\ Head(ops).cell = c

\* A thread begins: what must hold of its program and of the phase it begins
LEMMA StepBegin ==
  ASSUME StoreInv, NEW t \in Threads, NEW ops, Begin(t, ops), Unmoved,
         commands' \in 0..MaxCommands, phase' \in Phases,
         ops \in Seq(Ops(CellsOf(t)')),
         \A u \in Threads : u # t /\ ~Idle(u) => CellsOf(u)' = CellsOf(u),
         Serving <=> Serving',
         ~Serving' => t = "main",
         phase' # "base",
         phase' = "probes" =>
           ram[Magic] = MAGIC \/ BeginsWith(ops, Magic),
         phase' = "server" =>
           /\ ram[Magic] = MAGIC
           /\ ram[ProbeMagic] = MAGIC \/ BeginsWith(ops, ProbeMagic)
  PROVE  StoreInv'
<1>. USE DEF StoreInv
<1>1. /\ Idle(t) /\ program' = [program EXCEPT ![t] = ops]
      /\ UNCHANGED <<ram, file, pos, step, inUse, kept>>
  BY DEF Begin, Unmoved
<1>2. /\ raced' \in {"no", "commands", "reset"}
      /\ raced' = "no" => raced = "no" /\ \A u \in Threads : Idle(u)
      /\ raced' # "reset" => raced # "reset"
      /\ phase' = "resetting" /\ raced' # "reset" => \A u \in Threads : Idle(u)
      /\ (\A u \in Threads : Idle(u)) => raced' = raced
  BY DEF Begin, StoreTypes
<1>3. /\ program' \in [Threads -> Seq(Ops(Cells))] /\ program'[t] = ops
      /\ \A u \in Threads : u # t => program'[u] = program[u]
  BY <1>1, OpsGrow DEF StoreTypes
<1>4. \A u \in Threads : u # t =>
        Idle(u)' = Idle(u) /\ Writes(u)' = Writes(u) /\ Now(u)' = Now(u)
  BY <1>3 DEF Idle, Writes, Now
<1>5. step[t] = "store"
  BY <1>1 DEF StepInv, Writes, StoreTypes
<1>6. StoreTypes'
  <2>1. ASSUME NEW u \in Threads PROVE program'[u] \in Seq(Ops(CellsOf(u)'))
    <3>1. CASE u = t
      BY <1>3, <3>1
    <3>2. CASE u # t /\ Idle(u)
      BY <1>3, <3>2 DEF Idle
    <3>3. CASE u # t /\ ~Idle(u)
      BY <1>3, <3>3 DEF StoreTypes
    <3>. QED BY <3>1, <3>2, <3>3
  <2>. QED BY <1>1, <1>2, <1>3, <2>1 DEF StoreTypes
<1>7. StartInv'
  <2>1. ASSUME ~Serving' PROVE Idle("web")' /\ raced' = "no"
    BY <1>1, <1>2, <1>4, <2>1 DEF StartInv, Threads
  <2>. QED BY <2>1 DEF StartInv
<1>8. StepInv' /\ PosInv'
  <2>1. \A u \in Threads : step[u] # "store" => u # t
    BY <1>5
  <2>2. StepInv'
    BY <1>1, <1>4, <2>1 DEF StepInv
  <2>3. PosInv'
    BY <1>1, <1>2, <1>4, <1>5, <2>1 DEF PosInv, Threads
  <2>. QED BY <2>2, <2>3
<1>9. RaceInv'
  BY <1>2, <1>4 DEF RaceInv, Threads
<1>10. LagInv'
  <2>. SUFFICES ASSUME raced' = "no"
                PROVE  /\ \A u \in Threads : step[u] # "write"
                       /\ \A c \in Cells : file[c] = ram[c]
    BY <1>1 DEF LagInv
  <2>1. \A u \in Threads : Idle(u) /\ ~Writes(u)
    BY <1>2 DEF Writes
  <2>. QED BY <1>2, <2>1 DEF LagInv, StepInv
<1>11. MagicInv'
  <2>1. ASSUME t = "main", ops # <<>>
        PROVE  ~Idle("main")' /\ Now("main")' = Head(ops)
    BY <1>3, <2>1 DEF Idle, Now
  <2>2. phase' \in {"probes", "server"} => t = "main"
    BY DEF Serving
  <2>3. phase' = "probes" => MagicDue(Magic)'
    BY <1>1, <2>1, <2>2 DEF MagicDue, BeginsWith
  <2>4. phase' = "server" => ram'[Magic] = MAGIC /\ MagicDue(ProbeMagic)'
    BY <1>1, <2>1, <2>2 DEF MagicDue, BeginsWith
  <2>5. Serving' => file'[ProbeMagic] = MAGIC /\ (file'[Magic] = MAGIC \/ raced' = "reset")
    BY <1>1, <1>2 DEF MagicInv
  <2>. QED BY <2>3, <2>4, <2>5 DEF MagicInv
<1>. QED BY <1>6, <1>7, <1>8, <1>9, <1>10, <1>11

\* A command that thread t takes: storeSetPoint, storePidUnits, storeLidParam,
\* storeProbeTypeOrMap
LEMMA StepAccepted ==
  ASSUME StoreInv, NEW t \in Threads, NEW ops \in Seq(Ops(CommandCells)),
         Accepts(t), Begin(t, ops), Counted, Unmoved
  PROVE  StoreInv'
<1>. USE DEF Accepts, Counted
<1>1. phase' = phase /\ phase \in {"running", "resetting"} /\ (t = "main" => phase = "running")
  BY DEF Serving
<1>2. Serving /\ Serving' /\ \A u \in Threads : CellsOf(u)' = CellsOf(u)
  BY <1>1 DEF Serving, CellsOf
<1>3. CellsOf(t)' = CommandCells
  BY <1>1 DEF CellsOf
<1>4. commands' \in 0..MaxCommands
  BY StoreAssumption DEF StoreInv, StoreTypes
<1>5. phase' \in Phases
  BY <1>1 DEF Phases
<1>. QED BY <1>1, <1>2, <1>3, <1>4, <1>5, StepBegin

LEMMA StepCommand ==
  ASSUME StoreInv, NEW t \in Threads, Command(t)
  PROVE  StoreInv'
<1>. DEFINE S == Ops(CommandCells)
<1>1. SaveMode \in S
  BY Instructions
<1>0. STARTUP \in Bytes /\ MANUAL \in Bytes /\ OFF \in Bytes
      /\ STARTUP # MANUAL /\ OFF # MANUAL
  BY StoreAssumption DEF Bytes, STARTUP, MANUAL, OFF
<1>2. ASSUME NEW sp \in SetPoints, StoreSetPoint(t, sp) PROVE StoreInv'
  <2>. DEFINE a == Put(SetPointLow, Low(sp))
              b == Put(SetPointHigh, High(sp))
              u == Use(sp, STARTUP)
  <2>1. sp \in 1..(Byte * Byte - 1) /\ sp \in Words /\ STARTUP \in Bytes
    BY StoreAssumption DEF Words, Bytes, STARTUP
  <2>2. /\ SetPointLow \in CommandCells /\ SetPointHigh \in CommandCells
        /\ SetPointLow \notin {Magic, ProbeMagic} /\ SetPointHigh \notin {Magic, ProbeMagic}
    BY DEF CommandCells, SetPointLow, SetPointHigh, Magic, ProbeMagic
  <2>3. a \in S /\ b \in S /\ u \in S
    BY <2>1, <2>2, StoredBytes, Instructions
  <2>4. Accepts(t) /\ Begin(t, <<a, b, u, SaveMode>>) /\ Counted /\ Unmoved
    BY <1>2 DEF StoreSetPoint
  <2>. HIDE DEF a, b, u, S
  <2>5. <<a, b, u, SaveMode>> \in Seq(S)
    BY <1>1, <2>3
  <2>. QED BY <2>4, <2>5, StepAccepted DEF S
<1>3. ASSUME NEW m \in Bytes, StoreMode(t, m) PROVE StoreInv'
  <2>. DEFINE a == SetMode(m)
  <2>1. Accepts(t) /\ Begin(t, <<a, SaveMode>>) /\ Counted /\ Unmoved
    BY <1>3 DEF StoreMode
  <2>2. a \in S
    BY Instructions
  <2>. HIDE DEF S, a
  <2>3. <<a, SaveMode>> \in Seq(S)
    BY <1>1, <2>2
  <2>. QED BY <2>1, <2>3, StepAccepted DEF S
<1>5. ASSUME NEW m \in {STARTUP, OFF}, SwitchMode(t, m) PROVE StoreInv'
  <2>. DEFINE a == Switch(m)
  <2>1. Accepts(t) /\ Begin(t, <<a>>) /\ Counted /\ Unmoved
    BY <1>5 DEF SwitchMode
  <2>2. a \in S
    BY <1>0, Instructions
  <2>. HIDE DEF S, a
  <2>3. <<a>> \in Seq(S)
    BY <2>2
  <2>. QED BY <2>1, <2>3, StepAccepted DEF S
<1>4. ASSUME NEW type \in {0, INTERNAL}, StoreProbeType(t, type) PROVE StoreInv'
  <2>. DEFINE a == Put(ProbeType, type)
  <2>1. type \in Bytes
    BY StoreAssumption DEF Bytes, INTERNAL
  <2>2. ProbeType \in CommandCells /\ ProbeType \notin {Magic, ProbeMagic}
    BY DEF CommandCells, ProbeType, Magic, ProbeMagic
  <2>3. a \in S
    BY <2>1, <2>2, Instructions
  <2>4. Accepts(t) /\ Begin(t, <<a>>) /\ Counted /\ Unmoved
    BY <1>4 DEF StoreProbeType
  <2>. HIDE DEF a, S
  <2>5. <<a>> \in Seq(S)
    BY <2>3
  <2>. QED BY <2>4, <2>5, StepAccepted DEF S
<1>. QED BY <1>0, <1>2, <1>3, <1>4, <1>5 DEF Command

\* DEFAULT_CONFIG and DEFAULT_PROBE_CONFIG
LEMMA Defaults ==
  ASSUME NEW cells, BaseCells \subseteq cells
  PROVE  /\ DefaultBase \in Seq(Ops(cells)) /\ DefaultBase # <<>>
         /\ Head(DefaultBase).op = "put" /\ Head(DefaultBase).cell = Magic
         /\ <<Use(DefaultSetPoint, STARTUP)>> \in Seq(Ops(cells))
<1>. DEFINE S == Ops(cells)
            d1 == Put(Magic, MAGIC)
            d2 == Put(SetPointLow, Low(DefaultSetPoint))
            d3 == Put(SetPointHigh, High(DefaultSetPoint))
            d4 == Put(PidMode, STARTUP)
            u == Use(DefaultSetPoint, STARTUP)
<1>1. /\ DefaultSetPoint \in 1..(Byte * Byte - 1) /\ DefaultSetPoint \in Words
      /\ STARTUP \in Bytes /\ MAGIC \in Bytes
  BY StoreAssumption DEF Words, Bytes, STARTUP
<1>2. {Magic, SetPointLow, SetPointHigh, PidMode} \subseteq cells
  BY DEF BaseCells
<1>3. {SetPointLow, SetPointHigh, PidMode} \cap {Magic, ProbeMagic} = {}
  BY DEF SetPointLow, SetPointHigh, PidMode, Magic, ProbeMagic
<1>4. d1 \in S /\ d2 \in S /\ d3 \in S /\ d4 \in S /\ u \in S
  BY <1>1, <1>2, <1>3, StoredBytes, Instructions
<1>5. d1.op = "put" /\ d1.cell = Magic
  BY DEF Put
<1>6. DefaultBase = <<d1, d2, d3, d4>>
  BY DEF DefaultBase
<1>. HIDE DEF S, d1, d2, d3, d4, u
<1>7. <<d1, d2, d3, d4>> \in Seq(S) /\ <<u>> \in Seq(S)
  BY <1>4
<1>8. Head(<<d1, d2, d3, d4>>) = d1 /\ <<d1, d2, d3, d4>> # <<>>
  OBVIOUS
<1>. QED BY <1>5, <1>6, <1>7, <1>8 DEF S, u

LEMMA DefaultsOfProbes ==
  ASSUME NEW cells, ProbeType \in cells
  PROVE  DefaultProbes \in Seq(Ops(cells))
<1>. DEFINE S == Ops(cells)
            d == Put(ProbeType, INTERNAL)
<1>1. INTERNAL \in Bytes /\ ProbeType \notin {Magic, ProbeMagic}
  BY StoreAssumption DEF Bytes, INTERNAL, ProbeType, Magic, ProbeMagic
<1>2. d \in S
  BY <1>1, Instructions
<1>3. DefaultProbes = <<d>>
  BY DEF DefaultProbes
<1>. HIDE DEF S, d
<1>4. <<d>> \in Seq(S)
  BY <1>2
<1>. QED BY <1>3, <1>4 DEF S

LEMMA StepReset == StoreInv /\ (ResetConfig \/ ResetDone) => StoreInv'
<1>1. ASSUME StoreInv, ResetConfig PROVE StoreInv'
  <2>. DEFINE S == Ops(CommandCells \cup {Magic})
              u == <<Use(DefaultSetPoint, STARTUP)>>
              ops == DefaultBase \o u \o DefaultProbes
  <2>1. /\ phase = "running" /\ phase' = "resetting"
        /\ Begin("main", ops) /\ Counted /\ Unmoved
    BY <1>1 DEF ResetConfig
  <2>2. BaseCells \subseteq CommandCells \cup {Magic} /\ ProbeType \in CommandCells
    BY DEF BaseCells, CommandCells
  <2>3. DefaultBase \in Seq(S) /\ u \in Seq(S) /\ DefaultProbes \in Seq(S)
    BY <2>2, Defaults, DefaultsOfProbes
  <2>. HIDE DEF S, u
  <2>4. ops \in Seq(S)
    BY <2>3, ConcatProperties
  <2>. HIDE DEF ops
  <2>5. CellsOf("main")' = CommandCells \cup {Magic}
    BY <2>1 DEF CellsOf
  <2>6. \A t \in Threads : t # "main" => CellsOf(t)' = CellsOf(t)
    BY <2>1 DEF CellsOf
  <2>7. Serving /\ Serving' /\ phase' \in Phases
    BY <2>1 DEF Serving, Phases
  <2>8. commands' \in 0..MaxCommands
    BY <1>1, <2>1, StoreAssumption DEF StoreInv, StoreTypes, Counted
  <2>9. "main" \in Threads
    BY DEF Threads
  <2>. QED BY <1>1, <2>1, <2>4, <2>5, <2>6, <2>7, <2>8, <2>9, StepBegin DEF S
<1>2. ASSUME StoreInv, ResetDone PROVE StoreInv'
  <2>. USE DEF StoreInv
  <2>1. /\ phase = "resetting" /\ phase' = "running" /\ Idle("main")
        /\ UNCHANGED <<ram, file, pos, program, step, inUse, kept, commands, raced>>
    BY <1>2 DEF ResetDone
  <2>2. /\ \A t \in Threads : Idle(t)' = Idle(t) /\ Writes(t)' = Writes(t) /\ Now(t)' = Now(t)
        /\ Serving /\ Serving'
    BY <2>1 DEF Idle, Writes, Now, Serving
  <2>3. \A t \in Threads : (program[t] \in Seq(Ops(CellsOf(t))))'
    <3>1. program["main"] = <<>>
      BY <2>1 DEF Idle
    <3>2. CellsOf("web")' = CellsOf("web")
      BY <2>1 DEF CellsOf
    <3>. QED BY <1>2, <2>1, <3>1, <3>2 DEF StoreTypes, Threads
  <2>4. StoreTypes'
    BY <1>2, <2>1, <2>3 DEF StoreTypes, Phases
  <2>5. StartInv' /\ StepInv' /\ PosInv' /\ LagInv'
    BY <1>2, <2>1, <2>2 DEF StartInv, StepInv, PosInv, LagInv
  <2>6. RaceInv'
    BY <1>2, <2>1, <2>2 DEF RaceInv
  <2>7. MagicInv'
    BY <1>2, <2>1, <2>2 DEF MagicInv
  <2>. QED BY <2>4, <2>5, <2>6, <2>7
<1>. QED BY <1>1, <1>2

LEMMA StepLoadBase == StoreInv /\ LoadBaseConfig => StoreInv'
<1>. SUFFICES ASSUME StoreInv, LoadBaseConfig PROVE StoreInv'
  OBVIOUS
<1>. DEFINE S == Ops(BaseCells)
            u == Use(Word(ram), ram[PidMode])
            d == <<Use(DefaultSetPoint, STARTUP)>>
            ops == IF ram[Magic] # MAGIC THEN DefaultBase \o d ELSE <<u>>
<1>1. phase = "base" /\ phase' = "probes" /\ Begin("main", ops) /\ Unmoved
      /\ commands' = commands
  BY DEF LoadBaseConfig
<1>2. u \in S
  <2>1. ram \in [Cells -> Bytes] /\ {SetPointLow, SetPointHigh, PidMode} \subseteq Cells
    BY DEF StoreInv, StoreTypes, SetPointLow, SetPointHigh, PidMode, Cells
  <2>2. Word(ram) \in Words /\ ram[PidMode] \in Bytes
    BY <2>1, WordType DEF Word
  <2>. QED BY <2>2, Instructions
<1>3. /\ DefaultBase \in Seq(S) /\ DefaultBase # <<>> /\ d \in Seq(S)
      /\ Head(DefaultBase).op = "put" /\ Head(DefaultBase).cell = Magic
  BY Defaults
<1>. HIDE DEF S, u, d
<1>4. DefaultBase \o d \in Seq(S) /\ <<u>> \in Seq(S)
  BY <1>2, <1>3, ConcatProperties
<1>5. DefaultBase \o d # <<>> /\ Head(DefaultBase \o d) = Head(DefaultBase)
  <2>1. Len(DefaultBase) \in Nat \ {0} /\ Len(d) \in Nat
    BY <1>3, EmptySeq, LenProperties
  <2>2. Len(DefaultBase \o d) = Len(DefaultBase) + Len(d)
        /\ (DefaultBase \o d)[1] = DefaultBase[1]
    BY <1>3, <2>1, ConcatProperties
  <2>3. DefaultBase \o d # <<>>
    BY <2>1, <2>2
  <2>4. Head(DefaultBase \o d) = (DefaultBase \o d)[1] /\ Head(DefaultBase) = DefaultBase[1]
    BY <1>3, <1>4, <2>3
  <2>. QED BY <2>2, <2>3, <2>4
<1>6. ops \in Seq(S)
  BY <1>4
<1>7. ram[Magic] = MAGIC \/ BeginsWith(ops, Magic)
  BY <1>3, <1>5 DEF BeginsWith
<1>. HIDE DEF ops
<1>8. CellsOf("main")' = BaseCells /\ "main" \in Threads
  BY <1>1 DEF CellsOf, Threads
<1>9. \A t \in Threads : t # "main" => Idle(t)
  BY <1>1 DEF StoreInv, StartInv, Serving, Threads
<1>10. ~Serving /\ ~Serving' /\ phase' \in Phases /\ phase' # "server"
  BY <1>1 DEF Serving, Phases
<1>11. commands' \in 0..MaxCommands
  BY <1>1 DEF StoreInv, StoreTypes
<1>. QED BY <1>1, <1>6, <1>7, <1>8, <1>9, <1>10, <1>11, StepBegin DEF S

LEMMA StepLoadProbes == StoreInv /\ LoadProbeConfig => StoreInv'
<1>. SUFFICES ASSUME StoreInv, LoadProbeConfig PROVE StoreInv'
  OBVIOUS
<1>. DEFINE S == Ops({ProbeMagic, ProbeType})
            a == Put(ProbeMagic, MAGIC)
            b == Put(ProbeType, INTERNAL)
            ops == IF ram[ProbeMagic] # MAGIC THEN <<a>> \o DefaultProbes ELSE <<>>
<1>1. phase = "probes" /\ phase' = "server" /\ Begin("main", ops) /\ Unmoved
      /\ commands' = commands
  BY DEF LoadProbeConfig
<1>2. ram[Magic] = MAGIC
  <2>1. Idle("main")
    BY <1>1 DEF Begin
  <2>. QED BY <1>1, <2>1 DEF StoreInv, MagicInv, MagicDue
<1>3. a \in S /\ a.op = "put" /\ a.cell = ProbeMagic /\ DefaultProbes \in Seq(S)
  <2>1. MAGIC \in Bytes
    BY StoreAssumption DEF Bytes
  <2>2. a \in S
    BY <2>1, Instructions
  <2>. QED BY <2>2, DefaultsOfProbes DEF Put
<1>. HIDE DEF S, a
<1>4. <<a>> \in Seq(S) /\ <<>> \in Seq(S)
  BY <1>3
<1>5. <<a>> \o DefaultProbes \in Seq(S)
      /\ Len(<<a>> \o DefaultProbes) = 1 + Len(DefaultProbes)
      /\ (<<a>> \o DefaultProbes)[1] = a
  <2>1. Len(<<a>>) = 1 /\ <<a>>[1] = a /\ Len(DefaultProbes) \in Nat
    BY <1>3, LenProperties
  <2>. QED BY <1>3, <1>4, <2>1, ConcatProperties
<1>6. <<a>> \o DefaultProbes # <<>> /\ Head(<<a>> \o DefaultProbes) = a
  <2>1. Len(DefaultProbes) \in Nat
    BY <1>3, LenProperties
  <2>2. <<a>> \o DefaultProbes # <<>>
    BY <1>5, <2>1
  <2>. QED BY <1>5, <2>2
<1>7. ops \in Seq(S)
  BY <1>4, <1>5
<1>8. ram[ProbeMagic] = MAGIC \/ BeginsWith(ops, ProbeMagic)
  BY <1>3, <1>6 DEF BeginsWith
<1>. HIDE DEF ops
<1>9. CellsOf("main")' = {ProbeMagic, ProbeType} /\ "main" \in Threads
  BY <1>1 DEF CellsOf, Threads
<1>10. \A t \in Threads : t # "main" => Idle(t)
  BY <1>1 DEF StoreInv, StartInv, Serving, Threads
<1>11. ~Serving /\ ~Serving' /\ phase' \in Phases
  BY <1>1 DEF Serving, Phases
<1>12. commands' \in 0..MaxCommands
  BY <1>1 DEF StoreInv, StoreTypes
<1>. QED BY <1>1, <1>2, <1>7, <1>8, <1>9, <1>10, <1>11, <1>12, StepBegin DEF S

\* The server starts when both magic numbers are in the file.
LEMMA StepStartServer == StoreInv /\ StartServer => StoreInv'
<1>. SUFFICES ASSUME StoreInv, StartServer PROVE StoreInv'
  OBVIOUS
<1>. USE DEF StoreInv
<1>1. /\ phase = "server" /\ phase' = "running" /\ Idle("main")
      /\ UNCHANGED <<ram, file, pos, program, step, inUse, kept, commands, raced>>
  BY DEF StartServer
<1>2. raced = "no" /\ \A t \in Threads : Idle(t) /\ ~Writes(t)
  BY <1>1 DEF StartInv, Serving, Threads, Writes
<1>3. \A t \in Threads : step[t] = "store"
  BY <1>2 DEF StepInv
<1>4. \A c \in Cells : file[c] = ram[c]
  BY <1>2 DEF LagInv
<1>5. file[Magic] = MAGIC /\ file[ProbeMagic] = MAGIC
  <2>1. ram[Magic] = MAGIC /\ ram[ProbeMagic] = MAGIC
    BY <1>1 DEF MagicInv, MagicDue
  <2>. QED BY <1>4, <2>1 DEF Magic, ProbeMagic, Cells
<1>6. \A t \in Threads : Idle(t)'
  BY <1>1, <1>2 DEF Idle
<1>7. StoreTypes'
  <2>1. \A t \in Threads : program[t] = <<>>
    BY <1>2 DEF Idle
  <2>. QED BY <1>1, <2>1 DEF StoreTypes, Phases
<1>8. StartInv'
  BY <1>1 DEF StartInv, Serving
<1>9. StepInv' /\ PosInv' /\ LagInv'
  BY <1>1, <1>3, <1>4 DEF StepInv, PosInv, LagInv, Threads
<1>10. RaceInv'
  BY <1>6 DEF RaceInv, Threads
<1>11. MagicInv'
  BY <1>1, <1>5 DEF MagicInv
<1>. QED BY <1>7, <1>8, <1>9, <1>10, <1>11

\* A start, the first one or one after a power failure, from any file
LEMMA StartedInv ==
  ASSUME ram \in [Cells -> Bytes], file = ram, pos = 0, phase = "base",
         program = [t \in Threads |-> <<>>], step = [t \in Threads |-> "store"],
         inUse = [setPoint |-> 0, mode |-> STARTUP], kept = STARTUP, raced = "no",
         commands \in 0..MaxCommands
  PROVE  StoreInv
<1>1. \A t \in Threads : Idle(t) /\ step[t] = "store" /\ program[t] = <<>>
  BY DEF Idle
<1>2. 0 \in Words /\ STARTUP \in Bytes
  <2>1. Byte * Byte \in Nat /\ Byte * 1 <= Byte * Byte
    BY StoreAssumption, ProductMonotone
  <2>. QED BY <2>1, StoreAssumption DEF Words, Bytes, STARTUP
<1>3. program \in [Threads -> Seq(Ops(Cells))] /\ step \in [Threads -> {"store", "seek", "write"}]
  OBVIOUS
<1>4. StoreTypes
  BY <1>1, <1>2, <1>3 DEF StoreTypes, Phases, Cells, STARTUP, MANUAL
<1>5. StartInv /\ StepInv /\ PosInv /\ RaceInv /\ LagInv
  BY <1>1 DEF StartInv, StepInv, PosInv, RaceInv, LagInv, Threads
<1>6. MagicInv
  BY DEF MagicInv, Serving
<1>. QED BY <1>4, <1>5, <1>6 DEF StoreInv

LEMMA StoreInit == Init => StoreInv
<1>. SUFFICES ASSUME Init PROVE StoreInv
  OBVIOUS
<1>1. [c \in Cells |-> 0] \in [Cells -> Bytes] /\ 0 \in 0..MaxCommands
  BY StoreAssumption DEF Bytes
<1>. QED BY <1>1, StartedInv DEF Init, Started

LEMMA StepPowerFails == StoreInv /\ PowerFails => StoreInv'
<1>. SUFFICES ASSUME StoreInv, PowerFails PROVE StoreInv'
  OBVIOUS
<1>1. /\ ram' \in [Cells -> Bytes] /\ file' = ram' /\ pos' = 0 /\ phase' = "base"
      /\ program' = [t \in Threads |-> <<>>] /\ step' = [t \in Threads |-> "store"]
      /\ inUse' = [setPoint |-> 0, mode |-> STARTUP] /\ kept' = STARTUP /\ raced' = "no"
      /\ commands' \in 0..MaxCommands
  BY DEF PowerFails, StoreInv, StoreTypes
<1>2. \A t \in Threads : Idle(t)' /\ step'[t] = "store" /\ program'[t] = <<>>
  BY <1>1 DEF Idle
<1>3. 0 \in Words /\ STARTUP \in Bytes
  <2>1. Byte * Byte \in Nat /\ Byte * 1 <= Byte * Byte
    BY StoreAssumption, ProductMonotone
  <2>. QED BY <2>1, StoreAssumption DEF Words, Bytes, STARTUP
<1>4. program' \in [Threads -> Seq(Ops(Cells))]
      /\ step' \in [Threads -> {"store", "seek", "write"}]
  BY <1>1
<1>5. StoreTypes'
  BY <1>1, <1>2, <1>3, <1>4 DEF StoreTypes, Phases, Cells, STARTUP, MANUAL
<1>6. StartInv' /\ StepInv' /\ PosInv' /\ RaceInv' /\ LagInv'
  BY <1>1, <1>2 DEF StartInv, StepInv, PosInv, RaceInv, LagInv, Threads
<1>7. MagicInv'
  BY <1>1 DEF MagicInv, Serving
<1>. QED BY <1>5, <1>6, <1>7 DEF StoreInv

-----------------------------------------------------------------------------
(* What the rest of a program does.  As long as no two commands overlap, the *)
(* one being run ends with the set point in use and the mode kept stored.    *)

\* The configuration in memory is the one in use, but for a mode switched to.
Settled == Word(ram) = inUse.setPoint /\ ram[PidMode] = kept

\* A program that sets set point sp, as far as it is still to run: a command's,
\* a start's from no configuration, a reset's
DueOf(p, sp) ==
  LET g == Put(Magic, MAGIC)
      l == Put(SetPointLow, Low(sp))
      h == Put(SetPointHigh, High(sp))
      m == Put(PidMode, STARTUP)
      u == Use(sp, STARTUP)
      i == Put(ProbeType, INTERNAL)
  IN \/ p \in {<<g, l, h, m, u>>, <<g, l, h, m, u, i>>}
     \/ p \in {<<l, h, u, SaveMode>>, <<l, h, m, u>>, <<l, h, m, u, i>>}
     \/ p \in {<<h, u, SaveMode>>, <<h, m, u>>, <<h, m, u, i>>} /\ ram[SetPointLow] = Low(sp)
     \/ p \in {<<u, SaveMode>>, <<m, u>>, <<m, u, i>>} /\ Word(ram) = sp
     \/ p \in {<<u>>, <<u, i>>} /\ Word(ram) = sp /\ ram[PidMode] = STARTUP

\* What p, the rest of the program of the only thread with one, needs of memory
\* to end with memory settled
Due(p) ==
  \/ \E sp \in Words : DueOf(p, sp)
  \/ p = <<Use(Word(ram), ram[PidMode])>>
  \/ p = <<SaveMode>> /\ Word(ram) = inUse.setPoint /\ inUse.mode = kept
  \/ (\E m \in Bytes : p = <<SetMode(m), SaveMode>>) /\ Word(ram) = inUse.setPoint
  \/ /\ \/ p = <<>>
        \/ p = <<Put(ProbeMagic, MAGIC), Put(ProbeType, INTERNAL)>>
        \/ \E v \in Bytes : p = <<Put(ProbeType, v)>>
        \/ \E m \in Bytes : p = <<Switch(m)>>
     /\ Settled

\* Heads and tails of programs spelled out
LEMMA Tuples ==
  \A p, a, b, c, d, e, f :
    /\ p = <<a>> => Head(p) = a /\ Tail(p) = <<>>
    /\ p = <<a, b>> => Head(p) = a /\ Tail(p) = <<b>>
    /\ p = <<a, b, c>> => Head(p) = a /\ Tail(p) = <<b, c>>
    /\ p = <<a, b, c, d>> => Head(p) = a /\ Tail(p) = <<b, c, d>>
    /\ p = <<a, b, c, d, e>> => Head(p) = a /\ Tail(p) = <<b, c, d, e>>
    /\ p = <<a, b, c, d, e, f>> => Head(p) = a /\ Tail(p) = <<b, c, d, e, f>>
<1>. SUFFICES ASSUME NEW p, NEW a, NEW b, NEW c, NEW d, NEW e, NEW f
              PROVE  /\ p = <<a>> => Head(p) = a /\ Tail(p) = <<>>
                     /\ p = <<a, b>> => Head(p) = a /\ Tail(p) = <<b>>
                     /\ p = <<a, b, c>> => Head(p) = a /\ Tail(p) = <<b, c>>
                     /\ p = <<a, b, c, d>> => Head(p) = a /\ Tail(p) = <<b, c, d>>
                     /\ p = <<a, b, c, d, e>> => Head(p) = a /\ Tail(p) = <<b, c, d, e>>
                     /\ p = <<a, b, c, d, e, f>> =>
                          Head(p) = a /\ Tail(p) = <<b, c, d, e, f>>
  OBVIOUS
<1>1. p = <<a>> => Head(p) = a /\ Tail(p) = <<>>
  OBVIOUS
<1>2. p = <<a, b>> => Head(p) = a /\ Tail(p) = <<b>>
  OBVIOUS
<1>3. p = <<a, b, c>> => Head(p) = a /\ Tail(p) = <<b, c>>
  OBVIOUS
<1>4. p = <<a, b, c, d>> => Head(p) = a /\ Tail(p) = <<b, c, d>>
  OBVIOUS
<1>5. p = <<a, b, c, d, e>> => Head(p) = a /\ Tail(p) = <<b, c, d, e>>
  OBVIOUS
<1>6. p = <<a, b, c, d, e, f>> => Head(p) = a /\ Tail(p) = <<b, c, d, e, f>>
  OBVIOUS
<1>. QED BY <1>1, <1>2, <1>3, <1>4, <1>5, <1>6

LEMMA CellsApart ==
  /\ SetPointLow # SetPointHigh /\ SetPointLow # PidMode /\ SetPointHigh # PidMode
  /\ {Magic, ProbeMagic, ProbeType} \cap {SetPointLow, SetPointHigh, PidMode} = {}
  /\ {SetPointLow, SetPointHigh, PidMode, Magic, ProbeMagic, ProbeType} \subseteq Cells
BY DEF SetPointLow, SetPointHigh, PidMode, Magic, ProbeMagic, ProbeType, Cells

LEMMA WordOfBytes ==
  ASSUME NEW v \in Words
  PROVE  Low(v) + Byte * High(v) = v
BY StoreAssumption DEF Low, High, Words

\* What tells the instructions apart
LEMMA Fields ==
  /\ \A c, v : Put(c, v).op = "put" /\ Put(c, v).cell = c /\ Put(c, v).val = v
  /\ \A sp, n : Use(sp, n).op = "use" /\ Use(sp, n).setPoint = sp /\ Use(sp, n).mode = n
  /\ SaveMode.op = "save" /\ SaveMode.cell = PidMode
  /\ \A n : SetMode(n).op = "set" /\ SetMode(n).mode = n
  /\ \A n : Switch(n).op = "switch" /\ Switch(n).mode = n
BY DEF Put, Use, SaveMode, SetMode, Switch

\* A byte stored into memory is one the rest of the program does not depend on.
LEMMA DueStored ==
  ASSUME ram \in [Cells -> Bytes], NEW p, Due(p), p # <<>>, Head(p).op \in {"put", "save"},
         NEW b, ram' = [ram EXCEPT ![Head(p).cell] = b], UNCHANGED <<inUse, kept>>
  PROVE  Due(p)'
<1>. DEFINE c == Head(p).cell
<1>0. \A d \in Cells : d # c => ram'[d] = ram[d]
  OBVIOUS
<1>1. c # SetPointLow => ram'[SetPointLow] = ram[SetPointLow]
  BY <1>0, CellsApart
<1>2. c \notin {SetPointLow, SetPointHigh} => Word(ram)' = Word(ram)
  BY <1>0, CellsApart DEF Word
<1>3. c # PidMode => ram'[PidMode] = ram[PidMode]
  BY <1>0, CellsApart
<1>4. ASSUME NEW sp \in Words, DueOf(p, sp) PROVE DueOf(p, sp)'
  <2>. DEFINE g == Put(Magic, MAGIC)
              l == Put(SetPointLow, Low(sp))
              h == Put(SetPointHigh, High(sp))
              m == Put(PidMode, STARTUP)
              u == Use(sp, STARTUP)
              i == Put(ProbeType, INTERNAL)
  <2>1. h.cell = SetPointHigh /\ m.cell = PidMode /\ u.op = "use"
    BY Fields
  <2>2. CASE \/ p \in {<<g, l, h, m, u>>, <<g, l, h, m, u, i>>}
             \/ p \in {<<l, h, u, SaveMode>>, <<l, h, m, u>>, <<l, h, m, u, i>>}
    BY <2>2 DEF DueOf
  <2>3. CASE p \in {<<h, u, SaveMode>>, <<h, m, u>>, <<h, m, u, i>>} /\ ram[SetPointLow] = Low(sp)
    <3>. HIDE DEF h, m, u, i
    <3>1. Head(p) = h
      BY <2>3, Tuples
    <3>2. ram'[SetPointLow] = Low(sp)
      BY <1>1, <2>1, <2>3, <3>1, CellsApart
    <3>. QED BY <2>3, <3>2 DEF DueOf, h, m, u, i
  <2>4. CASE p \in {<<u, SaveMode>>, <<m, u>>, <<m, u, i>>} /\ Word(ram) = sp
    <3>. HIDE DEF h, m, u, i
    <3>1. Head(p) = m
      BY <2>1, <2>4, Tuples
    <3>2. Word(ram)' = sp
      BY <1>2, <2>1, <2>4, <3>1, CellsApart
    <3>. QED BY <2>4, <3>2 DEF DueOf, h, m, u, i
  <2>5. CASE p \in {<<u>>, <<u, i>>}
    <3>. HIDE DEF h, m, u, i
    <3>1. Head(p) = u
      BY <2>5, Tuples
    <3>. QED BY <2>1, <3>1
  <2>. QED BY <1>4, <2>2, <2>3, <2>4, <2>5 DEF DueOf
<1>5. CASE p = <<Use(Word(ram), ram[PidMode])>>
  <2>1. Head(p) = Use(Word(ram), ram[PidMode])
    BY <1>5, Tuples
  <2>. QED BY <2>1, Fields
<1>6. CASE p = <<SaveMode>> /\ Word(ram) = inUse.setPoint /\ inUse.mode = kept
  <2>1. Head(p) = SaveMode
    BY <1>6, Tuples
  <2>2. c = PidMode
    BY <2>1, Fields
  <2>3. Word(ram)' = inUse'.setPoint
    BY <1>2, <1>6, <2>2, CellsApart
  <2>. QED BY <1>6, <2>3 DEF Due
<1>8. CASE \E m \in Bytes : p = <<SetMode(m), SaveMode>> \/ p = <<Switch(m)>>
  <2>1. \E m \in Bytes : Head(p) = SetMode(m) \/ Head(p) = Switch(m)
    BY <1>8, Tuples
  <2>. QED BY <2>1, Fields
<1>7. CASE /\ \/ p = <<Put(ProbeMagic, MAGIC), Put(ProbeType, INTERNAL)>>
              \/ \E v \in Bytes : p = <<Put(ProbeType, v)>>
           /\ Settled
  <2>1. Head(p) = Put(ProbeMagic, MAGIC) \/ \E v \in Bytes : Head(p) = Put(ProbeType, v)
    BY <1>7, Tuples
  <2>2. c \in {ProbeMagic, ProbeType}
    BY <2>1, Fields
  <2>3. Settled'
    BY <1>2, <1>3, <1>7, <2>2, CellsApart DEF Settled
  <2>. QED BY <1>7, <2>3 DEF Due
<1>. QED BY <1>4, <1>5, <1>6, <1>7, <1>8 DEF Due

\* Once the next byte is in memory, what is left of the program is due.
LEMMA DueWritten ==
  ASSUME ram \in [Cells -> Bytes], NEW p, Due(p), p # <<>>,
         \/ Head(p).op = "put" /\ ram[Head(p).cell] = Head(p).val
         \/ Head(p).op = "save" /\ ram[Head(p).cell] = inUse.mode
  PROVE  Due(Tail(p))
<1>1. ASSUME NEW sp \in Words, DueOf(p, sp) PROVE Due(Tail(p))
  <2>. DEFINE g == Put(Magic, MAGIC)
              l == Put(SetPointLow, Low(sp))
              h == Put(SetPointHigh, High(sp))
              m == Put(PidMode, STARTUP)
              u == Use(sp, STARTUP)
              i == Put(ProbeType, INTERNAL)
  <2>1. /\ l.op = "put" /\ l.cell = SetPointLow /\ l.val = Low(sp)
        /\ h.op = "put" /\ h.cell = SetPointHigh /\ h.val = High(sp)
        /\ m.op = "put" /\ m.cell = PidMode /\ m.val = STARTUP
        /\ u.op = "use"
    BY Fields
  <2>. SUFFICES DueOf(Tail(p), sp)
    BY DEF Due
  <2>2. CASE p \in {<<g, l, h, m, u>>, <<g, l, h, m, u, i>>}
    <3>. HIDE DEF g, l, h, m, u, i
    <3>1. Tail(p) \in {<<l, h, m, u>>, <<l, h, m, u, i>>}
      BY <2>2, Tuples
    <3>. QED BY <3>1 DEF DueOf, g, l, h, m, u, i
  <2>3. CASE p \in {<<l, h, u, SaveMode>>, <<l, h, m, u>>, <<l, h, m, u, i>>}
    <3>. HIDE DEF g, l, h, m, u, i
    <3>1. Head(p) = l /\ Tail(p) \in {<<h, u, SaveMode>>, <<h, m, u>>, <<h, m, u, i>>}
      BY <2>3, Tuples
    <3>2. ram[SetPointLow] = Low(sp)
      BY <2>1, <3>1
    <3>. QED BY <3>1, <3>2 DEF DueOf, g, l, h, m, u, i
  <2>4. CASE p \in {<<h, u, SaveMode>>, <<h, m, u>>, <<h, m, u, i>>} /\ ram[SetPointLow] = Low(sp)
    <3>. HIDE DEF g, l, h, m, u, i
    <3>1. Head(p) = h /\ Tail(p) \in {<<u, SaveMode>>, <<m, u>>, <<m, u, i>>}
      BY <2>4, Tuples
    <3>2. Word(ram) = sp
      BY <2>1, <2>4, <3>1, WordOfBytes DEF Word
    <3>. QED BY <3>1, <3>2 DEF DueOf, g, l, h, m, u, i
  <2>5. CASE p \in {<<u, SaveMode>>, <<m, u>>, <<m, u, i>>} /\ Word(ram) = sp
    <3>. HIDE DEF g, l, h, m, u, i
    <3>1. Head(p) = m /\ Tail(p) \in {<<u>>, <<u, i>>}
      BY <2>1, <2>5, Tuples
    <3>2. ram[PidMode] = STARTUP
      BY <2>1, <3>1
    <3>. QED BY <2>5, <3>1, <3>2 DEF DueOf, g, l, h, m, u, i
  <2>6. CASE p \in {<<u>>, <<u, i>>}
    <3>. HIDE DEF g, l, h, m, u, i
    <3>1. Head(p) = u
      BY <2>6
    <3>. QED BY <2>1, <3>1
  <2>. QED BY <1>1, <2>2, <2>3, <2>4, <2>5, <2>6 DEF DueOf
<1>2. CASE p = <<Use(Word(ram), ram[PidMode])>>
  <2>1. Head(p) = Use(Word(ram), ram[PidMode])
    BY <1>2
  <2>. QED BY <2>1, Fields
<1>6. CASE \E m \in Bytes : p = <<SetMode(m), SaveMode>> \/ p = <<Switch(m)>>
  <2>1. \E m \in Bytes : Head(p) = SetMode(m) \/ Head(p) = Switch(m)
    BY <1>6, Tuples
  <2>. QED BY <2>1, Fields
<1>3. CASE p = <<SaveMode>> /\ Word(ram) = inUse.setPoint /\ inUse.mode = kept
  <2>1. Head(p) = SaveMode /\ Tail(p) = <<>>
    BY <1>3, Tuples
  <2>2. Settled
    BY <1>3, <2>1, Fields DEF Settled
  <2>. QED BY <2>1, <2>2 DEF Due
<1>4. CASE p = <<Put(ProbeMagic, MAGIC), Put(ProbeType, INTERNAL)>> /\ Settled
  <2>1. Tail(p) = <<Put(ProbeType, INTERNAL)>> /\ INTERNAL \in Bytes
    BY <1>4, StoreAssumption DEF INTERNAL, Bytes
  <2>. QED BY <1>4, <2>1 DEF Due
<1>5. CASE (\E v \in Bytes : p = <<Put(ProbeType, v)>>) /\ Settled
  <2>1. Tail(p) = <<>>
    BY <1>5
  <2>. QED BY <1>5, <2>1 DEF Due
<1>. QED BY <1>1, <1>2, <1>3, <1>4, <1>5, <1>6 DEF Due

\* The same of values put into use
LEMMA DueUsed ==
  ASSUME ram \in [Cells -> Bytes], inUse \in [setPoint : Words, mode : Bytes],
         NEW p, Due(p), p # <<>>, UNCHANGED ram,
         Head(p).op \in {"use", "set", "switch"},
         inUse' = IF Head(p).op = "use"
                    THEN [setPoint |-> Head(p).setPoint, mode |-> Head(p).mode]
                    ELSE [inUse EXCEPT !.mode = Head(p).mode],
         kept' = IF Head(p).op = "switch" THEN kept ELSE Head(p).mode
  PROVE  Due(Tail(p))'
<1>1. ASSUME NEW sp \in Words, DueOf(p, sp) PROVE Due(Tail(p))'
  <2>. DEFINE g == Put(Magic, MAGIC)
              l == Put(SetPointLow, Low(sp))
              h == Put(SetPointHigh, High(sp))
              m == Put(PidMode, STARTUP)
              u == Use(sp, STARTUP)
              i == Put(ProbeType, INTERNAL)
  <2>1. /\ g.op = "put" /\ l.op = "put" /\ h.op = "put" /\ m.op = "put"
        /\ u.op = "use" /\ u.setPoint = sp /\ u.mode = STARTUP
    BY Fields
  <2>2. CASE \/ p \in {<<g, l, h, m, u>>, <<g, l, h, m, u, i>>}
             \/ p \in {<<l, h, u, SaveMode>>, <<l, h, m, u>>, <<l, h, m, u, i>>}
             \/ p \in {<<h, u, SaveMode>>, <<h, m, u>>, <<h, m, u, i>>}
             \/ p \in {<<m, u>>, <<m, u, i>>}
    <3>. HIDE DEF g, l, h, m, u, i
    <3>1. Head(p) \in {g, l, h, m}
      BY <2>2
    <3>. QED BY <2>1, <3>1
  <2>3. CASE p = <<u, SaveMode>> /\ Word(ram) = sp
    <3>. HIDE DEF g, l, h, m, u, i
    <3>1. Head(p) = u /\ Tail(p) = <<SaveMode>>
      BY <2>3, Tuples
    <3>2. Word(ram)' = inUse'.setPoint /\ inUse'.mode = kept'
      BY <2>1, <2>3, <3>1 DEF Word
    <3>. QED BY <3>1, <3>2 DEF Due
  <2>4. CASE p \in {<<u>>, <<u, i>>} /\ Word(ram) = sp /\ ram[PidMode] = STARTUP
    <3>. HIDE DEF g, l, h, m, u
    <3>1. Head(p) = u /\ Tail(p) \in {<<>>, <<i>>}
      BY <2>4, Tuples
    <3>2. Settled'
      BY <2>1, <2>4, <3>1 DEF Word, Settled
    <3>3. INTERNAL \in Bytes
      BY StoreAssumption DEF INTERNAL, Bytes
    <3>. QED BY <3>1, <3>2, <3>3 DEF Due, i
  <2>. QED BY <1>1, <2>2, <2>3, <2>4 DEF DueOf
<1>2. CASE p = <<Use(Word(ram), ram[PidMode])>>
  <2>1. Head(p) = Use(Word(ram), ram[PidMode]) /\ Tail(p) = <<>>
    BY <1>2
  <2>2. Settled'
    BY <2>1, Fields DEF Settled, Word
  <2>. QED BY <2>1, <2>2 DEF Due
<1>3. ASSUME NEW m \in Bytes, p = <<SetMode(m), SaveMode>>, Word(ram) = inUse.setPoint
      PROVE  Due(Tail(p))'
  <2>1. Head(p) = SetMode(m) /\ Tail(p) = <<SaveMode>>
    BY <1>3, Tuples
  <2>2. Word(ram)' = inUse'.setPoint /\ inUse'.mode = kept'
    BY <1>3, <2>1, Fields DEF Word
  <2>. QED BY <2>1, <2>2 DEF Due
<1>5. ASSUME NEW m \in Bytes, p = <<Switch(m)>>, Settled
      PROVE  Due(Tail(p))'
  <2>1. Head(p) = Switch(m) /\ Tail(p) = <<>>
    BY <1>5
  <2>2. Settled'
    BY <1>5, <2>1, Fields DEF Settled, Word
  <2>. QED BY <2>1, <2>2 DEF Due
<1>6. CASE p = <<SaveMode>>
  <2>1. Head(p) = SaveMode
    BY <1>6
  <2>. QED BY <2>1, Fields
<1>4. CASE /\ \/ p = <<Put(ProbeMagic, MAGIC), Put(ProbeType, INTERNAL)>>
              \/ \E v \in Bytes : p = <<Put(ProbeType, v)>>
  <2>1. Head(p) = Put(ProbeMagic, MAGIC) \/ \E v \in Bytes : Head(p) = Put(ProbeType, v)
    BY <1>4
  <2>. QED BY <2>1, Fields
<1>. QED BY <1>1, <1>2, <1>3, <1>4, <1>5, <1>6 DEF Due

\* The byte a thread is about to write is in memory.
InMemory(t) ==
  step[t] # "store" =>
    ram[Now(t).cell] = IF Now(t).op = "save" THEN inUse.mode ELSE Now(t).val

UseInv ==
  raced = "no" /\ phase # "base" =>
    \E t \in Threads : /\ \A u \in Threads : u # t => Idle(u)
                      /\ Due(program[t]) /\ InMemory(t)

LEMMA NothingDue == Due(<<>>) => Settled
<1>1. \A a, b, c, d, e, f :
        /\ <<>> # <<a>> /\ <<>> # <<a, b>> /\ <<>> # <<a, b, c>> /\ <<>> # <<a, b, c, d>>
        /\ <<>> # <<a, b, c, d, e>> /\ <<>> # <<a, b, c, d, e, f>>
  OBVIOUS
<1>. QED BY <1>1, Zenon DEF Due, DueOf

LEMMA UseIdle ==
  ASSUME StoreInv, UseInv, raced = "no", phase # "base", \A t \in Threads : Idle(t)
  PROVE  Settled
<1>1. PICK t \in Threads : Due(program[t])
  BY DEF UseInv
<1>2. program[t] = <<>>
  BY DEF Idle
<1>. QED BY <1>1, <1>2, NothingDue

LEMMA UseBusy ==
  ASSUME StoreInv, UseInv, raced = "no", phase # "base", NEW t \in Threads, ~Idle(t)
  PROVE  /\ \A u \in Threads : u # t => Idle(u)
         /\ Due(program[t]) /\ InMemory(t)
BY DEF UseInv

LEMMA UseStep ==
  ASSUME StoreInv, UseInv, NEW t \in Threads, Step(t)
  PROVE  UseInv'
<1>. SUFFICES ASSUME raced' = "no", phase' # "base"
              PROVE  /\ \A u \in Threads : u # t => Idle(u)'
                     /\ Due(program[t])' /\ InMemory(t)'
  BY DEF UseInv
<1>1. ~Idle(t) /\ UNCHANGED <<phase, raced>>
  BY DEF Step, StoreByte, Seek, WriteByte, PutIntoUse, Writes
<1>2. raced = "no" /\ phase # "base"
  BY <1>1
<1>3. /\ \A u \in Threads : u # t => Idle(u)
      /\ Due(program[t]) /\ InMemory(t) /\ program[t] # <<>>
  BY <1>1, <1>2, UseBusy DEF Idle
<1>4. /\ ram \in [Cells -> Bytes] /\ inUse \in [setPoint : Words, mode : Bytes]
      /\ DOMAIN program = Threads /\ DOMAIN step = Threads
  BY DEF StoreInv, StoreTypes
<1>5. CASE StoreByte(t)
  <2>. DEFINE b == IF Now(t).op = "save" THEN inUse.mode ELSE Now(t).val
  <2>1. /\ Writes(t) /\ step' = [step EXCEPT ![t] = "seek"]
        /\ ram' = [ram EXCEPT ![Now(t).cell] = b]
        /\ UNCHANGED <<program, inUse, kept>>
    BY <1>5 DEF StoreByte
  <2>2. Now(t) = Head(program[t]) /\ Now(t).op \in {"put", "save"}
    BY <2>1 DEF Now, Writes
  <2>3. Now(t).cell \in Cells
    BY <2>1, NowWrites, CellsAre DEF StoreInv
  <2>4. ram'[Now(t).cell] = b
    BY <1>4, <2>1, <2>3
  <2>5. InMemory(t)'
    BY <2>1, <2>4 DEF InMemory, Now
  <2>. HIDE DEF b
  <2>6. ram' = [ram EXCEPT ![Head(program[t]).cell] = b] /\ Head(program[t]).op \in {"put", "save"}
    BY <2>1, <2>2
  <2>7. PICK p : p = program[t]
    OBVIOUS
  <2>8. Due(p)'
    BY <1>3, <1>4, <2>1, <2>6, <2>7, DueStored
  <2>9. Due(program[t])'
    BY <2>1, <2>7, <2>8
  <2>. QED BY <1>3, <2>1, <2>5, <2>9 DEF Idle
<1>6. CASE Seek(t)
  <2>1. step[t] = "seek" /\ UNCHANGED <<ram, program, inUse, kept>>
    BY <1>6 DEF Seek
  <2>2. Due(program[t])'
    BY <1>3, <2>1 DEF Due, DueOf, Settled, Word
  <2>. QED BY <1>3, <2>1, <2>2 DEF Idle, InMemory, Now
<1>7. CASE WriteByte(t)
  <2>1. /\ Writes(t) /\ step[t] = "write" /\ step' = [step EXCEPT ![t] = "store"]
        /\ program' = [program EXCEPT ![t] = Tail(program[t])]
        /\ UNCHANGED <<ram, inUse, kept>>
    BY <1>7 DEF WriteByte
  <2>2. Now(t) = Head(program[t]) /\ Now(t).op \in {"put", "save"}
    BY <2>1 DEF Now, Writes
  <2>3. Due(Tail(program[t]))
    BY <1>3, <1>4, <2>1, <2>2, DueWritten DEF InMemory
  <2>4. program'[t] = Tail(program[t]) /\ step'[t] = "store"
        /\ \A u \in Threads : u # t => program'[u] = program[u]
    BY <1>4, <2>1
  <2>5. Due(program[t])'
    BY <2>1, <2>3, <2>4 DEF Due, DueOf, Settled, Word
  <2>. QED BY <1>3, <2>4, <2>5 DEF Idle, InMemory
<1>8. CASE PutIntoUse(t)
  <2>1. /\ program' = [program EXCEPT ![t] = Tail(program[t])]
        /\ UNCHANGED <<ram, step>>
        /\ Now(t).op \in {"use", "set", "switch"}
        /\ inUse' = IF Now(t).op = "use"
                      THEN [setPoint |-> Now(t).setPoint, mode |-> Now(t).mode]
                      ELSE [inUse EXCEPT !.mode = Now(t).mode]
        /\ kept' = IF Now(t).op = "switch" THEN kept ELSE Now(t).mode
    BY <1>8 DEF PutIntoUse
  <2>2. PICK p : p = program[t]
    OBVIOUS
  <2>3. Now(t) = Head(p)
    BY <2>2 DEF Now
  <2>4. Due(Tail(p))'
    BY <1>3, <1>4, <2>1, <2>2, <2>3, DueUsed
  <2>5. program'[t] = Tail(p) /\ \A u \in Threads : u # t => program'[u] = program[u]
    BY <1>4, <2>1, <2>2
  <2>6. step[t] = "store"
    BY <1>8 DEF StoreInv, StepInv, PutIntoUse, Writes
  <2>. QED BY <1>3, <2>1, <2>4, <2>5, <2>6 DEF Idle, InMemory
<1>. QED BY <1>5, <1>6, <1>7, <1>8 DEF Step

\* A thread begins a program that is due.
LEMMA UseBegin ==
  ASSUME StoreInv, NEW t \in Threads, NEW ops, Begin(t, ops), Unmoved,
         raced' = "no" => Due(ops)
  PROVE  UseInv'
<1>. SUFFICES ASSUME raced' = "no"
              PROVE  /\ \A u \in Threads : u # t => Idle(u)'
                     /\ Due(program[t])' /\ InMemory(t)'
  BY DEF UseInv
<1>1. /\ Idle(t) /\ program' = [program EXCEPT ![t] = ops]
      /\ UNCHANGED <<ram, step, inUse, kept>> /\ \A u \in Threads : Idle(u)
  BY DEF Begin, Unmoved
<1>2. program'[t] = ops /\ \A u \in Threads : u # t => program'[u] = program[u]
  BY <1>1 DEF StoreInv, StoreTypes
<1>3. Due(program[t])'
  BY <1>1, <1>2 DEF Due, DueOf, Settled, Word
<1>4. step[t] = "store"
  BY <1>1 DEF StoreInv, StepInv, StoreTypes, Writes
<1>. QED BY <1>1, <1>2, <1>3, <1>4 DEF Idle, InMemory

\* Between commands the configuration in memory is the one in use, so a command
\* may begin on it.
LEMMA UseRest ==
  ASSUME StoreInv, UseInv, NEW t \in Threads, NEW ops, Begin(t, ops), phase # "base",
         raced' = "no"
  PROVE  Settled
<1>1. (\A u \in Threads : Idle(u)) /\ raced = "no"
  BY DEF Begin
<1>. QED BY <1>1, UseIdle

LEMMA UseCommand ==
  ASSUME StoreInv, UseInv, NEW t \in Threads, Command(t)
  PROVE  UseInv'
<1>1. phase # "base" /\ Unmoved
  BY DEF Command, StoreSetPoint, StoreMode, SwitchMode, StoreProbeType, Accepts, Serving
<1>0. STARTUP \in Bytes /\ MANUAL \in Bytes /\ OFF \in Bytes
  BY StoreAssumption DEF Bytes, STARTUP, MANUAL, OFF
<1>2. ASSUME NEW sp \in SetPoints, StoreSetPoint(t, sp) PROVE UseInv'
  <2>. DEFINE ops == <<Put(SetPointLow, Low(sp)), Put(SetPointHigh, High(sp)),
                       Use(sp, STARTUP), SaveMode>>
  <2>1. Begin(t, ops)
    BY <1>2 DEF StoreSetPoint
  <2>2. sp \in Words
    BY StoreAssumption DEF Words
  <2>3. Due(ops)
    BY <2>2 DEF Due, DueOf
  <2>. HIDE DEF ops
  <2>. QED BY <1>1, <2>1, <2>3, UseBegin
<1>3. ASSUME NEW m \in Bytes, StoreMode(t, m) PROVE UseInv'
  <2>. DEFINE ops == <<SetMode(m), SaveMode>>
  <2>1. Begin(t, ops)
    BY <1>3 DEF StoreMode
  <2>2. raced' = "no" => Due(ops)
    <3>. SUFFICES ASSUME raced' = "no" PROVE Due(ops)
      OBVIOUS
    <3>. HIDE DEF ops
    <3>1. Settled
      BY <1>1, <2>1, UseRest
    <3>. QED BY <3>1 DEF Due, Settled, ops
  <2>. HIDE DEF ops
  <2>. QED BY <1>1, <2>1, <2>2, UseBegin
<1>5. ASSUME NEW m \in Bytes, SwitchMode(t, m) PROVE UseInv'
  <2>. DEFINE ops == <<Switch(m)>>
  <2>1. Begin(t, ops)
    BY <1>5 DEF SwitchMode
  <2>2. raced' = "no" => Due(ops)
    <3>. SUFFICES ASSUME raced' = "no" PROVE Due(ops)
      OBVIOUS
    <3>. HIDE DEF ops
    <3>1. Settled
      BY <1>1, <2>1, UseRest
    <3>. QED BY <3>1 DEF Due, ops
  <2>. HIDE DEF ops
  <2>. QED BY <1>1, <2>1, <2>2, UseBegin
<1>4. ASSUME NEW type \in {0, INTERNAL}, StoreProbeType(t, type) PROVE UseInv'
  <2>. DEFINE ops == <<Put(ProbeType, type)>>
  <2>1. Begin(t, ops)
    BY <1>4 DEF StoreProbeType
  <2>2. raced' = "no" => Due(ops)
    <3>. SUFFICES ASSUME raced' = "no" PROVE Due(ops)
      OBVIOUS
    <3>. HIDE DEF ops
    <3>1. Settled
      BY <1>1, <2>1, UseRest
    <3>2. type \in Bytes
      BY StoreAssumption DEF Bytes, INTERNAL
    <3>. QED BY <3>1, <3>2 DEF Due, ops
  <2>. HIDE DEF ops
  <2>. QED BY <1>1, <2>1, <2>2, UseBegin
<1>. QED BY <1>0, <1>2, <1>3, <1>4, <1>5 DEF Command

\* A sequence one longer
LEMMA Extended ==
  ASSUME NEW S, NEW s \in Seq(S), NEW t \in Seq(S), NEW a \in S, Len(t) = Len(s) + 1,
         \A k \in 1..Len(s) : t[k] = s[k], t[Len(s) + 1] = a
  PROVE  s \o <<a>> = t
<1>1. <<a>> \in Seq(S) /\ Len(<<a>>) = 1 /\ <<a>>[1] = a /\ Len(s) \in Nat
  BY LenProperties
<1>2. s \o <<a>> \in Seq(S) /\ Len(s \o <<a>>) = Len(s) + 1
      /\ \A k \in 1..Len(s \o <<a>>) : (s \o <<a>>)[k] = IF k <= Len(s) THEN s[k] ELSE <<a>>[k - Len(s)]
  BY <1>1, ConcatProperties
<1>3. \A k \in 1..Len(t) : (s \o <<a>>)[k] = t[k]
  BY <1>1, <1>2
<1>. QED BY <1>2, <1>3, SeqEqual

\* The programs of a start and of a reset, spelled out
LEMMA DefaultsSpelledOut ==
  LET g == Put(Magic, MAGIC)
      l == Put(SetPointLow, Low(DefaultSetPoint))
      h == Put(SetPointHigh, High(DefaultSetPoint))
      m == Put(PidMode, STARTUP)
      u == Use(DefaultSetPoint, STARTUP)
      i == Put(ProbeType, INTERNAL)
  IN /\ DefaultBase \o <<u>> = <<g, l, h, m, u>>
     /\ DefaultBase \o <<u>> \o DefaultProbes = <<g, l, h, m, u, i>>
     /\ <<Put(ProbeMagic, MAGIC)>> \o DefaultProbes = <<Put(ProbeMagic, MAGIC), i>>
<1>. DEFINE g == Put(Magic, MAGIC)
            l == Put(SetPointLow, Low(DefaultSetPoint))
            h == Put(SetPointHigh, High(DefaultSetPoint))
            m == Put(PidMode, STARTUP)
            u == Use(DefaultSetPoint, STARTUP)
            i == Put(ProbeType, INTERNAL)
            a == Put(ProbeMagic, MAGIC)
<1>1. DefaultBase = <<g, l, h, m>> /\ DefaultProbes = <<i>>
  BY DEF DefaultBase, DefaultProbes
<1>. HIDE DEF g, l, h, m, u, i, a
<1>2. /\ <<g, l, h, m>> \o <<u>> = <<g, l, h, m, u>>
      /\ <<g, l, h, m, u>> \o <<i>> = <<g, l, h, m, u, i>>
      /\ <<a>> \o <<i>> = <<a, i>>
  <2>. DEFINE S == {g, l, h, m, u, i, a}
              s1 == <<a>>  s2 == <<a, i>>  s4 == <<g, l, h, m>>
              s5 == <<g, l, h, m, u>>  s6 == <<g, l, h, m, u, i>>
  <2>1. /\ s1 \in Seq(S) /\ Len(s1) = 1 /\ s1[1] = a
        /\ s2 \in Seq(S) /\ Len(s2) = 2 /\ s2[1] = a /\ s2[2] = i
    OBVIOUS
  <2>2. /\ s4 \in Seq(S) /\ Len(s4) = 4
        /\ s4[1] = g /\ s4[2] = l /\ s4[3] = h /\ s4[4] = m
    OBVIOUS
  <2>3. /\ s5 \in Seq(S) /\ Len(s5) = 5
        /\ s5[1] = g /\ s5[2] = l /\ s5[3] = h /\ s5[4] = m /\ s5[5] = u
    OBVIOUS
  <2>4. /\ s6 \in Seq(S) /\ Len(s6) = 6
        /\ s6[1] = g /\ s6[2] = l /\ s6[3] = h /\ s6[4] = m /\ s6[5] = u /\ s6[6] = i
    OBVIOUS
  <2>0. u \in S /\ i \in S
    OBVIOUS
  <2>. HIDE DEF S, s1, s2, s4, s5, s6
  <2>5. /\ Len(s5) = Len(s4) + 1 /\ s5[Len(s4) + 1] = u
        /\ \A k \in 1..Len(s4) : s5[k] = s4[k]
    <3>1. \A k \in 1..4 : k = 1 \/ k = 2 \/ k = 3 \/ k = 4
      OBVIOUS
    <3>. QED BY <2>2, <2>3, <3>1
  <2>6. /\ Len(s6) = Len(s5) + 1 /\ s6[Len(s5) + 1] = i
        /\ \A k \in 1..Len(s5) : s6[k] = s5[k]
    <3>1. \A k \in 1..5 : k = 1 \/ k = 2 \/ k = 3 \/ k = 4 \/ k = 5
      OBVIOUS
    <3>. QED BY <2>3, <2>4, <3>1
  <2>7. /\ Len(s2) = Len(s1) + 1 /\ s2[Len(s1) + 1] = i
        /\ \A k \in 1..Len(s1) : s2[k] = s1[k]
    BY <2>1
  <2>8. s4 \o <<u>> = s5
    <3>1. s4 \in Seq(S) /\ s5 \in Seq(S) /\ u \in S
      BY <2>0, <2>2, <2>3
    <3>. QED BY <2>5, <3>1, Extended, ZenonT(30)
  <2>9. s5 \o <<i>> = s6
    <3>1. s5 \in Seq(S) /\ s6 \in Seq(S) /\ i \in S
      BY <2>0, <2>3, <2>4
    <3>. QED BY <2>6, <3>1, Extended, ZenonT(30)
  <2>10. s1 \o <<i>> = s2
    <3>1. s1 \in Seq(S) /\ s2 \in Seq(S) /\ i \in S
      BY <2>0, <2>1
    <3>. QED BY <2>7, <3>1, Extended, ZenonT(30)
  <2>. QED BY <2>8, <2>9, <2>10 DEF s1, s2, s4, s5, s6
<1>3. /\ DefaultBase \o <<u>> = <<g, l, h, m, u>>
      /\ DefaultBase \o <<u>> \o DefaultProbes = <<g, l, h, m, u, i>>
      /\ <<a>> \o DefaultProbes = <<a, i>>
  BY <1>1, <1>2, Zenon
<1>. QED BY <1>3 DEF g, l, h, m, u, i, a

LEMMA UseStart ==
  ASSUME StoreInv, UseInv, Start
  PROVE  UseInv'
<1>1. ASSUME LoadBaseConfig PROVE UseInv'
  <2>. DEFINE fresh == DefaultBase \o <<Use(DefaultSetPoint, STARTUP)>>
              loaded == <<Use(Word(ram), ram[PidMode])>>
              ops == IF ram[Magic] # MAGIC THEN fresh ELSE loaded
  <2>1. Begin("main", ops) /\ Unmoved /\ "main" \in Threads
    BY <1>1 DEF LoadBaseConfig, Threads
  <2>2. DefaultSetPoint \in Words
    BY StoreAssumption DEF Words
  <2>3. Due(fresh)
    <3>1. DueOf(fresh, DefaultSetPoint)
      BY DefaultsSpelledOut, Zenon DEF DueOf
    <3>. QED BY <2>2, <3>1 DEF Due
  <2>4. Due(loaded)
    BY DEF Due
  <2>. HIDE DEF fresh, loaded
  <2>5. Due(ops)
    BY <2>3, <2>4
  <2>. HIDE DEF ops
  <2>. QED BY <2>1, <2>5, UseBegin
<1>2. ASSUME LoadProbeConfig PROVE UseInv'
  <2>. DEFINE fresh == <<Put(ProbeMagic, MAGIC)>> \o DefaultProbes
              ops == IF ram[ProbeMagic] # MAGIC THEN fresh ELSE <<>>
  <2>1. Begin("main", ops) /\ Unmoved /\ "main" \in Threads /\ phase # "base"
    BY <1>2 DEF LoadProbeConfig, Threads
  <2>2. raced' = "no" => Due(ops)
    <3>. SUFFICES ASSUME raced' = "no" PROVE Due(ops)
      OBVIOUS
    <3>1. Settled
      <4>. HIDE DEF ops
      <4>. QED BY <2>1, UseRest
    <3>2. fresh = <<Put(ProbeMagic, MAGIC), Put(ProbeType, INTERNAL)>>
      BY DefaultsSpelledOut, Zenon
    <3>3. Due(fresh) /\ Due(<<>>)
      <4>. HIDE DEF fresh
      <4>. QED BY <3>1, <3>2 DEF Due
    <3>. HIDE DEF fresh
    <3>. QED BY <3>3
  <2>. HIDE DEF ops
  <2>. QED BY <2>1, <2>2, UseBegin
<1>3. ASSUME StartServer PROVE UseInv'
  <2>1. phase # "base" /\ UNCHANGED <<ram, program, step, inUse, kept, raced>>
    BY <1>3 DEF StartServer
  <2>. QED BY <2>1 DEF UseInv, Due, DueOf, Settled, Word, InMemory, Now, Idle
<1>. QED BY <1>1, <1>2, <1>3 DEF Start

LEMMA UseReset ==
  ASSUME StoreInv, UseInv, ResetConfig \/ ResetDone
  PROVE  UseInv'
<1>1. CASE ResetConfig
  <2>. DEFINE ops == DefaultBase \o <<Use(DefaultSetPoint, STARTUP)>> \o DefaultProbes
  <2>1. Begin("main", ops) /\ Unmoved /\ "main" \in Threads
    BY <1>1 DEF ResetConfig, Threads
  <2>2. DefaultSetPoint \in Words
    BY StoreAssumption DEF Words
  <2>3. DueOf(ops, DefaultSetPoint)
    BY DefaultsSpelledOut, Zenon DEF DueOf
  <2>4. Due(ops)
    BY <2>2, <2>3 DEF Due
  <2>. HIDE DEF ops
  <2>. QED BY <2>1, <2>4, UseBegin
<1>2. CASE ResetDone
  <2>1. phase # "base" /\ UNCHANGED <<ram, program, step, inUse, kept, raced>>
    BY <1>2 DEF ResetDone
  <2>. QED BY <2>1 DEF UseInv, Due, DueOf, Settled, Word, InMemory, Now, Idle
<1>. QED BY <1>1, <1>2

LEMMA UseNext == StoreInv /\ UseInv /\ [Next]_vars => UseInv'
<1>. SUFFICES ASSUME StoreInv, UseInv, [Next]_vars PROVE UseInv'
  OBVIOUS
<1>1. CASE PowerFails
  BY <1>1 DEF PowerFails, UseInv
<1>2. CASE UNCHANGED vars
  BY <1>2 DEF vars, UseInv, Due, DueOf, Settled, Word, InMemory, Now, Idle
<1>. QED BY <1>1, <1>2, UseStep, UseCommand, UseStart, UseReset DEF Next

-----------------------------------------------------------------------------
(* The theorems                                                            *)

LEMMA StoreNext == StoreInv /\ [Next]_vars => StoreInv'
<1>. SUFFICES ASSUME StoreInv, [Next]_vars PROVE StoreInv'
  OBVIOUS
<1>1. ASSUME NEW t \in Threads, Step(t) PROVE StoreInv'
  BY <1>1, StepStoreByte, StepSeek, StepWriteByte, StepPutIntoUse DEF Step
<1>2. ASSUME NEW t \in Threads, Command(t) PROVE StoreInv'
  BY <1>2, StepCommand
<1>3. CASE Start
  BY <1>3, StepLoadBase, StepLoadProbes, StepStartServer DEF Start
<1>4. CASE ResetConfig \/ ResetDone
  BY <1>4, StepReset
<1>5. CASE PowerFails
  BY <1>5, StepPowerFails
<1>6. CASE UNCHANGED vars
  <2>. USE <1>6 DEF vars, StoreInv
  <2>1. /\ \A t \in Threads : Idle(t)' = Idle(t) /\ Writes(t)' = Writes(t) /\ Now(t)' = Now(t)
        /\ Serving' = Serving
        /\ \A t \in Threads : CellsOf(t)' = CellsOf(t)
    BY DEF Idle, Writes, Now, Serving, CellsOf
  <2>2. StoreTypes'
    BY <2>1 DEF StoreTypes
  <2>3. StartInv' /\ StepInv' /\ PosInv' /\ RaceInv' /\ LagInv'
    BY <2>1 DEF StartInv, StepInv, PosInv, RaceInv, LagInv, Threads
  <2>4. MagicInv'
    BY <2>1 DEF MagicInv, MagicDue, Threads, Idle, Now
  <2>. QED BY <2>2, <2>3, <2>4
<1>. QED BY <1>1, <1>2, <1>3, <1>4, <1>5, <1>6 DEF Next

LEMMA StoreSafe == Spec => []StoreInv
<1>. QED BY StoreInit, StoreNext, PTL DEF Spec

\* Whatever start, command, reset or power failure comes when, as long as no two
\* commands overlap the file lacks at most the byte being written
\* (HMConfig::econfig_write_byte).
THEOREM FileLagsAtMostOneByte == Spec => []FileLagsOneByte
<1>1. StoreInv => FileLagsOneByte
  <2>. SUFFICES ASSUME StoreInv PROVE FileLagsOneByte
    OBVIOUS
  <2>1. TypeOK
    BY DEF StoreInv, StoreTypes, TypeOK, Bytes, Words
  <2>. QED BY <2>1 DEF StoreInv, LagInv, FileLagsOneByte
<1>. QED BY <1>1, StoreSafe, PTL

\* Overlapping commands spoil no magic number but, with a reset among them, the
\* base block's: no write that lost its position lands there.
THEOREM MagicsAlwaysSurvive == Spec => []MagicsSurvive
<1>1. StoreInv => MagicsSurvive
  BY DEF StoreInv, MagicInv, MagicsSurvive
<1>. QED BY <1>1, StoreSafe, PTL

\* Whatever commands, resets, starts and power failures came before, as long as
\* no two of them overlapped, between commands the file holds the set point in
\* use and the mode that a start, a reset or a command that stores it put into
\* use last; a switch to OFF or to lid mode that is not stored is not in the
\* file, and a manual output in use is (storeSetPoint, storePidMode,
\* storePidUnits, storeLidParam, eepromLoadConfig).
THEOREM StoredAlwaysInUse == Spec => []StoredIsInUse
<1>1. Init => UseInv
  BY DEF Init, Started, UseInv
<1>2. StoreInv /\ UseInv => StoredIsInUse
  <2>. SUFFICES ASSUME StoreInv, UseInv, Serving, raced = "no", \A t \in Threads : Idle(t)
                PROVE  /\ Word(file) = inUse.setPoint /\ file[PidMode] = kept
                       /\ inUse.mode = MANUAL => kept = MANUAL
    BY DEF StoredIsInUse
  <2>1. Settled
    BY UseIdle DEF Serving
  <2>2. \A c \in Cells : file[c] = ram[c]
    BY DEF StoreInv, LagInv, Writes
  <2>3. inUse.mode = MANUAL => kept = MANUAL
    BY DEF StoreInv, StoreTypes
  <2>. QED BY <2>1, <2>2, <2>3, CellsApart DEF Settled, Word
<1>. QED BY <1>1, <1>2, StoreSafe, UseNext, PTL DEF Spec
=============================================================================
