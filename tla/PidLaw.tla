------------------------------- MODULE PidLaw -------------------------------
(***************************************************************************)
(* The control law inside the control core: what calcPidOutput makes of    *)
(* the error, and what becomes of the integral through lid events, lost    *)
(* probes, commands and restarts.                                          *)
(*                                                                         *)
(* The terms are counted in steps of Unit percent; the halving rounds      *)
(* down.  The D term follows the history of the temperature and may be any *)
(* of Drifts.  regulated is a history variable: the output in effect is    *)
(* the one the law computed last.                                          *)
(***************************************************************************)
EXTENDS LidEvents

CONSTANTS
  Unit,          \* percent per step
  Kp,            \* Pid[PIDP], steps per degree
  Kis,           \* values of Pid[PIDI], steps per degree
  Drifts,        \* values of the D term
  StartupSpeed,  \* _fanMaxStartupSpeed
  IntegralBound  \* bound on the integral

ASSUME LawAssumption ==
  /\ Unit \in Nat \ {0} /\ Kp \in Nat /\ Kis \subseteq Nat
  /\ Drifts \subseteq Int /\ StartupSpeed \in 0..100 /\ IntegralBound \in Nat
  /\ {Clamp(Unit * n, 0, 100) : n \in 0..100} \subseteq Levels

VARIABLES
  ki,        \* Pid[PIDI]
  integral,  \* _pidCurrent[PIDI]
  regulated

pidVars == <<lidVars, ki, integral, regulated>>

-----------------------------------------------------------------------------
\* error of calcPidOutput, of the temperature just measured
error == setPoint - temperature'[ctrl]

getPidIMax == IF pidMode = "NORMAL" THEN 100 ELSE StartupSpeed

\* Mutant: the integral grows whatever the output was.
MayAccumulateAlways == error # 0

\* "anti-windup: Make sure we only adjust the I term while inside the
\* proportional control range"
MayAccumulate ==
  \/ error < 0 /\ pidOutput > 0
  \/ error > 0 /\ pidOutput < getPidIMax

NotNegative(i) == IF i < 0 THEN 0 ELSE i

Accumulated == IF MayAccumulate THEN NotNegative(integral + ki * error) ELSE integral

Output(i, d) == Clamp(Unit * (Kp * error + i + d), 0, 100)

\* calcPidOutput gets past its two early returns.
InControl == pidMode \in AutoModes /\ hasTemp'[ctrl] /\ ~isLidOpen

\* Mutant: the integral is halved all through the startup.
HalvedThroughout(i) == IF pidMode = "STARTUP" THEN i \div 2 ELSE i

\* "When we first achieve temperature, reduce any I sum we accumulated during
\* startup"
Halved(i) == IF pidMode = "STARTUP" /\ AtSetPoint THEN i \div 2 ELSE i

\* A lid event that begins in this period drops the output again.
LidJustOpened == isLidOpen' /\ ~isLidOpen

\* doWork, with the law in charge of the output and d for its D term
LawPeriod(d) ==
  /\ UNCHANGED ki
  /\ Period
  /\ IF InControl
       THEN /\ pidOutput' = IF LidJustOpened THEN 0 ELSE Output(Accumulated, d)
            /\ integral' = Halved(Accumulated)
            /\ regulated' = ~LidJustOpened
       ELSE /\ integral' = Halved(integral)
            /\ regulated' = FALSE
  /\ integral' <= IntegralBound

SomePeriod == \E d \in Drifts : LawPeriod(d)

\* storePidParam with 'i'; the constant is stored at once.
StorePidConstant(k) ==
  /\ ki' = k
  /\ integral' = IF k = 0 THEN 0 ELSE integral
  /\ UNCHANGED <<lidVars, regulated>>

\* Every other command, and the panel, leave the terms alone.
OtherCommand ==
  /\ LidSwitched \/ Commanded
  /\ regulated' = (regulated /\ pidOutput' = pidOutput)
  /\ UNCHANGED <<ki, integral>>

Restarting ==
  /\ Restarted
  /\ integral' = 0 /\ regulated' = FALSE
  /\ UNCHANGED ki

LawInit ==
  /\ LidInit
  /\ ki \in Kis /\ integral = 0 /\ regulated = FALSE

LawNext ==
  SomePeriod \/ (\E k \in Kis : StorePidConstant(k)) \/ OtherCommand \/ Restarting

\* main calls hmcoreLoop for ever; nothing obliges an operator to do anything.
LawSpec == LawInit /\ [][LawNext]_pidVars /\ WF_pidVars(SomePeriod)

-----------------------------------------------------------------------------
Errors == {sp - t : sp \in SetPoints, t \in Temps}

\* With the integral at i, some error and drift leave room below full power.
BelowFullPower(i) == \E e \in Errors, d \in Drifts : Unit * (Kp * e + i + d) < 100

\* As long as the law stays in control, an integral that gives full power
\* whatever the other terms are grows no further.  Only the first period after
\* an interruption, which finds the output at 0 and takes it for room to
\* regulate in, may add to it: a lid event, a probe without a reading, a
\* command.
WindupOnlyAfterInterruption ==
  [][ integral' > integral /\ regulated => BelowFullPower(integral) ]_pidVars

\* From some time on there are only periods, the law is in control and the
\* temperature stands still.
Undisturbed ==
  /\ <>[][LawPeriod(0)]_pidVars
  /\ <>[](pidMode \in AutoModes /\ ~isLidOpen /\ hasTemp[ctrl] /\ ki # 0)

\* A standing error is not left standing: a pit that stays too cold, however
\* little, ends with all the power its mode may accumulate, one that stays too
\* hot with none.  No anti-windup, halving or earlier windup keeps the integral
\* from it.
ErrorIsWorkedOff ==
  Undisturbed =>
    /\ <>[](temperature[ctrl] < setPoint) => <>[](pidOutput >= getPidIMax)
    /\ <>[](temperature[ctrl] > setPoint) => <>[](pidOutput = 0)
=============================================================================
