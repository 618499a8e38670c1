------------------------------ MODULE Signals -------------------------------
(***************************************************************************)
(* What tells the cook that something is up: the probes' alarms, the alarm *)
(* screen and the LEDs, on top of the control core.                        *)
(*                                                                         *)
(* A period is one pass of hmcoreLoop in which doWork returns true: the    *)
(* probes' processPeriod, the control, then newTempsAvail with checkAlarms *)
(* and publishLeds.  An alarm is numbered as ALARM_ID does: 2p is the low  *)
(* alarm of probe p, 2p + 1 the high one.                                  *)
(***************************************************************************)
EXTENDS GrillPid, LedManager

CONSTANTS
  Leds,          \* the LEDs
  LedConfs,      \* the stimuli an LED may be assigned to
  LowLimits,     \* alarm limits asked for; a negative one disables, 0 silences
  HighLimits

VARIABLES
  threshold,     \* Thresholds[], by alarm
  armed,         \* Armed[]
  ringing,       \* Ringing[]
  stored,        \* alarmLow and alarmHigh in /etc/hm.cfg
  alarmId,       \* g_AlarmId
  alarmShown,    \* Menus.getState() == ST_HOME_ALARM
  leds,          \* LedManager::_leds and what the hardware shows
  blinkCount     \* _blinkCount, its parity

alarmVars  == <<threshold, armed, ringing, stored>>
screenVars == <<alarmId, alarmShown>>
ledVars    == <<leds, blinkCount>>
sigVars    == <<vars, alarmVars, screenVars, ledVars>>

Alarms    == 0..(2 * TempCount - 1)
ProbeOf(a) == a \div 2
IsHigh(a)  == a % 2 = 1
Limits(a)  == IF IsHigh(a) THEN HighLimits ELSE LowLimits

\* The LED stimuli (LEDSTIMULUS_*): Alarm0L + a for alarm a, and what
\* publishLeds publishes.
LED_Off            == 0
LED_Alarm0L        == 1
LED_LidOpen        == 10
LED_FanOn          == 11
LED_PitTempReached == 12
LED_FanMax         == 13
LED_AlarmAny       == 14
LED_Startup        == 15
LED_Recovery       == 16
StatusStimuli == {LED_Off, LED_LidOpen, LED_FanOn, LED_PitTempReached, LED_FanMax,
                  LED_Startup, LED_Recovery}
AlarmStimuli  == {LED_Alarm0L + a : a \in Alarms} \cup {LED_AlarmAny}
Stimuli       == StatusStimuli \cup AlarmStimuli

ASSUME SignalsAssumption ==
  /\ LowLimits \cup HighLimits \subseteq Int
  /\ TempCount <= 4
  /\ LedConfs \subseteq Stimuli /\ LedConfs # {}

-----------------------------------------------------------------------------
(* ProbeAlarm                                                              *)

Enabled(a) == threshold[a] > 0

\* A low alarm arms a degree above its limit and goes off below it; a high one
\* arms more than a degree below its limit and goes off at it.
Arms(a, t) ==
  IF IsHigh(a) THEN t < threshold[a] - 1 ELSE t >= threshold[a] + 1

GoesOff(a, t) ==
  IF IsHigh(a) THEN t >= threshold[a] ELSE t < threshold[a]

\* processPeriod calls updateStatus for a probe with a temperature while the
\* controller is not off, and silenceAll otherwise.
Watched(a) == hasTemp'[ProbeOf(a)] /\ ~isDisabled

\* Mutant: an alarm goes off without having been armed.
UpdateAlarmsUnarmed ==
  /\ armed' = [a \in Alarms |->
       Watched(a) /\ (armed[a] \/ (Enabled(a) /\ Arms(a, temperature'[ProbeOf(a)])))]
  /\ ringing' = [a \in Alarms |->
       /\ Watched(a) /\ ~isLidOpen
       /\ ringing[a] \/ (Enabled(a) /\ GoesOff(a, temperature'[ProbeOf(a)]))]

\* Mutant: an open lid, or OFF, does not quiet the alarms.
UpdateAlarmsAlways ==
  LET t(a) == temperature'[ProbeOf(a)] IN
  /\ armed' = [a \in Alarms |-> armed[a] \/ (Enabled(a) /\ Arms(a, t(a)))]
  /\ ringing' = [a \in Alarms |->
       ringing[a] \/ (armed[a] /\ Enabled(a) /\ GoesOff(a, t(a)))]

UpdateAlarms ==
  /\ armed' = [a \in Alarms |->
       Watched(a) /\ (armed[a] \/ (Enabled(a) /\ Arms(a, temperature'[ProbeOf(a)])))]
  /\ ringing' = [a \in Alarms |->
       /\ Watched(a) /\ ~isLidOpen
       /\ ringing[a] \/ /\ armed[a] /\ Enabled(a)
                        /\ GoesOff(a, temperature'[ProbeOf(a)])]

\* Mutant: a changed limit, or silencing, leaves the alarm armed.
setThresholdArmed(a, value) ==
  /\ ringing' = [ringing EXCEPT ![a] = FALSE]
  /\ threshold' = [threshold EXCEPT ![a] = IF value = 0 THEN @ ELSE value]
  /\ UNCHANGED armed

\* Mutant: 0 is stored as a limit.
setThresholdZero(a, value) ==
  /\ armed' = [armed EXCEPT ![a] = FALSE]
  /\ ringing' = [ringing EXCEPT ![a] = FALSE]
  /\ threshold' = [threshold EXCEPT ![a] = value]

\* setThreshold: 0 only silences
setThreshold(a, value) ==
  /\ armed' = [armed EXCEPT ![a] = FALSE]
  /\ ringing' = [ringing EXCEPT ![a] = FALSE]
  /\ threshold' = [threshold EXCEPT ![a] = IF value = 0 THEN @ ELSE value]

\* TempProbe::loadConfig, for every probe
LoadAlarms(limits) ==
  /\ armed' = [a \in Alarms |-> FALSE]
  /\ ringing' = [a \in Alarms |-> FALSE]
  /\ threshold' = limits

-----------------------------------------------------------------------------
(* checkAlarms and publishLeds                                             *)

AnyRinging == \E a \in Alarms : ringing[a]

\* Mutant: the alarm is chosen when the first one rings, and kept.
CheckAlarmsStale ==
  /\ alarmId' = IF AnyRinging' /\ ~AnyRinging
                  THEN CHOOSE a \in Alarms :
                         ringing'[a] /\ \A b \in Alarms : ringing'[b] => b <= a
                  ELSE alarmId
  /\ alarmShown' = AnyRinging'

\* The last ringing alarm is the one shown, and the one a button silences.
CheckAlarms ==
  /\ alarmId' = IF AnyRinging'
                  THEN CHOOSE a \in Alarms :
                         ringing'[a] /\ \A b \in Alarms : ringing'[b] => b <= a
                  ELSE alarmId
  /\ alarmShown' = AnyRinging'

\* What is true of each stimulus publishLeds and checkAlarms publish
Truth(stimulus) ==
  CASE stimulus = LED_Off            -> FALSE
    [] stimulus = LED_LidOpen        -> isLidOpen
    [] stimulus = LED_FanOn          -> pidOutput # 0
    [] stimulus = LED_PitTempReached -> pidMode = "NORMAL"
    [] stimulus = LED_FanMax         -> pidOutput >= 100
    [] stimulus = LED_AlarmAny       -> AnyRinging
    [] stimulus = LED_Startup        -> pidMode = "STARTUP"
    [] stimulus = LED_Recovery       -> pidMode = "RECOVERY"
    [] OTHER                         -> ringing[stimulus - LED_Alarm0L]

truths == [stimulus \in Stimuli |-> Truth(stimulus)]

PublishAll(published) ==
  leds' = [l \in Leds |->
    IF leds[l].stimulus \in published
      THEN Publish(leds[l], truths'[leds[l].stimulus]) ELSE leds[l]]

-----------------------------------------------------------------------------
\* A period: doWork has new temperatures, newTempsAvail acts on them.
newTempsAvail ==
  /\ doWork
  /\ UpdateAlarms
  /\ CheckAlarms
  /\ PublishAll(Stimuli)
  /\ UNCHANGED <<threshold, stored, blinkCount>>

\* LedManager::doWork, once its half second is over
LedWork ==
  /\ blinkCount' = 1 - blinkCount
  /\ leds' = [l \in Leds |-> Blink(leds[l], blinkCount')]
  /\ UNCHANGED <<vars, alarmVars, screenVars>>

\* "/set?al="
StoreAlarmLimit(a, value) ==
  /\ setThreshold(a, value)
  /\ stored' = [stored EXCEPT ![a] = IF value = 0 THEN @ ELSE value]
  /\ UNCHANGED <<vars, screenVars, ledVars>>

\* Any button on the alarm screen silences the alarm shown and goes home.
SilenceRingingAlarm ==
  /\ Panel /\ alarmShown
  /\ setThreshold(alarmId, 0)
  /\ alarmShown' = FALSE
  /\ UNCHANGED <<vars, stored, alarmId, ledVars>>

\* "/set?lb=", for an LED that exists.  The home display mode of the same
\* command (storeLcdParam, case 1) falls through to storeLedConf(255, ...), a
\* store beyond the LEDs that no model here follows.
StoreLedConf(l, stimulus, invert) ==
  /\ leds' = [leds EXCEPT ![l] = Assign(@, stimulus, invert)]
  /\ UNCHANGED <<vars, alarmVars, screenVars, blinkCount>>

ControlCommand ==
  /\ Setting \/ LidCommand
  /\ UNCHANGED <<alarmVars, screenVars, ledVars>>

\* The home screen: LEFT publishes the LEDs at once, the alarms' aside.
HomeButton ==
  /\ ~alarmShown
  /\ \/ ToggleOff /\ UNCHANGED leds
     \/ (\E step \in ManualSteps : AdjustManual(step)) /\ UNCHANGED leds
     \/ ToggleLid /\ PublishAll(StatusStimuli)
  /\ UNCHANGED <<alarmVars, screenVars, blinkCount>>

\* The stored limits and assignments are loaded; the self test lights the LEDs.
Reboot ==
  /\ Restart
  /\ LoadAlarms(stored)
  /\ alarmId' = 0 /\ alarmShown' = FALSE
  /\ blinkCount' = 1
  /\ leds' = [l \in Leds |-> SelfTest(leds[l].stimulus, leds[l].invert)]
  /\ UNCHANGED stored

SigInit ==
  /\ Init
  /\ threshold = [a \in Alarms |-> -1] /\ stored = threshold
  /\ armed = [a \in Alarms |-> FALSE] /\ ringing = armed
  /\ alarmId = 0 /\ alarmShown = FALSE
  /\ blinkCount = 1
  /\ \E conf \in [Leds -> LedConfs] : leds = [l \in Leds |-> SelfTest(conf[l], FALSE)]

SigNext ==
  \/ newTempsAvail
  \/ LedWork
  \/ \E a \in Alarms : \E value \in Limits(a) : StoreAlarmLimit(a, value)
  \/ SilenceRingingAlarm
  \/ \E l \in Leds, stimulus \in LedConfs, invert \in BOOLEAN :
       StoreLedConf(l, stimulus, invert)
  \/ ControlCommand
  \/ HomeButton
  \/ Reboot

\* The main thread never stops.
SigSpec == SigInit /\ [][SigNext]_sigVars /\ WF_sigVars(newTempsAvail) /\ WF_sigVars(LedWork)

-----------------------------------------------------------------------------
SigTypeOK ==
  /\ threshold \in [Alarms -> Int \ {0}] /\ stored \in [Alarms -> Int \ {0}]
  /\ armed \in [Alarms -> BOOLEAN] /\ ringing \in [Alarms -> BOOLEAN]
  /\ alarmId \in Alarms /\ alarmShown \in BOOLEAN
  /\ leds \in [Leds -> Led(Stimuli)] /\ blinkCount \in {0, 1}
  /\ \A l \in Leds : leds[l].lit => leds[l].on # "Off"

\* An alarm rings only while its limit is in force and the temperature has
\* been on the safe side of it since the alarm was last silenced or moved
\* ("A low alarm set for 100 enables at 101.0 and goes off at 99.9999").
RingsOnlyIfArmed ==
  /\ SigTypeOK
  /\ \A a \in Alarms : ringing[a] => armed[a] /\ Enabled(a)

\* While the controller is off or the lid open, a period leaves no alarm
\* ringing and takes the alarm screen down ("OFF - Output, alarms, and lid
\* detect disabled").
QuietWhenOffOrLidOpen ==
  [][ newTempsAvail /\ (isDisabled \/ isLidOpen) => ~AnyRinging' /\ ~alarmShown' ]_sigVars

\* The probes stay where the alarms would go off, or are silent themselves.
Trouble ==
  \A a \in Alarms :
    hasTemp[ProbeOf(a)] => ~Enabled(a) \/ ~Arms(a, temperature[ProbeOf(a)])

\* With the temperatures staying in trouble, pressing a button at every alarm
\* screen silences every alarm for good, however many ring: each press takes
\* one that rings, and a silenced one does not come back.
PressingSilencesAll ==
  /\ <>[][newTempsAvail \/ LedWork \/ SilenceRingingAlarm]_sigVars
  /\ <>[]Trouble
  /\ SF_sigVars(SilenceRingingAlarm)
  => <>[](~AnyRinging)

\* A one-shot ends.
OneShotEnds == \A l \in Leds : leds[l].on = "OneShot" ~> leds[l].on # "OneShot"

=============================================================================
