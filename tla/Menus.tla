------------------------------- MODULE Menus --------------------------------
(***************************************************************************)
(* The panel's menu: MenuSystem (src/src/menus.cpp) run over the tables    *)
(* and handlers of src/src/hmmenus.cpp.                                    *)
(*                                                                         *)
(* The main thread reads the buttons, turns the readings into events,      *)
(* gives an event to the handler of the screen shown (HandleEvent) and     *)
(* then moves to the next screen (Settle).  Between the two the handler    *)
(* has written to the display, and the server's thread, which shows a      *)
(* toast by calling setState itself, may run.  A toast, a settle and the   *)
(* alarm check of a measurement period are each taken in one step.         *)
(*                                                                         *)
(* A setting is a number 0..Top that the menu moves by one; Top + 1 stands *)
(* for the values a command accepts and the menu does not offer.           *)
(***************************************************************************)
EXTENDS Integers

CONSTANTS
  Top,         \* the largest value a number menu offers
  Edited,      \* the menus in which the cook presses UP or DOWN
  ActiveSets,  \* the sets of probes below the pit that may have a temperature
  MaxToasts    \* bound: toasts shown in a behaviour

ASSUME MenusAssumption == Top \in Nat \ {0} /\ MaxToasts \in Nat

VARIABLES
  state,       \* m_state, and with it m_currMenu
  lastState,   \* m_lastState
  lastButton,  \* m_lastButton
  buttonState, \* m_buttonState
  repeatCnt,   \* m_buttonRepeatCnt, up to RepeatMax
  event,       \* the event being handled in doWork, "NONE" when there is none
  result,      \* what the handler returned for it
  editInt,     \* editInt
  pid,         \* the settings the menus show and store
  active,      \* the home screens whose probe has a temperature
  toasts,      \* toasts shown so far
  sampled,     \* the buttons have been read since the last period
  held,        \* history: the last reading of the buttons
  acts,        \* history: what LEFT has done on the home screens since pressed
  raced,       \* history: since then a toast has come between the handler and
               \* Settle of an event of LEFT on a home screen
  touched      \* history: the value shown was edited, or a setting commanded

buttonVars == <<lastButton, buttonState, repeatCnt>>
screenVars == <<state, lastState, editInt, pid, touched>>
vars == <<screenVars, buttonVars, event, result, active, toasts, sampled, held, acts, raced>>

-----------------------------------------------------------------------------
ProbeScreens == {"HOME_FOOD1", "HOME_FOOD2", "HOME_AMB"}
HomeScreens  == ProbeScreens \cup {"HOME_NOPROBES"}
NumberMenus  == {"SETPOINT", "LCDBACKLIGHT", "MAXFANSPEED", "PROBEOFF0", "PROBEOFF1",
                 "PROBEOFF2", "PROBEOFF3", "LIDOPEN_OFF", "LIDOPEN_DUR"}
EditMenus    == NumberMenus \cup {"MANUALMODE", "RESETCONFIG"}
States       == HomeScreens \cup EditMenus \cup {"HOME_ALARM", "TOAST"}

\* What readButton can return, and the events doWork makes of it.
Readings     == {"NONE", "LEFT", "RIGHT", "UP", "DOWN"}
ButtonEvents == Readings \cup {"LONG_LEFT", "TIMEOUT"}

RepeatMax == 4   \* the test is m_buttonRepeatCnt > 3

Clamp(v, lo, hi) == IF v < lo THEN lo ELSE IF v > hi THEN hi ELSE v

\* Mutant: the edit menus' entries lack their timeout.
TimesOutAtHome(s) == s \in HomeScreens \cup {"TOAST"}

\* MENU_DEFINITIONS: all but the alarm screen have a timeout, and only the
\* home screens a long press, of LEFT.
TimesOut(s)        == s # "HOME_ALARM"
HasLongpress(s, b) == s \in HomeScreens /\ b \in {"LEFT", "LONG_LEFT"}

\* MENU_TRANSITIONS
Below == [HOME_FOOD1 |-> "HOME_FOOD2", HOME_FOOD2 |-> "HOME_AMB",
          HOME_AMB |-> "HOME_FOOD1", HOME_NOPROBES |-> "HOME_FOOD1"]
Above == [HOME_FOOD1 |-> "HOME_AMB", HOME_FOOD2 |-> "HOME_FOOD1",
          HOME_AMB |-> "HOME_FOOD2", HOME_NOPROBES |-> "HOME_AMB"]
Right == [SETPOINT |-> "MANUALMODE", MANUALMODE |-> "LCDBACKLIGHT",
          LCDBACKLIGHT |-> "MAXFANSPEED", MAXFANSPEED |-> "PROBEOFF0",
          PROBEOFF0 |-> "PROBEOFF1", PROBEOFF1 |-> "PROBEOFF2",
          PROBEOFF2 |-> "PROBEOFF3", PROBEOFF3 |-> "LIDOPEN_OFF",
          LIDOPEN_OFF |-> "LIDOPEN_DUR", LIDOPEN_DUR |-> "RESETCONFIG",
          RESETCONFIG |-> "SETPOINT"]

findTransition(s, b) ==
  CASE s \in HomeScreens /\ b \in {"DOWN", "TIMEOUT"} -> Below[s]
    [] s \in HomeScreens /\ b = "UP"                  -> Above[s]
    [] s \in HomeScreens /\ b = "RIGHT"               -> "SETPOINT"
    [] s \in EditMenus /\ b \in {"LEFT", "TIMEOUT"}   -> "HOME_FOOD1"
    [] s \in EditMenus /\ b = "RIGHT"                 -> Right[s]
    [] OTHER                                          -> s

-----------------------------------------------------------------------------
\* The settings: the controller's mode and a value for every number menu.  The
\* lid duration has a minimum, 1 here.
Settings == [mode : {"auto", "manual", "off"},
             setting : {f \in [NumberMenus -> 0..(Top + 1)] : f["LIDOPEN_DUR"] >= 1}]

Default == [mode |-> "auto", setting |-> [m \in NumberMenus |-> 1]]

\* storeSetPoint: a value above 0 is a set point, 0 a manual output.
storeSetPoint(p, v) ==
  IF v > 0 THEN [p EXCEPT !.mode = "auto", !.setting["SETPOINT"] = v]
           ELSE [p EXCEPT !.mode = "manual"]

\* A lid duration is raised to its minimum.
storeNumber(p, m, v) ==
  [p EXCEPT !.setting[m] = IF m = "LIDOPEN_DUR" THEN Clamp(v, 1, Top + 1) ELSE v]

\* Probe offsets and the lid's numbers are stored whenever their menu is left,
\* the rest only when the value v shown for menu m differs from the setting.
StoredAlways == {"PROBEOFF0", "PROBEOFF1", "PROBEOFF2", "PROBEOFF3",
                 "LIDOPEN_OFF", "LIDOPEN_DUR"}
Stores(p, m, v) ==
  CASE m \in StoredAlways  -> TRUE
    [] m = "MANUALMODE"    -> (v # 0) # (p.mode = "manual")
    [] m = "RESETCONFIG"   -> v # 0
    [] OTHER               -> v # p.setting[m]

\* The handlers at BUTTON_LEAVE: the settings once screen s has been left with
\* v in editInt.
Leave(s, p, v) ==
  IF s \notin EditMenus \/ ~Stores(p, s, v) THEN p
  ELSE CASE s = "SETPOINT"    -> storeSetPoint(p, v)
         [] s = "MANUALMODE"  -> storeSetPoint(p, IF v # 0 THEN 0 ELSE p.setting["SETPOINT"])
         [] s = "RESETCONFIG" -> Default
         [] OTHER             -> storeNumber(p, s, v)

\* Mutant: the reset menu keeps the value of the menu before it.
EnterKept(s, p, v) ==
  CASE s = "MANUALMODE"   -> IF p.mode = "manual" THEN 1 ELSE 0
    [] s \in NumberMenus  -> Clamp(p.setting[s], 0, Top)
    [] OTHER              -> v

\* The handlers at BUTTON_ENTER: editInt once screen s has been entered.
Enter(s, p, v) ==
  CASE s = "MANUALMODE"   -> IF p.mode = "manual" THEN 1 ELSE 0
    [] s = "RESETCONFIG"  -> 0
    [] s \in NumberMenus  -> Clamp(p.setting[s], 0, Top)
    [] OTHER              -> v

\* The screen menuHome settles on when s is asked for: the next one, downwards,
\* whose probe has a temperature.
Shown(s) ==
  CASE s \notin ProbeScreens \ active                     -> s
    [] s \in ProbeScreens /\ active = {}                  -> "HOME_NOPROBES"
    [] s \in ProbeScreens \ active /\ Below[s] \in active -> Below[s]
    [] OTHER                                              -> Below[Below[s]]

\* MenuSystem::setState
setState(s) ==
  /\ lastState' = state
  /\ IF s = state
       THEN UNCHANGED <<state, editInt, pid, repeatCnt, touched>>
       ELSE LET stored == Leave(state, pid, editInt) IN
            /\ state' = Shown(s)
            /\ pid' = stored
            /\ editInt' = Enter(Shown(s), stored, editInt)
            /\ repeatCnt' = 0
            /\ touched' = FALSE

-----------------------------------------------------------------------------
\* menuHome, but for the lid countdown and the manual output, which are
\* GrillPid's: a long LEFT switches the controller off and on again.
HomeHandler(b) ==
  /\ state \in HomeScreens
  /\ pid' = IF b = "LONG_LEFT"
              THEN [pid EXCEPT !.mode = IF pid.mode = "off" THEN "auto" ELSE "off"]
              ELSE pid
  /\ result' = "AUTO"
  /\ UNCHANGED <<editInt, touched>>

\* menuAlarmTriggered: any button silences the alarm and returns home.
AlarmHandler ==
  /\ state = "HOME_ALARM"
  /\ result' = "HOME_FOOD1"
  /\ UNCHANGED <<pid, editInt, touched>>

\* menuToast: timeout or a button returns to the screen before.
ToastHandler ==
  /\ state = "TOAST"
  /\ result' = lastState
  /\ UNCHANGED <<pid, editInt, touched>>

\* Mutant: the number runs past its limits.
menuNumberEditUnclamped(b, v) ==
  CASE b = "UP" -> v + 1 [] b = "DOWN" -> v - 1 [] OTHER -> v

\* editInt after event b.  A held button moves it faster in the code.
menuNumberEdit(b, v) ==
  CASE b = "UP"   -> Clamp(v + 1, 0, Top)
    [] b = "DOWN" -> Clamp(v - 1, 0, Top)
    [] OTHER      -> v
menuBooleanEdit(b, v) == IF b \in {"UP", "DOWN"} THEN 1 - v ELSE v

EditHandler(b) ==
  /\ state \in EditMenus
  /\ b \in {"UP", "DOWN"} => state \in Edited
  /\ editInt' = IF state \in NumberMenus THEN menuNumberEdit(b, editInt)
                                         ELSE menuBooleanEdit(b, editInt)
  /\ touched' = (touched \/ b \in {"UP", "DOWN"})
  /\ result' = "AUTO"
  /\ UNCHANGED pid

\* doWork gives event b to the screen shown.
HandleEvent(b) ==
  /\ event' = b
  /\ HomeHandler(b) \/ AlarmHandler \/ ToastHandler \/ EditHandler(b)

Handled == UNCHANGED <<state, lastState, active, toasts>>
Ignored == UNCHANGED <<screenVars, event, result, active, toasts>>

\* A press of LEFT does something on the home screens when its event reaches
\* one of them, unless the controller is off and the press a short one.
Acts(b) ==
  state \in HomeScreens /\ (b = "LONG_LEFT" \/ (b = "LEFT" /\ pid.mode # "off"))

\* The histories after a reading that raises event b, "NONE" for no event
Observe(reading, b) ==
  LET again  == reading \in {"NONE", held}
      before == IF again THEN acts ELSE 0 IN
  /\ held' = reading
  /\ acts' = IF Acts(b) THEN Clamp(before + 1, 0, 2) ELSE before
  /\ raced' = (raced /\ again)
  /\ sampled' = TRUE

Raise(reading, b) == HandleEvent(b) /\ Handled /\ Observe(reading, b)
Wait(reading)     == Ignored /\ Observe(reading, "NONE")

-----------------------------------------------------------------------------
\* MenuSystem::doWork up to the handler, one action per branch.

\* Nothing is pressed and the time of the screen is up.
Timeout ==
  /\ event = "NONE"
  /\ TimesOut(state)
  /\ Raise("NONE", "TIMEOUT")
  /\ UNCHANGED buttonVars

\* The same reading as before: a held button repeats on a screen without long
\* press, and becomes a long press after RepeatMax readings.
Repeat(reading) ==
  /\ event = "NONE"
  /\ reading = lastButton
  /\ repeatCnt' = Clamp(repeatCnt + 1, 0, RepeatMax)
  /\ UNCHANGED lastButton
  /\ \/ /\ buttonState = "LongCheck" /\ repeatCnt' > 3
        /\ buttonState' = "WaitForKeyup"
        /\ Raise(reading, "LONG_LEFT")
     \/ /\ buttonState = "None" /\ reading # "NONE"
        /\ Raise(reading, reading)
        /\ UNCHANGED buttonState
     \/ /\ \/ buttonState = "WaitForKeyup"
           \/ buttonState = "LongCheck" /\ repeatCnt' <= 3
           \/ buttonState = "None" /\ reading = "NONE"
        /\ Wait(reading)
        /\ UNCHANGED buttonState

\* The buttons are let go: a press that did not become long counts now.
Release ==
  /\ event = "NONE"
  /\ lastButton # "NONE"
  /\ repeatCnt' = 0
  /\ buttonState' = "None"
  /\ IF buttonState = "LongCheck"
       THEN Raise("NONE", lastButton) /\ UNCHANGED lastButton
       ELSE Wait("NONE") /\ lastButton' = "NONE"

\* Another button is pressed.
Press(reading) ==
  /\ event = "NONE"
  /\ reading \notin {"NONE", lastButton}
  /\ repeatCnt' = 0
  /\ lastButton' = reading
  /\ IF HasLongpress(state, reading)
       THEN buttonState' = "LongCheck" /\ Wait(reading)
       ELSE buttonState' = "None" /\ Raise(reading, reading)

Poll == Timeout \/ Release \/ \E reading \in Readings : Repeat(reading) \/ Press(reading)

\* Mutant: a held button is not waited for on the new screen.
KeyupForgotten(s, b) == buttonState

\* The button state once screen s is shown after event b
AfterKeyup(s, b) == IF HasLongpress(s, b) THEN "WaitForKeyup" ELSE buttonState

\* The rest of doWork: to the screen the handler or the table names.
Settle ==
  /\ event # "NONE"
  /\ setState(IF result = "AUTO" THEN findTransition(state, event) ELSE result)
  /\ buttonState' = AfterKeyup(state', event)
  /\ event' = "NONE" /\ result' = "AUTO"
  /\ UNCHANGED <<lastButton, active, toasts, sampled, held, acts, raced>>

-----------------------------------------------------------------------------
\* newTempsAvail: probes come and go; checkAlarms shows the alarm screen while
\* an alarm rings and leaves it when none does.  Periods are a second apart and
\* the buttons are read at least every 250 ms.
Period ==
  /\ event = "NONE"
  /\ sampled /\ sampled' = FALSE
  /\ active' \in ActiveSets
  /\ \/ setState("HOME_ALARM")
     \/ state = "HOME_ALARM" /\ setState("HOME_FOOD1")
     \/ state # "HOME_ALARM" /\ UNCHANGED <<screenVars, repeatCnt>>
  /\ UNCHANGED <<lastButton, buttonState, event, result, toasts, held, acts, raced>>

\* set?tt= on the server's thread: displayToast.  A toast over a toast only
\* changes the text.
Toast ==
  /\ toasts < MaxToasts
  /\ toasts' = toasts + 1
  /\ IF state # "TOAST" THEN setState("TOAST") ELSE UNCHANGED <<screenVars, repeatCnt>>
  /\ raced' = (raced \/ (event = "LEFT" /\ state \in HomeScreens))
  /\ UNCHANGED <<lastButton, buttonState, event, result, active, sampled, held, acts>>

\* Any other command on the server's thread that changes what a menu shows
Command ==
  /\ \/ \E m \in Edited \cap NumberMenus, v \in 1..(Top + 1) :
          pid' = IF m = "SETPOINT" THEN storeSetPoint(pid, v) ELSE storeNumber(pid, m, v)
     \/ pid' = storeSetPoint(pid, 0)
     \/ pid' = [pid EXCEPT !.mode = "off"]
  /\ touched' = TRUE
  /\ UNCHANGED <<state, lastState, editInt, buttonVars, event, result, active, toasts,
                 sampled, held, acts, raced>>

\* hmcoreSetup has asked for HOME_NOPROBES.
Init ==
  /\ state = "HOME_NOPROBES" /\ lastState = "NONE"
  /\ lastButton = "NONE" /\ buttonState = "None" /\ repeatCnt = 0
  /\ event = "NONE" /\ result = "AUTO"
  /\ editInt = 0 /\ pid = Default /\ active = {}
  /\ toasts = 0 /\ sampled = FALSE
  /\ held = "NONE" /\ acts = 0 /\ raced = FALSE /\ touched = FALSE

Next == Poll \/ Settle \/ Period \/ Toast \/ Command

\* The main loop goes on for ever, and so does the clock that times a screen
\* out while nothing is pressed.
Spec == Init /\ [][Next]_vars /\ WF_vars(Settle) /\ WF_vars(held = "NONE" /\ Timeout)

-----------------------------------------------------------------------------
TypeOK ==
  /\ state \in States /\ lastState \in States \cup {"NONE"}
  /\ lastButton \in Readings
  /\ buttonState \in {"None", "LongCheck", "WaitForKeyup"}
  /\ repeatCnt \in 0..RepeatMax
  /\ event \in ButtonEvents /\ result \in States \cup {"AUTO"}
  /\ editInt \in 0..Top
  /\ pid \in Settings
  /\ active \in ActiveSets \cup {{}}
  /\ toasts \in 0..MaxToasts /\ sampled \in BOOLEAN
  /\ held \in Readings /\ acts \in 0..2
  /\ raced \in BOOLEAN /\ touched \in BOOLEAN

\* A press of LEFT, however long and whatever screens come and go meanwhile,
\* switches the controller off or back on, toggles lid mode or steps the manual
\* output at most once: the long press states of MenuSystem::doWork.  Unless a
\* toast on the server's thread takes the home screen of its event away before
\* doWork looks whether to wait for the key: held on, the key may then act again
\* once an alarm under a further toast has led back home.
OneActionPerPress == TypeOK /\ (acts <= 1 \/ raced)

\* The value the menu would show for a setting is the setting.
Offered == state \in NumberMenus => pid.setting[state] <= Top

\* Leaving a menu in which the cook changed nothing, by a button, its timeout,
\* an alarm or a toast, changes no setting; least of all does it reset the
\* configuration: a menu that stores whenever it is left stores the value it
\* was entered with.  Not claimed of a value the menu does not offer, which it
\* clamps, nor of a setting commanded while the menu is shown.
BrowsingKeepsSettings ==
  [][(state \in EditMenus /\ state' # state /\ ~touched /\ Offered) => (pid' = pid)]_vars

\* Left alone, the panel returns to a home screen, unless an alarm holds it or
\* a toast has lost the way back: timeouts of MENU_DEFINITIONS.
BackHome ==
  <>[](held = "NONE" /\ state # "HOME_ALARM") =>
    []<>(state \in HomeScreens \/ (state = "TOAST" /\ lastState = "TOAST"))

\* README.txt:62: a toast is displayed over any other menu and cleared by
\* timeout or any button.  menuToast goes back to getLastState, which is a
\* screen to go back to only if it is not the toast itself.
ToastKnowsTheWayBack == state = "TOAST" => lastState \in States \ {"TOAST"}
=============================================================================
