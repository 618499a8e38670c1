-------------------------- MODULE InterfaceProofs ---------------------------
(***************************************************************************)
(* What holds of what people see of the program: the panel's menu (Menus)  *)
(* for every range of its numbers, every choice of menus to edit and any   *)
(* number of toasts; history and event stream (Reports) for every clock,   *)
(* time span, length of the history, set of statuses and size of buffer.   *)
(***************************************************************************)
EXTENDS Menus, Reports, SequenceTheorems, WellFoundedInduction, TLAPS

-----------------------------------------------------------------------------
(* Screens                                                                 *)

BooleanMenus == {"MANUALMODE", "RESETCONFIG"}

\* The handlers settle on a screen, and the home screens among themselves.
LEMMA ShownType ==
  \A s \in States : Shown(s) \in States /\ (s \in HomeScreens => Shown(s) \in HomeScreens)
<1>1. \A s \in ProbeScreens : Below[s] \in ProbeScreens
  BY DEF ProbeScreens, Below
<1>2. ProbeScreens \subseteq HomeScreens /\ "HOME_NOPROBES" \in HomeScreens
      /\ HomeScreens \subseteq States
  BY DEF ProbeScreens, HomeScreens, States
<1>3. ASSUME NEW s \in ProbeScreens PROVE Shown(s) \in HomeScreens
  <2>1. CASE active = {}
    BY <1>2, <1>3, <2>1 DEF Shown
  <2>2. CASE active # {} /\ s \in active
    BY <1>2, <1>3, <2>2 DEF Shown
  <2>3. CASE active # {} /\ s \notin active /\ Below[s] \in active
    BY <1>1, <1>2, <1>3, <2>3 DEF Shown
  <2>4. CASE active # {} /\ s \notin active /\ Below[s] \notin active
    BY <1>1, <1>2, <1>3, <2>4 DEF Shown
  <2> QED
    BY <2>1, <2>2, <2>3, <2>4
<1>4. ASSUME NEW s \in States \ ProbeScreens PROVE Shown(s) = s
  BY DEF Shown
<1> QED
  BY <1>2, <1>3, <1>4

\* MENU_TRANSITIONS leads to screens.
LEMMA TransitionType ==
  \A s \in States, b \in ButtonEvents : findTransition(s, b) \in States
<1> SUFFICES ASSUME NEW s \in States, NEW b \in ButtonEvents
             PROVE  findTransition(s, b) \in States
  OBVIOUS
<1>1. CASE s \in HomeScreens
  BY <1>1 DEF findTransition, States, HomeScreens, ProbeScreens, EditMenus, NumberMenus,
              Below, Above
<1>2. CASE s \in EditMenus
  BY <1>2 DEF findTransition, States, HomeScreens, ProbeScreens, EditMenus, NumberMenus,
              Right
<1>3. CASE s \notin HomeScreens \cup EditMenus
  BY <1>3 DEF findTransition
<1> QED
  BY <1>1, <1>2, <1>3

\* What a menu shows on entering is a number it offers, or one of two answers,
\* and entering it again would show the same.
LEMMA EnterType ==
  ASSUME NEW s \in States, NEW p \in Settings, NEW v \in 0..Top
  PROVE  /\ Enter(s, p, v) \in 0..Top
         /\ s \in BooleanMenus => Enter(s, p, v) \in 0..1
         /\ Enter(s, p, Enter(s, p, v)) = Enter(s, p, v)
<1>1. CASE s \in BooleanMenus
  BY <1>1, MenusAssumption DEF Enter, BooleanMenus, NumberMenus
<1>2. CASE s \in NumberMenus
  <2>1. p.setting[s] \in Int
    BY <1>2, MenusAssumption DEF Settings
  <2>2. Clamp(p.setting[s], 0, Top) \in 0..Top
    BY <2>1, MenusAssumption DEF Clamp
  <2> QED
    BY <1>2, <2>2 DEF Enter, BooleanMenus, NumberMenus
<1>3. CASE s \notin BooleanMenus \cup NumberMenus
  BY <1>3 DEF Enter, BooleanMenus
<1> QED
  BY <1>1, <1>2, <1>3

\* A number stored leaves the settings settings.
LEMMA StoreNumberType ==
  ASSUME NEW p \in Settings, NEW m \in NumberMenus, NEW w \in 0..(Top + 1)
  PROVE  storeNumber(p, m, w) \in Settings
<1> DEFINE u == IF m = "LIDOPEN_DUR" THEN Clamp(w, 1, Top + 1) ELSE w
<1> USE MenusAssumption
<1>1. u \in 0..(Top + 1) /\ (m = "LIDOPEN_DUR" => u >= 1)
  BY DEF Clamp
<1>2. storeNumber(p, m, w) = [p EXCEPT !.setting[m] = u]
  BY DEF storeNumber
<1> HIDE DEF u
<1>3. [p.setting EXCEPT ![m] = u] \in [NumberMenus -> 0..(Top + 1)]
  BY <1>1 DEF Settings
<1>4. [p.setting EXCEPT ![m] = u]["LIDOPEN_DUR"] >= 1
  BY <1>1 DEF Settings, NumberMenus
<1>5. [p EXCEPT !.setting[m] = u]
        = [mode |-> p.mode, setting |-> [p.setting EXCEPT ![m] = u]]
  BY DEF Settings
<1> QED
  BY <1>2, <1>3, <1>4, <1>5 DEF Settings

\* Leaving a menu keeps the settings settings.
LEMMA LeaveType ==
  ASSUME NEW s \in States, NEW p \in Settings, NEW v \in 0..Top
  PROVE  Leave(s, p, v) \in Settings
<1> USE MenusAssumption
<1>1. \A w \in 0..(Top + 1) : storeSetPoint(p, w) \in Settings
  BY DEF storeSetPoint, Settings, NumberMenus
<1>2. \A m \in NumberMenus, w \in 0..(Top + 1) : storeNumber(p, m, w) \in Settings
  BY StoreNumberType
<1>3. Default \in Settings
  BY DEF Default, Settings, NumberMenus
<1>4. v \in 0..(Top + 1) /\ p.setting["SETPOINT"] \in 0..(Top + 1)
  BY DEF Settings, NumberMenus
<1>5. CASE s \notin EditMenus \/ ~Stores(p, s, v)
  BY <1>5 DEF Leave
<1>6. CASE s \in EditMenus /\ Stores(p, s, v)
  <2>1. CASE s = "SETPOINT"
    BY <1>1, <1>4, <1>6, <2>1 DEF Leave
  <2>2. CASE s = "MANUALMODE"
    BY <1>1, <1>4, <1>6, <2>2 DEF Leave
  <2>3. CASE s = "RESETCONFIG"
    BY <1>3, <1>6, <2>3 DEF Leave
  <2>4. CASE s \notin {"SETPOINT", "MANUALMODE", "RESETCONFIG"}
    <3>1. s \in NumberMenus /\ Leave(s, p, v) = storeNumber(p, s, v)
      BY <1>6, <2>4 DEF Leave, EditMenus
    <3> QED
      BY <1>2, <1>4, <3>1
  <2> QED
    BY <2>1, <2>2, <2>3, <2>4
<1> QED
  BY <1>5, <1>6

-----------------------------------------------------------------------------
(* The inductive invariant                                                 *)

\* A menu in which the cook changed nothing shows what entering it showed.
ScreenInv ==
  /\ state \in States /\ lastState \in States \cup {"NONE"}
  /\ lastState = "NONE" => state = "HOME_NOPROBES"
  /\ editInt \in 0..Top /\ pid \in Settings /\ touched \in BOOLEAN
  /\ state \in BooleanMenus => editInt \in 0..1
  /\ ~touched => editInt = Enter(state, pid, editInt)

\* While a press of LEFT may still become a long one it has done nothing.  Once
\* it has done something the key is waited for, from Settle on at the latest.
PressInv ==
  /\ lastButton \in Readings /\ held \in {"NONE", lastButton}
  /\ buttonState \in {"None", "LongCheck", "WaitForKeyup"}
  /\ acts \in 0..2 /\ raced \in BOOLEAN
  /\ buttonState = "LongCheck" => lastButton = "LEFT" /\ acts = 0
  /\ held = "LEFT" /\ acts > 0 /\ ~raced =>
       \/ buttonState = "WaitForKeyup"
       \/ event = "LEFT" /\ result = "AUTO" /\ state \in HomeScreens
  /\ acts > 1 => raced

RestInv ==
  /\ event \in ButtonEvents /\ result \in States \cup {"AUTO"}
  /\ repeatCnt \in 0..RepeatMax
  /\ active \in ActiveSets \cup {{}} /\ toasts \in 0..MaxToasts /\ sampled \in BOOLEAN

MenusInv == ScreenInv /\ PressInv /\ RestInv

LEMMA InvTypeOK == MenusInv => TypeOK
<1> SUFFICES ASSUME MenusInv PROVE TypeOK
  OBVIOUS
<1>1. held \in Readings
  BY DEF MenusInv, PressInv, Readings
<1> QED
  BY <1>1 DEF MenusInv, ScreenInv, PressInv, RestInv, TypeOK

\* A screen has a name of its own.
LEMMA NoneIsNoScreen == "NONE" \notin States
  BY DEF States, HomeScreens, ProbeScreens, EditMenus, NumberMenus

LEMMA InitInv == Init => MenusInv
<1> SUFFICES ASSUME Init PROVE MenusInv
  OBVIOUS
<1>0. /\ state = "HOME_NOPROBES" /\ lastState = "NONE" /\ editInt = 0 /\ pid = Default
      /\ lastButton = "NONE" /\ buttonState = "None" /\ repeatCnt = 0
      /\ event = "NONE" /\ result = "AUTO" /\ active = {} /\ toasts = 0
      /\ held = "NONE" /\ acts = 0
      /\ ~sampled /\ ~raced /\ ~touched
  BY DEF Init
<1>00. sampled \in BOOLEAN /\ raced \in BOOLEAN /\ touched \in BOOLEAN
  BY Zenon DEF Init
<1> USE MenusAssumption
<1>1. "HOME_NOPROBES" \in States \ (BooleanMenus \cup NumberMenus)
  BY DEF States, HomeScreens, BooleanMenus, NumberMenus
<1>2. Default \in Settings
  BY DEF Default, Settings, NumberMenus
<1>3. ScreenInv
  <2>1. Enter(state, pid, editInt) = editInt
    BY <1>0, <1>1 DEF Enter, BooleanMenus
  <2> QED
    BY <1>0, <1>00, <1>1, <1>2, <2>1 DEF ScreenInv
<1>4. PressInv
  BY <1>0, <1>00 DEF PressInv, Readings
<1>5. RestInv
  BY <1>0, <1>00 DEF RestInv, ButtonEvents, Readings, RepeatMax
<1> QED
  BY <1>3, <1>4, <1>5 DEF MenusInv

\* A change of screens keeps the invariant of the screens.
LEMMA SetStateInv ==
  ASSUME ScreenInv, repeatCnt \in 0..RepeatMax, NEW s \in States, setState(s)
  PROVE  ScreenInv' /\ repeatCnt' \in 0..RepeatMax
<1>1. CASE s = state
  BY <1>1, NoneIsNoScreen DEF setState, ScreenInv, Enter
<1>2. CASE s # state
  <2> DEFINE stored == Leave(state, pid, editInt)
  <2>1. state' = Shown(s) /\ pid' = stored /\ editInt' = Enter(Shown(s), stored, editInt)
        /\ repeatCnt' = 0 /\ touched' = FALSE /\ lastState' = state
    BY <1>2 DEF setState
  <2>2. state \in States /\ pid \in Settings /\ editInt \in 0..Top
    BY DEF ScreenInv
  <2>3. stored \in Settings /\ Shown(s) \in States
    BY <2>2, LeaveType, ShownType
  <2> HIDE DEF stored
  <2>4. /\ editInt' \in 0..Top
        /\ state' \in BooleanMenus => editInt' \in 0..1
        /\ Enter(state', pid', editInt') = editInt'
    BY <2>1, <2>2, <2>3, EnterType
  <2>5. ScreenInv'
    BY <2>1, <2>2, <2>3, <2>4, NoneIsNoScreen DEF ScreenInv
  <2> QED
    BY <2>1, <2>5 DEF RepeatMax
<1> QED
  BY <1>1, <1>2

\* So does a handler, which leaves the screen as it is.
LEMMA HandleEventInv ==
  ASSUME ScreenInv, NEW b \in ButtonEvents, HandleEvent(b), UNCHANGED <<state, lastState>>
  PROVE  /\ ScreenInv' /\ event' = b /\ result' \in States \cup {"AUTO"}
         /\ state \in HomeScreens => result' = "AUTO"
<1> USE MenusAssumption
<1>0. event' = b /\ state' = state /\ lastState' = lastState
  BY DEF HandleEvent
<1>1. CASE HomeHandler(b)
  <2>1. state \notin EditMenus
    BY <1>1 DEF HomeHandler, HomeScreens, ProbeScreens, EditMenus, NumberMenus
  <2>2. pid' \in Settings
    BY <1>1 DEF HomeHandler, ScreenInv, Settings
  <2>3. editInt' = editInt /\ touched' = touched /\ result' = "AUTO"
    BY <1>1 DEF HomeHandler
  <2>4. Enter(state', pid', editInt') = editInt'
    BY <1>0, <2>1, <2>3 DEF Enter, EditMenus
  <2> QED
    BY <1>0, <2>2, <2>3, <2>4 DEF ScreenInv
<1>2. CASE AlarmHandler
  BY <1>0, <1>2 DEF AlarmHandler, ScreenInv, Enter, States, HomeScreens, ProbeScreens
<1>3. CASE ToastHandler
  <2>1. lastState \in States /\ state \notin HomeScreens
    BY <1>3 DEF ToastHandler, ScreenInv, HomeScreens, ProbeScreens
  <2> QED
    BY <1>0, <1>3, <2>1 DEF ToastHandler, ScreenInv, Enter
<1>4. CASE EditHandler(b)
  <2>1. state \in EditMenus /\ pid' = pid /\ result' = "AUTO" /\ state \notin HomeScreens
        /\ touched' = (touched \/ b \in {"UP", "DOWN"})
    BY <1>4 DEF EditHandler, HomeScreens, ProbeScreens, EditMenus, NumberMenus
  <2>2. editInt \in 0..Top /\ (state \in BooleanMenus => editInt \in 0..1)
    BY DEF ScreenInv
  <2>3. CASE state \in NumberMenus
    <3>1. editInt' = menuNumberEdit(b, editInt) /\ state \notin BooleanMenus
      BY <1>4, <2>3 DEF EditHandler, NumberMenus, BooleanMenus
    <3>2. editInt' \in 0..Top /\ (b \notin {"UP", "DOWN"} => editInt' = editInt)
      BY <2>2, <3>1 DEF menuNumberEdit, Clamp
    <3> QED
      BY <1>0, <2>1, <3>1, <3>2 DEF ScreenInv, Enter
  <2>4. CASE state \notin NumberMenus
    <3>1. editInt' = menuBooleanEdit(b, editInt) /\ state \in BooleanMenus
      BY <1>4, <2>1, <2>4 DEF EditHandler, EditMenus, BooleanMenus
    <3>2. editInt' \in 0..1 /\ (b \notin {"UP", "DOWN"} => editInt' = editInt)
      BY <2>2, <3>1 DEF menuBooleanEdit
    <3>3. editInt' \in 0..Top
      BY <3>2
    <3>4. ~touched' => editInt' = Enter(state', pid', editInt')
      BY <1>0, <2>1, <3>2 DEF ScreenInv
    <3> QED
      BY <1>0, <2>1, <3>2, <3>3, <3>4 DEF ScreenInv
  <2> QED
    BY <2>3, <2>4
<1> QED
  BY <1>1, <1>2, <1>3, <1>4 DEF HandleEvent
\* A reading that goes on with the press adds to what the press has done, any
\* other begins anew.
LEMMA ObserveInv ==
  ASSUME PressInv, NEW reading \in Readings, NEW b, Observe(reading, b)
  PROVE  /\ held' = reading /\ raced' \in BOOLEAN /\ acts' \in 0..2 /\ sampled' = TRUE
         /\ acts' > 1 => reading \in {"NONE", held} /\ acts > 0
         /\ reading \in {"NONE", held} => (raced' <=> raced) /\ (~Acts(b) => acts' = acts)
         /\ reading \notin {"NONE", held} => ~raced' /\ (~Acts(b) => acts' = 0)
<1>1. raced \in BOOLEAN /\ acts \in 0..2
  BY DEF PressInv
<1>2. raced' = (raced /\ reading \in {"NONE", held})
  BY DEF Observe
<1>3. raced' \in BOOLEAN
  BY <1>2, Zenon
<1>4. reading \in {"NONE", held} => (raced' <=> raced)
  BY <1>1, <1>2, Zenon
<1>5. reading \notin {"NONE", held} => ~raced'
  BY <1>2, Zenon
<1>6. held' = reading /\ sampled' = TRUE
  BY DEF Observe
<1>7. acts' \in 0..2
  BY <1>1 DEF Observe, Clamp
<1>8. acts' > 1 => reading \in {"NONE", held} /\ acts > 0
  BY <1>1 DEF Observe, Clamp
<1>9. reading \in {"NONE", held} => (~Acts(b) => acts' = acts)
  BY <1>1 DEF Observe
<1>10. reading \notin {"NONE", held} => (~Acts(b) => acts' = 0)
  BY DEF Observe
<1> QED
  BY <1>3, <1>4, <1>5, <1>6, <1>7, <1>8, <1>9, <1>10, Zenon

\* Only LEFT acts, on the home screens.
LEMMA OnlyLeftActs ==
  ASSUME NEW b, Acts(b)
  PROVE  b \in {"LEFT", "LONG_LEFT"} /\ state \in HomeScreens
  BY DEF Acts

LEMMA TimeoutPress == MenusInv /\ Timeout => PressInv'
<1> SUFFICES ASSUME MenusInv, Timeout PROVE PressInv'
  OBVIOUS
<1>1. PressInv /\ "NONE" \in Readings /\ Observe("NONE", "TIMEOUT") /\ ~Acts("TIMEOUT")
  BY DEF MenusInv, Timeout, Raise, Readings, Acts
<1>2. held' = "NONE" /\ (raced' <=> raced) /\ acts' = acts
  BY <1>1, ObserveInv
<1>3. lastButton' = lastButton /\ buttonState' = buttonState
  BY DEF Timeout, buttonVars
<1> QED
  BY <1>1, <1>2, <1>3 DEF PressInv

LEMMA RepeatPress ==
  ASSUME MenusInv, NEW reading \in Readings, Repeat(reading)
  PROVE  PressInv'
<1>1. PressInv /\ event = "NONE" /\ reading = lastButton /\ lastButton' = lastButton
  BY DEF MenusInv, Repeat
<1> DEFINE again == reading \in {"NONE", held}
<1>2. CASE buttonState = "LongCheck" /\ buttonState' = "WaitForKeyup"
           /\ Raise(reading, "LONG_LEFT")
  <2>1. reading = "LEFT" /\ acts = 0
    BY <1>1, <1>2 DEF PressInv
  <2>2. held' = reading /\ raced' \in BOOLEAN /\ acts' \in 0..2
        /\ (acts' > 1 => acts > 0)
    <3>1. Observe(reading, "LONG_LEFT")
      BY <1>2 DEF Raise
    <3> QED
      BY <1>1, <3>1, ObserveInv, Zenon
  <2>3. ~(acts' > 1)
    BY <2>1, <2>2
  <2> QED
    BY <1>1, <1>2, <2>1, <2>2, <2>3 DEF PressInv
<1>3. CASE buttonState = "None" /\ reading # "NONE" /\ Raise(reading, reading)
           /\ buttonState' = buttonState
  <2>1. Observe(reading, reading) /\ HandleEvent(reading) /\ state' = state
    BY <1>3 DEF Raise, Handled
  <2>2. held' = reading /\ raced' \in BOOLEAN /\ acts' \in 0..2
    BY <1>1, <2>1, ObserveInv
  <2>3. again => reading = held
    BY <1>3
  <2>4. CASE reading = "LEFT"
    <3>0. (acts' > 1 => again /\ acts > 0) /\ (again => (raced' <=> raced))
          /\ (again /\ ~Acts(reading) => acts' = acts)
          /\ (~again /\ ~Acts(reading) => acts' = 0)
      BY <1>1, <2>1, ObserveInv, Zenon
    <3>1. again /\ acts > 0 => raced
      <4> SUFFICES ASSUME again, acts > 0 PROVE raced
        OBVIOUS
      <4>1. held = "LEFT"
        BY <2>3, <2>4
      <4> QED
        BY <1>1, <1>3, <4>1 DEF PressInv
    <3>2. acts' > 1 => raced'
      BY <3>0, <3>1, Zenon
    <3>3. ~Acts(reading) /\ acts' > 0 => raced'
      <4>1. CASE again
        BY <3>0, <3>1, <4>1, Zenon
      <4>2. CASE ~again
        BY <3>0, <4>2
      <4> QED
        BY <4>1, <4>2
    <3>4. Acts(reading) => event' = "LEFT" /\ result' = "AUTO" /\ state' \in HomeScreens
      <4>1. ScreenInv /\ "LEFT" \in ButtonEvents /\ lastState' = lastState
        BY <1>3 DEF MenusInv, ButtonEvents, Readings, Raise, Handled
      <4> QED
        BY <2>1, <2>4, <4>1, OnlyLeftActs, HandleEventInv
    <3> QED
      BY <1>1, <1>3, <2>2, <2>4, <3>2, <3>3, <3>4 DEF PressInv
  <2>5. CASE reading # "LEFT"
    <3>1. ~Acts(reading)
      BY <2>5 DEF Acts, Readings
    <3>2. acts' > 1 => raced'
      <4>1. acts > 1 => raced
        BY <1>1 DEF PressInv
      <4>2. (acts' > 1 => again) /\ (again => (raced' <=> raced) /\ acts' = acts)
        BY <1>1, <2>1, <3>1, ObserveInv, Zenon
      <4> QED
        BY <4>1, <4>2, Zenon
    <3> QED
      BY <1>1, <1>3, <2>2, <2>5, <3>2 DEF PressInv
  <2> QED
    BY <2>4, <2>5
<1>4. CASE Wait(reading) /\ buttonState' = buttonState
  <2>1. Observe(reading, "NONE") /\ ~Acts("NONE") /\ state' = state /\ event' = event
    BY <1>4 DEF Wait, Ignored, screenVars, Acts
  <2>2. held' = reading /\ raced' \in BOOLEAN /\ acts' \in 0..2
    BY <1>1, <2>1, ObserveInv
  <2>3. again => (raced' <=> raced) /\ acts' = acts
    BY <1>1, <2>1, ObserveInv
  <2>4. ~again => ~raced' /\ acts' = 0
    BY <1>1, <2>1, ObserveInv
  <2>5. CASE again
    BY <1>1, <1>4, <2>1, <2>2, <2>3, <2>5 DEF PressInv
  <2>6. CASE ~again
    BY <1>1, <1>4, <2>1, <2>2, <2>4, <2>6 DEF PressInv
  <2> QED
    BY <2>5, <2>6
<1> QED
  BY <1>2, <1>3, <1>4 DEF Repeat

LEMMA ReleasePress == MenusInv /\ Release => PressInv'
<1> SUFFICES ASSUME MenusInv, Release PROVE PressInv'
  OBVIOUS
<1>1. PressInv /\ buttonState' = "None" /\ "NONE" \in Readings
  BY DEF MenusInv, Release, Readings
<1>2. CASE buttonState = "LongCheck"
  <2>1. lastButton' = lastButton /\ Observe("NONE", lastButton) /\ acts = 0
    BY <1>1, <1>2 DEF Release, Raise, PressInv
  <2>2. held' = "NONE" /\ raced' \in BOOLEAN /\ acts' \in 0..2
        /\ (acts' > 1 => acts > 0)
    BY <1>1, <2>1, ObserveInv, Zenon
  <2>3. ~(acts' > 1)
    BY <2>1, <2>2
  <2> QED
    BY <1>1, <2>1, <2>2, <2>3 DEF PressInv
<1>3. CASE buttonState # "LongCheck"
  <2>1. lastButton' = "NONE" /\ Observe("NONE", "NONE") /\ ~Acts("NONE")
    BY <1>3 DEF Release, Wait, Acts
  <2>2. held' = "NONE" /\ (raced' <=> raced) /\ acts' = acts
    BY <1>1, <2>1, ObserveInv
  <2> QED
    BY <1>1, <2>1, <2>2 DEF PressInv
<1> QED
  BY <1>2, <1>3

LEMMA PressPress ==
  ASSUME MenusInv, NEW reading \in Readings, Press(reading)
  PROVE  PressInv'
<1>1. PressInv /\ lastButton' = reading /\ reading \notin {"NONE", held}
  BY DEF MenusInv, Press, PressInv
<1>2. CASE HasLongpress(state, reading)
  <2>1. reading = "LEFT" /\ buttonState' = "LongCheck" /\ Observe(reading, "NONE")
        /\ ~Acts("NONE")
    BY <1>2 DEF HasLongpress, Readings, Press, Wait, Acts
  <2>2. held' = reading /\ ~raced' /\ raced' \in BOOLEAN /\ acts' = 0
    BY <1>1, <2>1, ObserveInv
  <2> QED
    BY <1>1, <2>1, <2>2 DEF PressInv
<1>3. CASE ~HasLongpress(state, reading)
  <2>1. ~Acts(reading) /\ buttonState' = "None" /\ Observe(reading, reading)
    BY <1>3 DEF HasLongpress, Press, Raise, Acts, Readings
  <2>2. held' = reading /\ ~raced' /\ raced' \in BOOLEAN /\ acts' = 0
    BY <1>1, <2>1, ObserveInv
  <2> QED
    BY <1>1, <2>1, <2>2 DEF PressInv
<1> QED
  BY <1>2, <1>3
\* The screen Settle goes to is one.
LEMMA SettleTarget ==
  ASSUME MenusInv
  PROVE  (IF result = "AUTO" THEN findTransition(state, event) ELSE result) \in States
<1>1. state \in States /\ event \in ButtonEvents /\ result \in States \cup {"AUTO"}
  BY DEF MenusInv, ScreenInv, RestInv
<1> QED
  BY <1>1, TransitionType

\* A reading of the buttons, whatever comes of it
LEMMA ReadingInv ==
  ASSUME MenusInv, NEW reading \in Readings, NEW b \in Readings \cup {"LONG_LEFT", "TIMEOUT"},
         Raise(reading, b) \/ Wait(reading), repeatCnt' \in 0..RepeatMax
  PROVE  ScreenInv' /\ RestInv'
<1>1. ScreenInv /\ PressInv /\ RestInv
  BY DEF MenusInv
<1>2. sampled' \in BOOLEAN
  <2>1. sampled' = TRUE
    BY DEF Raise, Wait, Observe
  <2> QED
    BY <2>1, Zenon
<1>3. CASE Raise(reading, b)
  <2>1. b \in ButtonEvents /\ HandleEvent(b) /\ UNCHANGED <<state, lastState, active, toasts>>
    BY <1>3 DEF Raise, Handled, ButtonEvents
  <2>2. ScreenInv' /\ event' = b /\ result' \in States \cup {"AUTO"}
    BY <1>1, <2>1, HandleEventInv
  <2> QED
    BY <1>1, <1>2, <2>1, <2>2 DEF RestInv
<1>4. CASE Wait(reading)
  <2>1. UNCHANGED <<state, lastState, editInt, pid, touched, event, result, active, toasts>>
    BY <1>4 DEF Wait, Ignored, screenVars
  <2>2. ScreenInv'
    BY <1>1, <2>1 DEF ScreenInv, Enter
  <2> QED
    BY <1>1, <1>2, <2>1, <2>2 DEF RestInv
<1> QED
  BY <1>3, <1>4

LEMMA PollInv == MenusInv /\ Poll => MenusInv'
<1> SUFFICES ASSUME MenusInv, Poll PROVE MenusInv'
  OBVIOUS
<1>1. repeatCnt \in 0..RepeatMax /\ lastButton \in Readings /\ "NONE" \in Readings
  BY DEF MenusInv, RestInv, PressInv, Readings
<1>2. CASE Timeout
  <2>1. Raise("NONE", "TIMEOUT") /\ repeatCnt' = repeatCnt
    BY <1>2 DEF Timeout, buttonVars
  <2> QED
    BY <1>1, <1>2, <2>1, ReadingInv, TimeoutPress DEF MenusInv
<1>3. CASE Release
  <2>1. repeatCnt' \in 0..RepeatMax
    BY <1>3 DEF Release, RepeatMax
  <2>2. Raise("NONE", lastButton) \/ Wait("NONE")
    BY <1>3 DEF Release
  <2> QED
    BY <1>1, <1>3, <2>1, <2>2, ReadingInv, ReleasePress DEF MenusInv
<1>4. ASSUME NEW reading \in Readings, Repeat(reading) PROVE MenusInv'
  <2>1. repeatCnt' \in 0..RepeatMax
    BY <1>1, <1>4 DEF Repeat, Clamp, RepeatMax
  <2>2. Raise(reading, "LONG_LEFT") \/ Raise(reading, reading) \/ Wait(reading)
    BY <1>4 DEF Repeat
  <2> QED
    BY <1>4, <2>1, <2>2, ReadingInv, RepeatPress DEF MenusInv
<1>5. ASSUME NEW reading \in Readings, Press(reading) PROVE MenusInv'
  <2>1. repeatCnt' \in 0..RepeatMax
    BY <1>5 DEF Press, RepeatMax
  <2>2. Raise(reading, reading) \/ Wait(reading)
    BY <1>5 DEF Press
  <2> QED
    BY <1>5, <2>1, <2>2, ReadingInv, PressPress DEF MenusInv
<1> QED
  BY <1>2, <1>3, <1>4, <1>5 DEF Poll

LEMMA SettleInv == MenusInv /\ Settle => MenusInv'
<1> SUFFICES ASSUME MenusInv, Settle PROVE MenusInv'
  OBVIOUS
<1> DEFINE s == IF result = "AUTO" THEN findTransition(state, event) ELSE result
<1>1. ScreenInv /\ PressInv /\ RestInv /\ s \in States
  BY SettleTarget DEF MenusInv
<1>2. setState(s) /\ buttonState' = AfterKeyup(state', event)
      /\ event' = "NONE" /\ result' = "AUTO"
      /\ UNCHANGED <<lastButton, active, toasts, sampled, held, acts, raced>>
  BY DEF Settle
<1> HIDE DEF s
<1>3. ScreenInv' /\ repeatCnt' \in 0..RepeatMax
  BY <1>1, <1>2, SetStateInv DEF RestInv
<1>4. RestInv'
  BY <1>1, <1>2, <1>3 DEF RestInv, ButtonEvents, Readings
<1>5. buttonState' \in {buttonState, "WaitForKeyup"}
  BY <1>2 DEF AfterKeyup
<1>6. ASSUME held = "LEFT", acts > 0, ~raced PROVE buttonState' = "WaitForKeyup"
  <2>1. CASE buttonState = "WaitForKeyup"
    BY <1>5, <2>1
  <2>2. CASE event = "LEFT" /\ result = "AUTO" /\ state \in HomeScreens
    <3>1. s = state
      BY <2>2 DEF s, findTransition, HomeScreens, ProbeScreens, EditMenus, NumberMenus
    <3>2. state' = state
      BY <1>2, <3>1 DEF setState
    <3> QED
      BY <1>2, <2>2, <3>2 DEF AfterKeyup, HasLongpress
  <2> QED
    BY <1>1, <1>6, <2>1, <2>2 DEF PressInv
<1>7. PressInv'
  BY <1>1, <1>2, <1>5, <1>6 DEF PressInv
<1> QED
  BY <1>3, <1>4, <1>7 DEF MenusInv

LEMMA PeriodInv == MenusInv /\ Period => MenusInv'
<1> SUFFICES ASSUME MenusInv, Period PROVE MenusInv'
  OBVIOUS
<1>1. ScreenInv /\ PressInv /\ RestInv /\ "HOME_ALARM" \in States /\ "HOME_FOOD1" \in States
  BY DEF MenusInv, States, HomeScreens, ProbeScreens
<1>2. event = "NONE" /\ event' = event /\ active' \in ActiveSets
      /\ UNCHANGED <<lastButton, buttonState, result, toasts, held, acts, raced>>
  BY DEF Period
<1>3. sampled' \in BOOLEAN
  <2>1. sampled' = FALSE
    BY DEF Period
  <2> QED
    BY <2>1, Zenon
<1>4. ScreenInv' /\ repeatCnt' \in 0..RepeatMax
  <2>1. CASE setState("HOME_ALARM") \/ setState("HOME_FOOD1")
    BY <1>1, <2>1, SetStateInv DEF RestInv
  <2>2. CASE UNCHANGED <<screenVars, repeatCnt>>
    BY <1>1, <2>2 DEF ScreenInv, Enter, screenVars, RestInv
  <2> QED
    BY <2>1, <2>2 DEF Period
<1>5. RestInv'
  BY <1>1, <1>2, <1>3, <1>4 DEF RestInv
<1>6. PressInv'
  BY <1>1, <1>2 DEF PressInv
<1> QED
  BY <1>4, <1>5, <1>6 DEF MenusInv

LEMMA ToastInv == MenusInv /\ Toast => MenusInv'
<1> SUFFICES ASSUME MenusInv, Toast PROVE MenusInv'
  OBVIOUS
<1>1. ScreenInv /\ PressInv /\ RestInv /\ "TOAST" \in States
  BY DEF MenusInv, States
<1>2. toasts' = toasts + 1 /\ toasts < MaxToasts
      /\ UNCHANGED <<lastButton, buttonState, event, result, active, sampled, held, acts>>
  BY DEF Toast
<1>3. (raced' <=> raced \/ (event = "LEFT" /\ state \in HomeScreens)) /\ raced' \in BOOLEAN
  BY Zenon DEF Toast
<1>4. ScreenInv' /\ repeatCnt' \in 0..RepeatMax
  <2>1. CASE setState("TOAST")
    BY <1>1, <2>1, SetStateInv DEF RestInv
  <2>2. CASE UNCHANGED <<screenVars, repeatCnt>>
    BY <1>1, <2>2 DEF ScreenInv, Enter, screenVars, RestInv
  <2> QED
    BY <2>1, <2>2 DEF Toast
<1>5. RestInv'
  BY <1>1, <1>2, <1>4, MenusAssumption DEF RestInv
<1>6. PressInv'
  BY <1>1, <1>2, <1>3 DEF PressInv
<1> QED
  BY <1>4, <1>5, <1>6 DEF MenusInv

LEMMA CommandInv == MenusInv /\ Command => MenusInv'
<1> SUFFICES ASSUME MenusInv, Command PROVE MenusInv'
  OBVIOUS
<1>1. ScreenInv /\ PressInv /\ RestInv
  BY DEF MenusInv
<1>2. UNCHANGED <<state, lastState, editInt, lastButton, buttonState, repeatCnt, event, result,
                  active, toasts, sampled, held, acts, raced>> /\ touched' = TRUE
  BY DEF Command, buttonVars
<1>3. pid' \in Settings
  <2> USE MenusAssumption
  <2>1. pid \in Settings /\ 0 \in 0..(Top + 1)
    BY <1>1 DEF ScreenInv
  <2>2. \A w \in 0..(Top + 1) : storeSetPoint(pid, w) \in Settings
    BY <2>1 DEF storeSetPoint, Settings, NumberMenus
  <2>3. \A m \in NumberMenus, w \in 0..(Top + 1) : storeNumber(pid, m, w) \in Settings
    BY <2>1, StoreNumberType
  <2>4. ASSUME NEW m \in Edited \cap NumberMenus, NEW v \in 1..(Top + 1),
               pid' = IF m = "SETPOINT" THEN storeSetPoint(pid, v) ELSE storeNumber(pid, m, v)
        PROVE  pid' \in Settings
    BY <2>2, <2>3, <2>4
  <2>5. [pid EXCEPT !.mode = "off"] \in Settings
    BY <2>1 DEF Settings
  <2> QED
    BY <2>1, <2>2, <2>4, <2>5 DEF Command
<1>4. ScreenInv'
  BY <1>1, <1>2, <1>3 DEF ScreenInv
<1> QED
  BY <1>1, <1>2, <1>4 DEF MenusInv, PressInv, RestInv

LEMMA NextInv == MenusInv /\ [Next]_vars => MenusInv'
<1> SUFFICES ASSUME MenusInv, UNCHANGED vars PROVE MenusInv'
  BY PollInv, SettleInv, PeriodInv, ToastInv, CommandInv DEF Next
<1> QED
  BY DEF MenusInv, ScreenInv, PressInv, RestInv, Enter, vars, screenVars, buttonVars

LEMMA MenusInvHolds == Spec => []MenusInv
  BY InitInv, NextInv, PTL DEF Spec

\* A press of LEFT acts at most once, unless a toast takes its screen away in
\* the middle of it, for any number of toasts (the long press states of
\* MenuSystem::doWork).
THEOREM LeftActsOnce == Spec => []OneActionPerPress
<1>1. MenusInv => OneActionPerPress
  <2> SUFFICES ASSUME MenusInv PROVE TypeOK /\ (acts <= 1 \/ raced)
    BY DEF OneActionPerPress
  <2>1. acts \in 0..2 /\ (acts > 1 => raced)
    BY DEF MenusInv, PressInv
  <2> QED
    BY <2>1, InvTypeOK
<1> QED
  BY <1>1, MenusInvHolds, PTL

-----------------------------------------------------------------------------
\* A menu whose value was not touched stores nothing on being left.
LEMMA UntouchedKeeps ==
  ASSUME ScreenInv, state \in EditMenus, ~touched, Offered
  PROVE  Leave(state, pid, editInt) = pid
<1>0. editInt = Enter(state, pid, editInt)
  BY DEF ScreenInv
<1>1. CASE state = "MANUALMODE"
  <2>1. editInt # 0 <=> pid.mode = "manual"
    BY <1>0, <1>1 DEF Enter, NumberMenus
  <2>2. ~((editInt # 0) # (pid.mode = "manual"))
    BY <2>1, Zenon
  <2>3. ~Stores(pid, state, editInt)
    BY <1>1, <2>2 DEF Stores, StoredAlways
  <2> QED
    BY <2>3 DEF Leave
<1>2. CASE state = "RESETCONFIG"
  <2>1. editInt = 0
    BY <1>0, <1>2 DEF Enter, NumberMenus
  <2>2. ~Stores(pid, state, editInt)
    BY <1>2, <2>1 DEF Stores, StoredAlways
  <2> QED
    BY <2>2 DEF Leave
<1>3. CASE state \in NumberMenus
  <2>1. pid \in Settings /\ pid.setting[state] \in 0..Top
    BY <1>3, MenusAssumption DEF ScreenInv, Settings, Offered
  <2>2. editInt = Clamp(pid.setting[state], 0, Top)
    BY <1>0, <1>3 DEF Enter, NumberMenus
  <2>3. editInt = pid.setting[state]
    BY <2>1, <2>2, MenusAssumption DEF Clamp
  <2>4. CASE state \in StoredAlways
    <3>1. Leave(state, pid, editInt) = storeNumber(pid, state, editInt)
      BY <2>4 DEF Leave, Stores, StoredAlways, EditMenus, NumberMenus
    <3>2. (state = "LIDOPEN_DUR") => editInt >= 1
      BY <2>1, <2>3 DEF Settings
    <3>3. storeNumber(pid, state, editInt) = [pid EXCEPT !.setting[state] = editInt]
      BY <2>1, <2>3, <3>2, MenusAssumption DEF storeNumber, Clamp
    <3>4. [pid EXCEPT !.setting[state] = pid.setting[state]] = pid
      BY <1>3, <2>1 DEF Settings
    <3> QED
      BY <2>3, <3>1, <3>3, <3>4
  <2>5. CASE state \notin StoredAlways
    <3>1. ~Stores(pid, state, editInt)
      BY <1>3, <2>3, <2>5 DEF Stores, NumberMenus
    <3> QED
      BY <3>1 DEF Leave
  <2> QED
    BY <2>4, <2>5
<1> QED
  BY <1>1, <1>2, <1>3 DEF EditMenus

\* Leaving a menu in which nothing was edited changes no setting, whatever
\* range its number has and whatever leaves it (BUTTON_LEAVE in hmmenus.cpp).
THEOREM BrowsingIsHarmless == Spec => BrowsingKeepsSettings
<1>1. ASSUME MenusInv, [Next]_vars
      PROVE  [(state \in EditMenus /\ state' # state /\ ~touched /\ Offered)
                => (pid' = pid)]_vars
  <2> SUFFICES ASSUME state \in EditMenus, state' # state, ~touched, Offered
               PROVE  pid' = pid
    OBVIOUS
  <2>1. ASSUME NEW s, setState(s) PROVE pid' = pid
    BY <1>1, <2>1, UntouchedKeeps DEF setState, MenusInv
  <2>2. CASE Settle
    BY <2>1, <2>2 DEF Settle
  <2>3. CASE Period
    BY <2>1, <2>3 DEF Period, screenVars
  <2>4. CASE Toast
    BY <2>1, <2>4 DEF Toast, screenVars
  <2>5. CASE Poll
    BY <2>5 DEF Poll, Timeout, Repeat, Release, Press, Raise, Wait, Handled, Ignored, screenVars
  <2>6. CASE Command \/ UNCHANGED vars
    BY <2>6 DEF Command, vars, screenVars
  <2> QED
    BY <1>1, <2>2, <2>3, <2>4, <2>5, <2>6 DEF Next
<1> QED
  BY <1>1, MenusInvHolds, PTL DEF Spec, BrowsingKeepsSettings

-----------------------------------------------------------------------------
(* The event stream                                                        *)

\* A set of numbers with a bound has a greatest.
LEMMA MaxExists ==
  ASSUME NEW n \in Nat, NEW S \in SUBSET (1..n), S # {}
  PROVE  Max(S) \in S
<1> DEFINE T == {k \in Nat : \E i \in S : k = n - i}
<1>1. T \subseteq Nat /\ T # {}
  <2>1. PICK i \in S : TRUE
    OBVIOUS
  <2>2. n - i \in T
    OBVIOUS
  <2> QED
    BY <2>2
<1>2. PICK x \in T : \A y \in T : ~(<<y, x>> \in OpToRel(<, Nat))
  <2> HIDE DEF T
  <2> QED
    BY <1>1, WFMin, NatLessThanWellFounded, Zenon
<1>3. \A y \in T : ~(y < x)
  <2> HIDE DEF T
  <2>1. ASSUME NEW y \in T, y < x PROVE <<y, x>> \in OpToRel(<, Nat)
    <3>1. y \in Nat /\ x \in Nat
      BY <1>1
    <3> QED
      BY <2>1, <3>1, Zenon DEF OpToRel
  <2> QED
    BY <1>2, <2>1
<1>4. PICK m \in S : x = n - m
  OBVIOUS
<1>5. \A k \in S : m >= k
  <2> TAKE k \in S
  <2>1. n - k \in T
    OBVIOUS
  <2>2. ~(n - k < n - m)
    BY <1>3, <1>4, <2>1
  <2> QED
    BY <2>2
<1> QED
  BY <1>5 DEF Max

\* Whatever is received, the status shown is a status or still nothing.
LEMMA LastStatusType ==
  ASSUME shown \in Status \cup {Nothing}, NEW events \in Seq(Events)
  PROVE  LastStatus(events) \in Status \cup {Nothing}
<1> DEFINE statuses == {i \in DOMAIN events : events[i] \in Status}
<1>1. statuses \in SUBSET (1..Len(events)) /\ Len(events) \in Nat
  OBVIOUS
<1>2. statuses # {} => Max(statuses) \in statuses
  <2> HIDE DEF statuses
  <2> QED
    BY <1>1, MaxExists
<1>3. statuses # {} => events[Max(statuses)] \in Status
  BY <1>2
<1> QED
  BY <1>3 DEF LastStatus
Sends == [sent : Seq(Events), watched : BOOLEAN]

\* But for a moment before a send, nothing waits in the buffer that the newest
\* send does not take.
SendsInv ==
  /\ status \in Status /\ shown \in Status \cup {Nothing}
  /\ buffer \in Seq(Events) /\ sends \in Seq(Sends)
  /\ client # "gone" /\ pc \in {"sleep", "status", "internals"} =>
       IF sends = <<>> THEN buffer = <<>> ELSE Len(buffer) <= Len(Last(sends).sent)

\* What Wake has seen room for fits.
RoomInv ==
  /\ Len(buffer) <= MaxPending /\ Len(sends) <= MaxPending
  /\ pc = "status"        => Len(buffer) + 2 <= MaxPending /\ Len(sends) + 2 <= MaxPending
  /\ pc = "sendStatus"    => Len(buffer) + 1 <= MaxPending /\ Len(sends) + 2 <= MaxPending
  /\ pc = "internals"     => Len(buffer) + 1 <= MaxPending /\ Len(sends) + 1 <= MaxPending
  /\ pc = "sendInternals" => Len(sends) + 1 <= MaxPending

StreamInv == SendsInv /\ RoomInv

LEMMA StreamInitInv == StreamInit => StreamInv
<1> SUFFICES ASSUME StreamInit PROVE StreamInv
  OBVIOUS
<1>1. buffer = <<>> /\ sends = <<>> /\ pc = "none" /\ status \in Status /\ shown = Nothing
  BY DEF StreamInit
<1> QED
  BY <1>1, StreamAssumption DEF StreamInv, SendsInv, RoomInv

LEMMA OpenInv == StreamInv /\ OpenStream => StreamInv'
<1> SUFFICES ASSUME StreamInv, OpenStream PROVE StreamInv'
  OBVIOUS
<1> DEFINE op == [sent |-> <<Header>>, watched |-> FALSE]
<1>1. pc' = "status" /\ buffer' = <<Header>> /\ sends' = <<op>> /\ status' = status
      /\ shown' = Nothing
  BY DEF OpenStream
<1>2. Header \in Events /\ <<Header>> \in Seq(Events)
  BY DEF Events
<1>3. op \in Sends /\ op.sent = <<Header>>
  BY <1>2 DEF Sends
<1> HIDE DEF op
<1>4. <<op>> \in Seq(Sends) /\ Len(<<op>>) = 1 /\ <<op>>[1] = op /\ <<op>> # <<>>
      /\ Len(<<Header>>) = 1
  BY <1>3
<1>5. Len(buffer') <= Len(Last(sends').sent)
  BY <1>1, <1>3, <1>4 DEF Last
<1>6. SendsInv'
  BY <1>1, <1>2, <1>4, <1>5 DEF StreamInv, SendsInv
<1>7. RoomInv'
  BY <1>1, <1>4, StreamAssumption DEF RoomInv
<1> QED
  BY <1>6, <1>7 DEF StreamInv

\* A send begun takes all that is in the buffer.
LEMMA SendTakesAll ==
  ASSUME SendsInv, NEW watched \in BOOLEAN, Send(watched)
  PROVE  /\ sends' \in Seq(Sends) /\ Len(sends') = Len(sends) + 1 /\ sends' # <<>>
         /\ buffer' = buffer /\ Len(buffer') <= Len(Last(sends').sent)
<1> DEFINE op == [sent |-> buffer, watched |-> watched]
<1>1. sends' = Append(sends, op) /\ buffer' = buffer
  BY DEF Send
<1>2. op \in Sends /\ op.sent = buffer /\ sends \in Seq(Sends)
  BY DEF SendsInv, Sends
<1> HIDE DEF op
<1>3. /\ sends' \in Seq(Sends) /\ Len(sends') = Len(sends) + 1
      /\ sends'[Len(sends) + 1] = op
  BY <1>1, <1>2
<1>4. sends' # <<>> /\ Last(sends') = op
  BY <1>2, <1>3 DEF Last
<1>5. Len(buffer') <= Len(op.sent)
  BY <1>1, <1>2 DEF SendsInv
<1> QED
  BY <1>1, <1>3, <1>4, <1>5

LEMMA StreamThreadInv == StreamInv /\ StreamThread => StreamInv'
<1> SUFFICES ASSUME StreamInv, StreamThread PROVE StreamInv'
  OBVIOUS
<1>1. SendsInv /\ RoomInv
  BY DEF StreamInv
<1>2. buffer \in Seq(Events) /\ status \in Status /\ Len(buffer) \in Nat /\ Len(sends) \in Nat
  BY <1>1 DEF SendsInv
<1>3. CASE AppendStatus
  <2>1. pc = "status" /\ pc' = "sendStatus" /\ buffer' = Append(buffer, status)
        /\ UNCHANGED <<status, sends, client, shown>>
    BY <1>3 DEF AppendStatus
  <2>2. buffer' \in Seq(Events) /\ Len(buffer') = Len(buffer) + 1
    BY <1>2, <2>1 DEF Events
  <2>3. SendsInv'
    BY <1>1, <2>1, <2>2 DEF SendsInv
  <2>4. RoomInv'
    BY <1>1, <1>2, <2>1, <2>2, StreamAssumption DEF RoomInv
  <2> QED
    BY <2>3, <2>4 DEF StreamInv
<1>4. CASE SendStatus
  <2>1. pc = "sendStatus" /\ pc' = "internals" /\ Send(TRUE)
        /\ UNCHANGED <<status, client, shown>>
    BY <1>4 DEF SendStatus
  <2>2. /\ sends' \in Seq(Sends) /\ Len(sends') = Len(sends) + 1 /\ sends' # <<>>
        /\ buffer' = buffer /\ Len(buffer') <= Len(Last(sends').sent)
    BY <1>1, <1>2, <2>1, SendTakesAll
  <2>3. SendsInv'
    BY <1>1, <2>1, <2>2 DEF SendsInv
  <2>4. RoomInv'
    BY <1>1, <1>2, <2>1, <2>2, StreamAssumption DEF RoomInv
  <2> QED
    BY <2>3, <2>4 DEF StreamInv
<1>5. CASE AppendInternals
  <2>1. pc = "internals" /\ UNCHANGED <<status, sends, client, shown>>
    BY <1>5 DEF AppendInternals
  <2>2. CASE news
    <3>1. buffer' = Append(buffer, Internals) /\ pc' = "sendInternals"
      BY <1>5, <2>2 DEF AppendInternals
    <3>2. buffer' \in Seq(Events) /\ Len(buffer') = Len(buffer) + 1
      BY <1>2, <3>1 DEF Events
    <3>3. SendsInv'
      BY <1>1, <2>1, <3>1, <3>2 DEF SendsInv
    <3>4. RoomInv'
      BY <1>1, <1>2, <2>1, <3>1, <3>2, StreamAssumption DEF RoomInv
    <3> QED
      BY <3>3, <3>4 DEF StreamInv
  <2>3. CASE ~news
    <3>1. buffer' = buffer /\ pc' = "sleep"
      BY <1>5, <2>3 DEF AppendInternals
    <3> QED
      BY <1>1, <2>1, <3>1 DEF StreamInv, SendsInv, RoomInv
  <2> QED
    BY <2>2, <2>3
<1>6. CASE SendInternals
  <2>1. pc = "sendInternals" /\ pc' = "sleep" /\ Send(TRUE)
        /\ UNCHANGED <<status, client, shown>>
    BY <1>6 DEF SendInternals
  <2>2. /\ sends' \in Seq(Sends) /\ Len(sends') = Len(sends) + 1 /\ sends' # <<>>
        /\ buffer' = buffer /\ Len(buffer') <= Len(Last(sends').sent)
    BY <1>1, <1>2, <2>1, SendTakesAll
  <2>3. SendsInv'
    BY <1>1, <2>1, <2>2 DEF SendsInv
  <2>4. RoomInv'
    BY <1>1, <1>2, <2>1, <2>2, StreamAssumption DEF RoomInv
  <2> QED
    BY <2>3, <2>4 DEF StreamInv
<1>7. CASE Wake
  <2>1. pc = "sleep" /\ UNCHANGED <<status, buffer, sends, client, shown>>
        /\ (pc' = "none" \/ (Room /\ pc' = "status"))
    BY <1>7 DEF Wake
  <2> QED
    BY <1>1, <2>1 DEF StreamInv, SendsInv, RoomInv, Room
<1> QED
  BY <1>3, <1>4, <1>5, <1>6, <1>7 DEF StreamThread

\* The oldest send is over: the newest is still the newest.
LEMMA OldestOver ==
  ASSUME sends \in Seq(Sends), sends # <<>>, sends' = Tail(sends)
  PROVE  /\ sends' \in Seq(Sends) /\ Len(sends') = Len(sends) - 1
         /\ Head(sends).sent \in Seq(Events)
         /\ sends' = <<>> => Last(sends) = Head(sends)
         /\ sends' # <<>> => Last(sends') = Last(sends)
<1>1. Len(sends) \in Nat \ {0} /\ Head(sends) = sends[1] /\ sends[1] \in Sends
  BY EmptySeq
<1>2. sends' \in Seq(Sends) /\ Len(sends') = Len(sends) - 1
      /\ \A i \in 1..Len(sends') : sends'[i] = sends[i + 1]
  BY <1>1, HeadTailProperties
<1>3. Head(sends).sent \in Seq(Events)
  BY <1>1 DEF Sends
<1>4. sends' = <<>> => Last(sends) = Head(sends)
  <2>1. sends' = <<>> => Len(sends') = 0
    OBVIOUS
  <2> QED
    BY <1>1, <1>2, <2>1 DEF Last
<1>5. sends' # <<>> => Last(sends') = Last(sends)
  <2> SUFFICES ASSUME sends' # <<>> PROVE Last(sends') = Last(sends)
    OBVIOUS
  <2>1. Len(sends') \in 1..Len(sends')
    BY <1>2, EmptySeq
  <2> QED
    BY <1>1, <1>2, <2>1 DEF Last
<1> QED
  BY <1>2, <1>3, <1>4, <1>5

LEMMA CompleteInv == StreamInv /\ Complete => StreamInv'
<1> SUFFICES ASSUME StreamInv, Complete PROVE StreamInv'
  OBVIOUS
<1>1. SendsInv /\ RoomInv
  BY DEF StreamInv
<1>2. sends \in Seq(Sends) /\ buffer \in Seq(Events)
      /\ Len(buffer) \in Nat /\ Len(sends) \in Nat
  BY <1>1 DEF SendsInv
<1>3. sends # <<>> /\ sends' = Tail(sends) /\ UNCHANGED <<status, pc, client>>
  BY DEF Complete, Sent, SendFailed
<1>4. /\ sends' \in Seq(Sends) /\ Len(sends') = Len(sends) - 1
      /\ Head(sends).sent \in Seq(Events)
      /\ sends' = <<>> => Last(sends) = Head(sends)
      /\ sends' # <<>> => Last(sends') = Last(sends)
  BY <1>2, <1>3, OldestOver
<1>5. CASE Sent
  <2> DEFINE taken == Len(Head(sends).sent)
  <2>1. buffer' = SubSeq(buffer, taken + 1, Len(buffer)) /\ taken \in Nat
    BY <1>4, <1>5 DEF Sent
  <2>2. shown' \in Status \cup {Nothing}
    <3>1. shown' \in {shown, LastStatus(Head(sends).sent)}
      BY <1>5 DEF Sent
    <3>2. shown \in Status \cup {Nothing}
      BY <1>1 DEF SendsInv
    <3> QED
      BY <1>4, <3>1, <3>2, LastStatusType
  <2>3. /\ buffer' \in Seq(Events) /\ Len(buffer') <= Len(buffer)
        /\ Len(buffer) <= taken => Len(buffer') = 0
    <3> HIDE DEF taken
    <3>1. CASE taken + 1 <= Len(buffer)
      BY <1>2, <2>1, <3>1, SubSeqProperties
    <3>2. CASE taken + 1 > Len(buffer)
      <4>1. buffer' = <<>>
        BY <1>2, <2>1, <3>2
      <4> QED
        BY <1>2, <4>1
    <3> QED
      BY <1>2, <2>1, <3>1, <3>2
  <2>4. ASSUME client' # "gone", pc' \in {"sleep", "status", "internals"}
        PROVE  IF sends' = <<>> THEN buffer' = <<>> ELSE Len(buffer') <= Len(Last(sends').sent)
    <3>1. Len(buffer) <= Len(Last(sends).sent)
      BY <1>1, <1>3, <2>4 DEF SendsInv
    <3>2. CASE sends' = <<>>
      <4>1. Len(buffer') = 0
        BY <1>4, <2>3, <3>1, <3>2
      <4> QED
        BY <2>3, <3>2, <4>1, EmptySeq
    <3>3. CASE sends' # <<>>
      <4>1. Last(sends).sent \in Seq(Events)
        <5>1. Last(sends) \in Sends
          BY <1>2, <1>3, EmptySeq DEF Last
        <5> QED
          BY <5>1 DEF Sends
      <4> QED
        BY <1>2, <1>4, <2>3, <3>1, <3>3, <4>1
    <3> QED
      BY <3>2, <3>3
  <2>5. SendsInv'
    BY <1>1, <1>3, <1>4, <2>2, <2>3, <2>4 DEF SendsInv
  <2>6. RoomInv'
    BY <1>1, <1>2, <1>3, <1>4, <2>3, StreamAssumption DEF RoomInv
  <2> QED
    BY <2>5, <2>6 DEF StreamInv
<1>6. CASE SendFailed
  <2>1. client = "gone" /\ buffer' = buffer /\ shown' = shown
    BY <1>6 DEF SendFailed
  <2>2. SendsInv'
    BY <1>1, <1>3, <1>4, <2>1 DEF SendsInv
  <2>3. RoomInv'
    BY <1>1, <1>2, <1>3, <1>4, <2>1, StreamAssumption DEF RoomInv
  <2> QED
    BY <2>2, <2>3 DEF StreamInv
<1> QED
  BY <1>5, <1>6 DEF Complete

\* What the client does, and the rest of the program, leaves buffer and sends.
LEMMA OthersInv ==
  StreamInv /\ (ClientStep \/ ConnectionReset \/ RivalAsks \/ UNCHANGED streamVars) => StreamInv'
<1> SUFFICES ASSUME StreamInv,
                    ClientStep \/ ConnectionReset \/ RivalAsks \/ UNCHANGED streamVars
             PROVE  StreamInv'
  OBVIOUS
<1>1. UNCHANGED <<status, pc, buffer, sends, shown>>
  BY DEF ClientStep, ConnectionReset, RivalAsks, streamVars
<1>2. client' # "gone" /\ pc' \in {"sleep", "status", "internals"} => client # "gone"
  BY <1>1 DEF ClientStep, ConnectionReset, RivalAsks, streamVars
<1> QED
  BY <1>1, <1>2 DEF StreamInv, SendsInv, RoomInv

LEMMA StatusInv ==
  ASSUME StreamInv, NEW s \in Status, NEW isNews, StatusChanges(s, isNews)
  PROVE  StreamInv'
<1>1. status' = s /\ UNCHANGED <<pc, buffer, sends, client, shown>>
  BY DEF StatusChanges
<1> QED
  BY <1>1 DEF StreamInv, SendsInv, RoomInv
-----------------------------------------------------------------------------
(* The history                                                             *)

Downloads ==
  [next : Nat \ {0}, rows : Seq(Nat \cup {Garbage}), target : Nat, stale : BOOLEAN,
   torn : BOOLEAN, began : Nat, span : Spans, present : Nat]

\* Up to the entry it has come to, a download that met no torn slot has shown
\* every time within its span, in order; it has not passed the end of what it
\* has seen, nor has the end come back behind the one it began with.
DownloadInv ==
  /\ download \in Downloads
  /\ download.began < Word /\ download.present <= finish /\ download.next <= finish + 1
  /\ download.target = IF download.span > 0 THEN (download.began - download.span) % Word ELSE 0
  /\ ~download.torn =>
       /\ download.rows \in Seq(Nat) /\ Ascending(download.rows)
       /\ Range(download.rows) = {t \in boot + 1 .. boot + download.next - 1 : Within(t)}

\* The entry of slot i was written at boot + i.
EntriesInv ==
  /\ boot \in Boots /\ entries \in Seq(Nat) /\ Len(entries) <= MaxEntries
  /\ \A i \in 1..Len(entries) : entries[i] = boot + i
  /\ unseen \subseteq {"slot", "finish"} /\ (unseen # {} => Len(entries) > 0)

HistoryInv == EntriesInv /\ (download # NoDownload => DownloadInv)

LEMMA HistoryInitInv == HistoryInit => HistoryInv
  BY HistoryAssumption DEF HistoryInit, HistoryInv, EntriesInv

LEMMA FinishType ==
  EntriesInv => finish \in Nat /\ finish <= Len(entries) /\ boot \in Nat /\ Len(entries) \in Nat
  BY HistoryAssumption DEF EntriesInv, finish

\* A step that moves neither the download nor, backwards, the end
LEMMA DownloadKept ==
  ASSUME DownloadInv, EntriesInv, EntriesInv',
         boot' = boot, finish <= finish', download' \in Downloads,
         \A f \in {"next", "rows", "target", "torn", "began", "span", "present"} :
           download'[f] = download[f]
  PROVE  DownloadInv'
<1>1. /\ download'.next = download.next /\ download'.rows = download.rows
      /\ download'.target = download.target /\ download'.torn = download.torn
      /\ download'.began = download.began /\ download'.span = download.span
      /\ download'.present = download.present
  OBVIOUS
<1>2. finish \in Nat /\ finish' \in Nat
  BY HistoryAssumption DEF EntriesInv, finish
<1>3. download \in Downloads /\ download.next \in Nat /\ download.present \in Nat
  BY DEF DownloadInv, Downloads
<1>4. download'.present <= finish' /\ download'.next <= finish' + 1
  BY <1>1, <1>2, <1>3 DEF DownloadInv
<1>5. ~download'.torn =>
       /\ download'.rows \in Seq(Nat) /\ Ascending(download'.rows)
       /\ Range(download'.rows) =
            {t \in boot' + 1 .. boot' + download'.next - 1 : t > download'.target}
  BY <1>1 DEF DownloadInv, Within
<1> QED
  BY <1>1, <1>4, <1>5 DEF DownloadInv, Within

LEMMA WriteInv == HistoryInv /\ writeHistory => HistoryInv'
<1> SUFFICES ASSUME HistoryInv, writeHistory PROVE HistoryInv'
  OBVIOUS
<1>1. EntriesInv /\ boot' = boot /\ unseen = {} /\ Len(entries) < MaxEntries
      /\ entries' = Append(entries, now + 1)
  BY DEF HistoryInv, writeHistory
<1>2. now + 1 = boot + Len(entries) + 1 /\ boot \in Nat /\ Len(entries) \in Nat
  BY <1>1, FinishType DEF now
<1>3. /\ entries' \in Seq(Nat) /\ Len(entries') = Len(entries) + 1
      /\ \A i \in 1..Len(entries) : entries'[i] = entries[i]
      /\ entries'[Len(entries) + 1] = boot + Len(entries) + 1
  BY <1>1, <1>2 DEF EntriesInv
<1>4. unseen' = {} \/ unseen' = {"slot", "finish"}
  BY DEF writeHistory
<1>5. EntriesInv'
  <2>1. \A i \in 1..Len(entries') : entries'[i] = boot' + i
    <3> TAKE i \in 1..Len(entries')
    <3>1. CASE i = Len(entries) + 1
      BY <1>1, <1>2, <1>3, <3>1
    <3>2. CASE i \in 1..Len(entries)
      BY <1>1, <1>3, <3>2 DEF EntriesInv
    <3>3. i = Len(entries) + 1 \/ i \in 1..Len(entries)
      BY <1>2, <1>3
    <3> QED
      BY <3>1, <3>2, <3>3
  <2>2. Len(entries') <= MaxEntries /\ Len(entries') > 0
    BY <1>1, <1>2, <1>3, HistoryAssumption
  <2>3. unseen' \subseteq {"slot", "finish"} /\ boot' \in Boots
    BY <1>1, <1>4 DEF EntriesInv
  <2> QED
    BY <1>3, <2>1, <2>2, <2>3 DEF EntriesInv
<1>6. finish <= finish'
  BY <1>1, <1>2, <1>3 DEF finish
<1>7. ASSUME download' # NoDownload PROVE DownloadInv'
  <2>1. download' = download \/ (download # NoDownload /\ download' = [download EXCEPT !.stale = TRUE])
    BY DEF writeHistory
  <2>2. DownloadInv
    BY <1>7, <2>1 DEF HistoryInv
  <2>3. download \in Downloads
    BY <2>2 DEF DownloadInv
  <2>4. download' \in Downloads
        /\ \A f \in {"next", "rows", "target", "torn", "began", "span", "present"} :
             download'[f] = download[f]
    BY <2>1, <2>3 DEF Downloads
  <2> QED
    BY <1>1, <1>5, <1>6, <2>2, <2>4, DownloadKept
<1> QED
  BY <1>5, <1>7 DEF HistoryInv

LEMMA SeenInv == HistoryInv /\ StoreSeen => HistoryInv'
<1> SUFFICES ASSUME HistoryInv, StoreSeen PROVE HistoryInv'
  OBVIOUS
<1>1. EntriesInv /\ UNCHANGED <<boot, entries, download>> /\ unseen' \subseteq unseen
  BY DEF HistoryInv, StoreSeen
<1>2. EntriesInv'
  BY <1>1 DEF EntriesInv
<1>3. finish <= finish'
  BY <1>1, FinishType DEF finish, EntriesInv
<1>4. ASSUME download' # NoDownload PROVE DownloadInv'
  <2>1. DownloadInv
    BY <1>1, <1>4 DEF HistoryInv
  <2>2. download' \in Downloads
    BY <1>1, <2>1 DEF DownloadInv
  <2> QED
    BY <1>1, <1>2, <1>3, <2>1, <2>2, DownloadKept
<1> QED
  BY <1>2, <1>4 DEF HistoryInv

LEMMA BeginInv ==
  ASSUME HistoryInv, NEW span \in Spans, BeginDownload(span)
  PROVE  HistoryInv'
<1>1. EntriesInv /\ UNCHANGED <<boot, entries, unseen>>
  BY DEF HistoryInv, BeginDownload
<1>2. EntriesInv' /\ finish' = finish
  BY <1>1 DEF EntriesInv, finish
<1>3. now \in Nat /\ now < Word /\ finish \in Nat /\ boot \in Nat /\ span \in Nat
      /\ Word \in Nat \ {0}
  BY <1>1, FinishType, HistoryAssumption DEF EntriesInv, now
<1>4. Target(span) \in Nat
      /\ Target(span) = IF span > 0 THEN (now - span) % Word ELSE 0
  BY <1>3 DEF Target
<1>5. download' = [next |-> 1, rows |-> <<>>, target |-> Target(span), stale |-> FALSE,
                   torn |-> FALSE, began |-> now, span |-> span, present |-> finish]
  BY DEF BeginDownload
<1>6. download' \in Downloads
  BY <1>3, <1>4, <1>5 DEF Downloads
<1>7. /\ download'.next = 1 /\ download'.rows = <<>> /\ download'.target = Target(span)
      /\ download'.began = now /\ download'.span = span /\ download'.present = finish
  BY <1>5
<1>8. Ascending(<<>>) /\ Range(<<>>) = {} /\ <<>> \in Seq(Nat)
  BY DEF Ascending, Range
<1>9. {t \in boot' + 1 .. boot' + download'.next - 1 : Within(t)'} = {}
  BY <1>1, <1>3, <1>7
<1>10. DownloadInv'
  BY <1>2, <1>3, <1>4, <1>6, <1>7, <1>8, <1>9 DEF DownloadInv
<1> QED
  BY <1>2, <1>10 DEF HistoryInv

\* A row later than all the rows is appended in order.
LEMMA AppendAscending ==
  ASSUME NEW s \in Seq(Nat), NEW time \in Nat, Ascending(s), \A t \in Range(s) : t < time
  PROVE  /\ Append(s, time) \in Seq(Nat) /\ Ascending(Append(s, time))
         /\ Range(Append(s, time)) = Range(s) \cup {time}
<1> DEFINE r == Append(s, time)
<1>0. Len(s) \in Nat
  OBVIOUS
<1>1. /\ r \in Seq(Nat) /\ Len(r) = Len(s) + 1 /\ Len(s) \in Nat
      /\ DOMAIN r = 1..(Len(s) + 1) /\ DOMAIN s = 1..Len(s)
      /\ \A i \in 1..Len(s) : r[i] = s[i]
      /\ r[Len(s) + 1] = time
  OBVIOUS
<1> HIDE DEF r
<1>2. \A i \in 1..Len(s) : s[i] < time
  BY <1>1 DEF Range
<1>3. Ascending(r)
  <2> SUFFICES ASSUME NEW i \in 1..(Len(s) + 1), NEW j \in 1..(Len(s) + 1), i < j
               PROVE  r[i] < r[j]
    BY <1>1 DEF Ascending
  <2>1. i \in 1..Len(s)
    BY <1>1
  <2>2. CASE j = Len(s) + 1
    BY <1>1, <1>2, <2>1, <2>2
  <2>3. CASE j \in 1..Len(s)
    BY <1>1, <2>1, <2>3 DEF Ascending
  <2>4. j = Len(s) + 1 \/ j \in 1..Len(s)
    BY <1>0
  <2> QED
    BY <2>2, <2>3, <2>4
<1>4. Range(r) = Range(s) \cup {time}
  <2>1. ASSUME NEW t \in Range(r) PROVE t \in Range(s) \cup {time}
    <3>1. PICK i \in 1..(Len(s) + 1) : t = r[i]
      BY <1>1 DEF Range
    <3>2. CASE i = Len(s) + 1
      BY <1>1, <3>1, <3>2
    <3>3. CASE i \in 1..Len(s)
      BY <1>1, <3>1, <3>3 DEF Range
    <3> QED
      BY <1>1, <3>2, <3>3
  <2>2. ASSUME NEW t \in Range(s) PROVE t \in Range(r)
    <3>1. PICK i \in 1..Len(s) : t = s[i]
      BY <1>1 DEF Range
    <3>2. i \in DOMAIN r /\ r[i] = t
      BY <1>1, <3>1
    <3> QED
      BY <3>2 DEF Range
  <2>3. time \in Range(r)
    <3>1. Len(s) + 1 \in DOMAIN r
      BY <1>1
    <3> QED
      BY <1>1, <3>1 DEF Range
  <2> QED
    BY <2>1, <2>2, <2>3
<1> QED
  BY <1>1, <1>3, <1>4 DEF r
LEMMA RowInv == HistoryInv /\ Row => HistoryInv'
<1> SUFFICES ASSUME HistoryInv, Row PROVE HistoryInv'
  OBVIOUS
<1> DEFINE k    == download.next
           d    == [download EXCEPT !.next = @ + 1]
           time == entries[k]
<1>1. EntriesInv /\ DownloadInv /\ UNCHANGED <<boot, entries, unseen>> /\ ~AtEnd
  BY DEF HistoryInv, Row
<1>2. EntriesInv' /\ finish' = finish
  BY <1>1 DEF EntriesInv, finish
<1>3. /\ download \in Downloads /\ k \in Nat \ {0} /\ finish \in Nat /\ k <= finish
      /\ boot \in Nat /\ k \in 1..Len(entries)
  BY <1>1, FinishType DEF DownloadInv, Downloads, AtEnd
<1>4. time = boot + k /\ time \in Nat
  BY <1>1, <1>3 DEF EntriesInv
<1>5. /\ d \in Downloads /\ d.next = k + 1 /\ d.rows = download.rows
      /\ d.target = download.target /\ d.torn = download.torn /\ d.stale = download.stale
      /\ d.began = download.began /\ d.span = download.span /\ d.present = download.present
  BY <1>3 DEF Downloads
<1> DEFINE shows(e) == /\ e \in Downloads /\ e.next = k + 1 /\ e.target = download.target
                       /\ e.began = download.began /\ e.span = download.span
                       /\ e.present = download.present
<1>6. ASSUME shows(download'), ~download'.torn =>
               /\ download'.rows \in Seq(Nat) /\ Ascending(download'.rows)
               /\ Range(download'.rows) = {t \in boot + 1 .. boot + k : Within(t)}
      PROVE  HistoryInv'
  <2>1. download'.present <= finish' /\ download'.next <= finish' + 1
    BY <1>1, <1>2, <1>3, <1>6 DEF DownloadInv
  <2>2. download'.began < Word
        /\ download'.target = IF download'.span > 0
                                THEN (download'.began - download'.span) % Word ELSE 0
    BY <1>1, <1>6 DEF DownloadInv
  <2>3. boot' + download'.next - 1 = boot + k /\ boot' + 1 = boot + 1
    BY <1>1, <1>3, <1>6
  <2>4. {t \in boot' + 1 .. boot' + download'.next - 1 : Within(t)'}
          = {t \in boot + 1 .. boot + k : Within(t)}
    BY <1>6, <2>3 DEF Within
  <2>5. DownloadInv'
    BY <1>6, <2>1, <2>2, <2>4 DEF DownloadInv
  <2> QED
    BY <1>2, <2>5 DEF HistoryInv
<1>7. CASE "slot" \in unseen /\ download.next = Len(entries)
  <2>1. download' \in {[d EXCEPT !.torn = TRUE],
                       [d EXCEPT !.torn = TRUE, !.rows = Append(@, Garbage)]}
    BY <1>7 DEF Row
  <2>2. Append(d.rows, Garbage) \in Seq(Nat \cup {Garbage})
    BY <1>5 DEF Downloads
  <2>3. shows(download') /\ download'.torn
    <3> HIDE DEF d
    <3> QED
      BY <1>5, <2>1, <2>2 DEF Downloads
  <2> QED
    BY <1>6, <2>3
<1>8. CASE ~("slot" \in unseen /\ download.next = Len(entries))
  <2>1. download' = IF Within(time) THEN [d EXCEPT !.rows = Append(@, time)] ELSE d
    BY <1>8 DEF Row
  <2>2. Append(d.rows, time) \in Seq(Nat \cup {Garbage})
    BY <1>4, <1>5 DEF Downloads
  <2>3. shows(download') /\ download'.torn = download.torn
        /\ download'.rows = IF Within(time) THEN Append(download.rows, time) ELSE download.rows
    <3> HIDE DEF d, time
    <3> QED
      BY <1>5, <2>1, <2>2 DEF Downloads
  <2>4. ASSUME ~download.torn
        PROVE  /\ download'.rows \in Seq(Nat) /\ Ascending(download'.rows)
               /\ Range(download'.rows) = {t \in boot + 1 .. boot + k : Within(t)}
    <3>1. /\ download.rows \in Seq(Nat) /\ Ascending(download.rows)
          /\ Range(download.rows) = {t \in boot + 1 .. boot + k - 1 : Within(t)}
      BY <1>1, <2>4 DEF DownloadInv
    <3>2. \A t \in Range(download.rows) : t < time
      BY <1>3, <1>4, <3>1
    <3>3. {t \in boot + 1 .. boot + k : Within(t)}
            = {t \in boot + 1 .. boot + k - 1 : Within(t)} \cup {t \in {time} : Within(t)}
      BY <1>3, <1>4
    <3> HIDE DEF time, k
    <3>4. CASE Within(time)
      <4>1. {t \in {time} : Within(t)} = {time}
        BY <3>4
      <4>2. /\ Append(download.rows, time) \in Seq(Nat)
            /\ Ascending(Append(download.rows, time))
            /\ Range(Append(download.rows, time)) = Range(download.rows) \cup {time}
        BY <1>4, <3>1, <3>2, AppendAscending
      <4> QED
        BY <2>3, <3>1, <3>3, <3>4, <4>1, <4>2
    <3>5. CASE ~Within(time)
      <4>1. {t \in {time} : Within(t)} = {}
        BY <3>5
      <4> QED
        BY <2>3, <3>1, <3>3, <3>5, <4>1
    <3> QED
      BY <3>4, <3>5
  <2> QED
    BY <1>6, <2>3, <2>4
<1> QED
  BY <1>7, <1>8

\* The end of a download and the end of the process
LEMMA EndInv ==
  HistoryInv /\ (EndDownload \/ EndStale \/ Crash \/ UNCHANGED historyVars) => HistoryInv'
<1> SUFFICES ASSUME HistoryInv, EndDownload \/ EndStale \/ Crash \/ UNCHANGED historyVars
             PROVE  HistoryInv'
  OBVIOUS
<1>1. CASE EndDownload \/ EndStale
  <2>1. download' = NoDownload /\ UNCHANGED <<boot, entries, unseen>>
    BY <1>1 DEF EndDownload, EndStale
  <2> QED
    BY <2>1 DEF HistoryInv, EntriesInv, NoDownload
<1>2. CASE Crash
  BY <1>2, HistoryAssumption DEF Crash, HistoryInv, EntriesInv, NoDownload
<1>3. CASE UNCHANGED historyVars
  BY <1>3 DEF historyVars, HistoryInv, EntriesInv, DownloadInv, finish, NoDownload, Within
<1> QED
  BY <1>1, <1>2, <1>3

-----------------------------------------------------------------------------
(* Both                                                                    *)

ReportsInv == HistoryInv /\ StreamInv

LEMMA ReportsNextInv == ReportsInv /\ [ReportsNext]_reportVars => ReportsInv'
<1> SUFFICES ASSUME ReportsInv, [ReportsNext]_reportVars PROVE ReportsInv'
  OBVIOUS
<1>1. HistoryInv /\ StreamInv
  BY DEF ReportsInv
<1>2. CASE HistoryNext
  <2>1. HistoryInv'
    BY <1>1, <1>2, WriteInv, SeenInv, BeginInv, RowInv, EndInv DEF HistoryNext, DownloadStep
  <2>2. UNCHANGED streamVars
    BY <1>2 DEF HistoryNext
  <2> QED
    BY <1>1, <2>1, <2>2, OthersInv DEF ReportsInv
<1>3. CASE Crash
  <2>1. UNCHANGED streamVars
    BY <1>3 DEF Crash
  <2> QED
    BY <1>1, <1>3, <2>1, EndInv, OthersInv DEF ReportsInv
<1>4. CASE StreamNext
  <2>1. UNCHANGED historyVars
    BY <1>4 DEF StreamNext, Streaming, Completing, Resetting
  <2>2. StreamInv'
    <3>1. CASE Measured
      BY <1>1, <3>1, StatusInv DEF Measured
    <3>2. CASE OpenStream \/ StreamThread \/ Complete
      BY <1>1, <3>2, OpenInv, StreamThreadInv, CompleteInv
    <3>3. CASE ClientStep \/ ConnectionReset \/ RivalAsks
      BY <1>1, <3>3, OthersInv
    <3> QED
      BY <1>4, <3>1, <3>2, <3>3 DEF StreamNext, Streaming, Completing, Resetting
  <2> QED
    BY <1>1, <2>1, <2>2, EndInv DEF ReportsInv
<1>5. CASE UNCHANGED reportVars
  BY <1>1, <1>5, EndInv, OthersInv DEF ReportsInv, reportVars
<1> QED
  BY <1>2, <1>3, <1>4, <1>5 DEF ReportsNext

LEMMA ReportsInvHolds == ReportsSpec => []ReportsInv
<1>1. ReportsInit => ReportsInv
  BY HistoryInitInv, StreamInitInv DEF ReportsInit, ReportsInv
<1> QED
  BY <1>1, ReportsNextInv, PTL DEF ReportsSpec

\* Once all sends have succeeded nothing is left in the response's buffer that
\* the stream would be behind by, however sends overlap (gom_server.cpp).
THEOREM NothingLeftUnsent == ReportsSpec => []ReportsTypeOK
<1>1. ReportsInv => ReportsTypeOK
  BY DEF ReportsInv, HistoryInv, EntriesInv, StreamInv, SendsInv, RoomInv, ReportsTypeOK
<1> QED
  BY <1>1, ReportsInvHolds, PTL

\* A download that met neither a moved vector nor a torn slot is complete and
\* in order, for any length of history, time span and clock (getHistoryCsv).
THEOREM DownloadsComplete == ReportsSpec => HistoryIsComplete
<1>1. ASSUME ReportsInv, EndDownload, ~download.torn, download.span <= download.began
      PROVE  /\ download.next > download.present
             /\ Ascending(download.rows)
             /\ Range(download.rows)
                  = {t \in Range(SubSeq(entries, 1, download.next - 1)) : Asked(t)}
  <2> DEFINE k == download.next - 1
  <2>1. EntriesInv /\ DownloadInv /\ AtEnd
    BY <1>1 DEF ReportsInv, HistoryInv, EndDownload
  <2>2. finish \in Nat /\ finish <= Len(entries) /\ boot \in Nat /\ Len(entries) \in Nat
    BY <2>1, FinishType
  <2>3. download.next \in Nat \ {0} /\ download.present \in Nat /\ k \in 0..Len(entries)
        /\ download.present <= finish /\ download.next > finish
        /\ download.began \in Nat /\ download.span \in Nat /\ download.began < Word
    <3>1. download.next \in Nat \ {0} /\ download.present \in Nat
          /\ download.began \in Nat /\ download.span \in Nat
      BY <2>1, HistoryAssumption DEF DownloadInv, Downloads
    <3>2. download.present <= finish /\ download.next <= finish + 1
          /\ download.next > finish /\ download.began < Word
      BY <2>1 DEF DownloadInv, AtEnd
    <3> QED
      BY <2>2, <3>1, <3>2
  <2>4. download.next > download.present
    BY <2>2, <2>3
  <2>5. Ascending(download.rows)
        /\ Range(download.rows) = {t \in boot + 1 .. boot + download.next - 1 : Within(t)}
    BY <1>1, <2>1 DEF DownloadInv
  <2>6. Range(SubSeq(entries, 1, k)) = boot + 1 .. boot + k
    <3> DEFINE s == SubSeq(entries, 1, k)
    <3>1. /\ DOMAIN s = 1..k
          /\ \A i \in 1..k : s[i] = boot + i
      <4>1. entries \in Seq(Nat)
        BY <2>1 DEF EntriesInv
      <4>2. Len(s) = k /\ DOMAIN s = 1..Len(s) /\ \A i \in 1..k : s[i] = entries[i]
        BY <2>2, <2>3, <4>1
      <4> QED
        BY <2>1, <2>2, <2>3, <4>2 DEF EntriesInv
    <3> HIDE DEF s, k
    <3>2. k \in Nat
      BY <2>3
    <3>3. ASSUME NEW t \in Range(s) PROVE t \in boot + 1 .. boot + k
      BY <2>2, <3>1, <3>2, <3>3 DEF Range
    <3>4. ASSUME NEW t \in boot + 1 .. boot + k PROVE t \in Range(s)
      <4>1. t - boot \in 1..k /\ boot + (t - boot) = t
        BY <2>2, <3>2
      <4>2. s[t - boot] = t
        BY <3>1, <4>1
      <4> QED
        BY <3>1, <4>1, <4>2 DEF Range
    <3> QED
      BY <3>3, <3>4 DEF s
  <2>7. \A t \in boot + 1 .. boot + k : Within(t) <=> Asked(t)
    <3>1. CASE download.span > 0
      <4>1. download.began - download.span \in 0..(Word - 1)
        BY <1>1, <2>3, <3>1, HistoryAssumption
      <4>2. download.target = download.began - download.span
        BY <2>1, <3>1, <4>1, HistoryAssumption DEF DownloadInv
      <4> QED
        BY <3>1, <4>2 DEF Within, Asked
    <3>2. CASE ~(download.span > 0)
      <4>1. download.target = 0
        BY <2>1, <3>2 DEF DownloadInv
      <4> QED
        BY <2>2, <3>2, <4>1 DEF Within, Asked
    <3> QED
      BY <3>1, <3>2
  <2>8. boot + download.next - 1 = boot + k
    BY <2>2, <2>3
  <2> QED
    BY <2>4, <2>5, <2>6, <2>7, <2>8
<1>2. ReportsInv =>
        [ EndDownload /\ ~download.torn /\ download.span <= download.began
            => /\ download.next > download.present
               /\ Ascending(download.rows)
               /\ Range(download.rows)
                    = {t \in Range(SubSeq(entries, 1, download.next - 1)) : Asked(t)}
        ]_reportVars
  BY <1>1
<1> QED
  BY <1>2, ReportsInvHolds, PTL DEF HistoryIsComplete
=============================================================================
