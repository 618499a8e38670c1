----------------------------- MODULE LedManager -----------------------------
(***************************************************************************)
(* What LedManager does to one LED (src/src/ledmanager.cpp).  An LED is a  *)
(* record: the stimulus it is assigned to, whether it shows the stimulus   *)
(* inverted, the action last published (triggered), what the manager       *)
(* believes the LED shows (on), and what the executor last made the        *)
(* hardware show (lit).                                                    *)
(***************************************************************************)
EXTENDS Integers

Actions == {"Off", "OnSteady", "OneShot"}

Led(Stimuli) ==
  [stimulus : Stimuli, invert : BOOLEAN, triggered : Actions, on : Actions,
   lit : BOOLEAN]

\* A truth value as a LEDACTION
Steady(b) == IF b THEN "OnSteady" ELSE "Off"

\* The executor is called with what the LED is to show.
Show(led, on) == [led EXCEPT !.on = on, !.lit = (on # "Off")]

\* publish, for an LED assigned to the stimulus whose truth is b: nothing is
\* executed during a one-shot, nor when the LED is believed to show b already.
Publish(led, b) ==
  LET seen  == [led EXCEPT !.triggered = Steady(b)]
      shown == Steady(led.invert # b)
  IN IF led.on \in {"OneShot", shown} THEN seen ELSE Show(seen, shown)

\* Mutant: the one-shot phase is never left.
BlinkStuck(led, count) ==
  IF count % 2 = 1 /\ led.triggered = "OneShot"
    THEN Show([led EXCEPT !.triggered = "Off"], "OneShot") ELSE led

\* doWork, at every half second: odd counts start one-shots, even ones end them.
Blink(led, count) ==
  IF count % 2 = 1
    THEN IF led.triggered = "OneShot"
           THEN Show([led EXCEPT !.triggered = "Off"], "OneShot") ELSE led
    ELSE IF led.on = "OneShot" THEN Show(led, "Off") ELSE led

\* Mutant: the LED is turned on at an assignment instead of off.
AssignLit(led, stimulus, invert) ==
  [led EXCEPT !.stimulus = stimulus, !.invert = invert, !.lit = (led.on # "OnSteady")]

\* setAssignment turns a steady LED off, without noting that it did.
Assign(led, stimulus, invert) ==
  [led EXCEPT !.stimulus = stimulus, !.invert = invert,
              !.lit = led.lit /\ led.on # "OnSteady"]

\* An LED after blinkLed: in the one-shot of the self test
SelfTest(stimulus, invert) ==
  [stimulus |-> stimulus, invert |-> invert, triggered |-> "Off",
   on |-> "OneShot", lit |-> TRUE]
=============================================================================
