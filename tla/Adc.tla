-------------------------------- MODULE Adc ---------------------------------
(***************************************************************************)
(* The analog inputs (src/src/adc.cpp): adc_loop, on its own thread, adds  *)
(* up the samples of a pin and publishes the sum once as many are in as    *)
(* the pin's top asks for; setOutputFlags sets every top anew, on the main *)
(* or the server's thread; analogReadOver, on the main thread, divides the *)
(* sum published by the top it finds.  Nothing is locked.                  *)
(*                                                                         *)
(* taken, least and most of a pin are history: the samples in the window   *)
(* now open, and in published[p] of the window published last.             *)
(***************************************************************************)
EXTENDS Integers

CONSTANTS
  Pins,       \* the analog pins
  EnabledPins,\* those Adc::init has been given
  Samples,    \* what the converter may yield
  Tops,       \* the numbers of samples setOutputFlags asks for
  Byte,       \* 2^8, the width of thisHigh's and thisLow's candidates
  Threads     \* the threads that may call setOutputFlags

ASSUME AdcAssumption ==
  /\ EnabledPins \subseteq Pins
  /\ Samples \subseteq Nat /\ Samples # {}
  /\ Tops \subseteq Nat \ {0, 1} /\ Tops # {}
  /\ Byte \in Nat \ {0}

VARIABLES
  top,        \* adcState[p].top
  window,     \* cnt, accumulator, thisHigh and thisLow of a pin
  published,  \* analogRead and analogRange of a pin
  setting,    \* per thread: the pins setTop has still to do, and its newTop
  reading     \* analogReadOver under way: the pin and what it has read of it

adcVars == <<top, window, published, setting, reading>>

-----------------------------------------------------------------------------
NoReading == <<>>
Done      == [pins |-> {}, top |-> 0]

\* A window to be filled with n samples.  thisLow is 0xffffffff, above every
\* sample's byte.
Window(n) ==
  [cnt |-> n, accumulator |-> 0, high |-> 0, low |-> Byte, taken |-> 0, least |-> 0, most |-> 0]

Nothing == [sum |-> 0, range |-> 0, taken |-> 0, least |-> 0, most |-> 0]

Higher(a, b) == IF a > b THEN a ELSE b
Lower(a, b)  == IF a < b THEN a ELSE b

\* unsigned char a = adc >> 2
Coarse(adc) == (adc \div 4) % Byte

Accumulate(w, adc) ==
  [cnt |-> w.cnt - 1, accumulator |-> w.accumulator + adc,
   high |-> Higher(w.high, Coarse(adc)), low |-> Lower(w.low, Coarse(adc)),
   taken |-> w.taken + 1,
   least |-> IF w.taken = 0 THEN adc ELSE Lower(w.least, adc),
   most |-> Higher(w.most, adc)]

Publish(w) ==
  [sum |-> w.accumulator, range |-> w.high - w.low,
   taken |-> w.taken, least |-> w.least, most |-> w.most]

\* Mutant: the sum is published, but not started anew.
filterAdcKeepingSum(p, adc) ==
  IF window[p].cnt # 0
    THEN /\ window' = [window EXCEPT ![p] = Accumulate(@, adc)]
         /\ UNCHANGED published
    ELSE /\ published' = [published EXCEPT ![p] = Publish(window[p])]
         /\ window' = [window EXCEPT ![p] = [Window(top[p]) EXCEPT !.accumulator = window[p].accumulator]]

\* Mutant: the number of samples is taken from the first window for good.
filterAdcKeepingCount(p, adc) ==
  IF window[p].cnt # 0
    THEN /\ window' = [window EXCEPT ![p] = Accumulate(@, adc)]
         /\ UNCHANGED published
    ELSE /\ published' = [published EXCEPT ![p] = Publish(window[p])]
         /\ window' = [window EXCEPT ![p] =
              Window(IF window[p].taken = 0 THEN top[p] ELSE window[p].taken)]

\* Adc::filterAdc: the sample that finds the window full is not counted.
filterAdc(p, adc) ==
  IF window[p].cnt # 0
    THEN /\ window' = [window EXCEPT ![p] = Accumulate(@, adc)]
         /\ UNCHANGED published
    ELSE /\ published' = [published EXCEPT ![p] = Publish(window[p])]
         /\ window' = [window EXCEPT ![p] = Window(top[p])]

\* One turn of adc_loop, for one pin
Sample ==
  /\ \E p \in EnabledPins, adc \in Samples : filterAdc(p, adc)
  /\ UNCHANGED <<top, setting, reading>>

-----------------------------------------------------------------------------
\* GrillPid::setOutputFlags calls Adc::setTop for all the pins.
setOutputFlags(t, newTop) ==
  setting' = [setting EXCEPT ![t] = [pins |-> Pins, top |-> newTop]]

\* "do not set new top value for not filtered pins"
SetTop(t) ==
  /\ \E p \in setting[t].pins :
       /\ top' = [top EXCEPT ![p] = IF @ # 1 THEN setting[t].top ELSE @]
       /\ setting' = [setting EXCEPT ![t] =
            IF @.pins = {p} THEN Done ELSE [pins |-> @.pins \ {p}, top |-> @.top]]
  /\ UNCHANGED <<window, published, reading>>

\* analogReadOver's two looks at a pin: the sum, and how many it is made of
ReadSum(p) ==
  /\ reading = NoReading
  /\ p \in EnabledPins
  /\ reading' = <<p, published[p]>>
  /\ UNCHANGED <<top, window, published, setting>>

\* "Scale up to 256 samples then divide by 2^4 for 14 bit oversample".  A pin
\* with top 1, which would not be scaled, is never set up.
Oversampled(sum, n) == (sum * 4) \div n

ReadTop ==
  /\ reading # NoReading
  /\ reading' = NoReading
  /\ UNCHANGED <<top, window, published, setting>>

\* Mutant: the first window starts like every later one, but has no sample.
AdcInitAsLater ==
  /\ \E t \in Tops : top = [p \in Pins |-> t]
  /\ window = [p \in Pins |-> Window(0)]
  /\ published = [p \in Pins |-> Nothing]
  /\ setting = [t \in Threads |-> Done]
  /\ reading = NoReading

\* eepromLoadBaseConfig has called setOutputFlags, then GrillPid::init starts
\* the sampler.
AdcInit ==
  /\ \E t \in Tops : top = [p \in Pins |-> t]
  /\ window = [p \in Pins |-> [Window(0) EXCEPT !.low = 0]]
  /\ published = [p \in Pins |-> Nothing]
  /\ setting = [t \in Threads |-> Done]
  /\ reading = NoReading
=============================================================================
