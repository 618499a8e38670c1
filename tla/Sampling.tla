------------------------------ MODULE Sampling ------------------------------
(***************************************************************************)
(* The analog inputs under the three threads that touch them: the sampler, *)
(* the main thread, which reads them, takes commands from the serial line  *)
(* and is never in two places at once, and the server's thread, whose      *)
(* commands come at any moment.  Of the commands only set?fn matters here, *)
(* whose flags choose the number of samples; one character stands for it.  *)
(***************************************************************************)
EXTENDS Adc, SerialLine

CONSTANT TopFor  \* the number of samples a flag character asks for

ASSUME TopForAssumption ==
  /\ DOMAIN TopFor \subseteq Chars \ {"/"}
  /\ \A c \in DOMAIN TopFor : TopFor[c] \in Tops
  /\ {"main", "server"} \subseteq Threads

allVars == <<adcVars, lineVars>>

MainIdle == reading = NoReading /\ setting["main"] = Done

\* What setOutputFlags has to do for the command url
Asked(url) ==
  IF url # <<>> /\ Head(url) \in DOMAIN TopFor
    THEN [pins |-> Pins, top |-> TopFor[Head(url)]] ELSE Done

SerialLineEnds ==
  /\ MainIdle
  /\ setting' = [setting EXCEPT !["main"] = IF IsCommand THEN Asked(Tail(line)) ELSE Done]
  /\ LineEnds
  /\ UNCHANGED <<top, window, published, reading>>

SerialCharacter ==
  /\ MainIdle
  /\ \E c \in Chars : Receive(c)
  /\ UNCHANGED adcVars

serial_doWork == SerialCharacter \/ SerialLineEnds

\* doWork and adjustFeedbackVoltage look at a pin.
analogReadOver ==
  /\ \/ MainIdle /\ \E p \in Pins : ReadSum(p)
     \/ ReadTop
  /\ UNCHANGED lineVars

ServerCommand ==
  /\ setting["server"] = Done
  /\ \E newTop \in Tops : setOutputFlags("server", newTop)
  /\ UNCHANGED <<top, window, published, reading, lineVars>>

Setting == (\E t \in Threads : SetTop(t)) /\ UNCHANGED lineVars

adc_loop == Sample /\ UNCHANGED lineVars

SamplingInit == AdcInit /\ LineInit

SamplingNext ==
  adc_loop \/ analogReadOver \/ serial_doWork \/ Setting \/ ServerCommand

\* The sampler never stops, and a setTop begun is brought to its end; nobody
\* need ever send a command.
SamplingSpec ==
  /\ SamplingInit /\ [][SamplingNext]_allVars
  /\ WF_allVars(adc_loop) /\ WF_allVars(Setting)

-----------------------------------------------------------------------------
\* A window holds what it counts, and a range is a byte: thisLow starts above
\* every sample and a window without samples would publish a wrapped range.
SamplingTypeOK ==
  /\ top \in [Pins -> Tops]
  /\ \A p \in Pins :
       /\ window[p].cnt \in Nat /\ window[p].taken \in Nat
       /\ published[p].range \in 0..(Byte - 1)
  /\ \A t \in Threads : setting[t] = Done \/ setting[t].pins \subseteq Pins
  /\ reading = NoReading \/ reading[1] \in EnabledPins
  /\ line \in Seq(Chars) /\ Len(line) < LineSize

\* The value analogReadOver returns
Value == Oversampled(reading[2].sum, top[reading[1]])

\* A reading is the mean of one window of samples whenever the number of
\* samples asked for is the one the window was filled with: no sample of the
\* window before, and none that came after, is in it (filterAdc).
ReadingIsMean ==
  [][ ReadTop /\ reading[2].taken = top[reading[1]]
        => Value \in 4 * reading[2].least .. 4 * reading[2].most ]_allVars

\* Once the number of samples stays as it is, readings are means again, for
\* good: a sum gathered for another number is divided by the wrong one only
\* until two windows have been published.
ReadingsRecover ==
  <>[][~ServerCommand /\ ~SerialLineEnds]_allVars
    => <>[](\A p \in EnabledPins : published[p].taken = top[p])

\* A line is obeyed as it was typed, whatever parts it arrived in; of a line
\* too long for the buffer what follows the last full buffer is taken for a
\* line of its own ("if the buffer fills without getting a newline, just
\* reset").
LineObeyed ==
  [][ SerialLineEnds =>
        LET rest == Remainder(typed)
        IN setting'["main"] =
             IF rest # <<>> /\ Head(rest) = "/" THEN Asked(Tail(rest)) ELSE Done ]_allVars
=============================================================================
