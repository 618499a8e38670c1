--------------------------- MODULE SamplingProofs ---------------------------
(***************************************************************************)
(* What holds of Sampling for every number of pins, every set of samples   *)
(* and numbers of samples, every alphabet and size of the line buffer.     *)
(***************************************************************************)
EXTENDS Sampling, Arithmetic, SequenceTheorems, TLAPS

-----------------------------------------------------------------------------
(* Arithmetic                                                              *)

\* A sum of n terms between a and b, oversampled, is between 4a and 4b.
LEMMA MeanBounds ==
  ASSUME NEW s \in Nat, NEW n \in Nat \ {0}, NEW a \in Nat, NEW b \in Nat,
         n * a <= s, s <= n * b
  PROVE  Oversampled(s, n) \in 4 * a .. 4 * b
<1> DEFINE q == (s * 4) \div n
<1>1. q \in Nat /\ n * q <= s * 4 /\ s * 4 < n * q + n
  BY Quotient
<1> HIDE DEF q
<1>2. 4 * a <= q
  <2> SUFFICES ASSUME q + 1 <= 4 * a PROVE FALSE
    BY <1>1
  <2>1. n * (q + 1) <= n * (4 * a)
    BY <1>1, ProductMonotone
  <2>2. n * (4 * a) = 4 * (n * a) /\ n * (q + 1) = n * q + n
    BY <1>1
  <2> QED
    BY <1>1, <2>1, <2>2
<1>3. q <= 4 * b
  <2> SUFFICES ASSUME 4 * b + 1 <= q PROVE FALSE
    BY <1>1
  <2>1. n * (4 * b + 1) <= n * q
    BY <1>1, ProductMonotone
  <2>2. n * (4 * b + 1) = 4 * (n * b) + n
    OBVIOUS
  <2> QED
    BY <1>1, <2>1, <2>2
<1> QED
  BY <1>1, <1>2, <1>3 DEF Oversampled, q

-----------------------------------------------------------------------------
(* The inductive invariant                                                 *)

\* What a sum says of the samples it is made of
Summed(sum, r) ==
  /\ r.taken * r.least <= sum
  /\ sum <= r.taken * r.most

Windows ==
  [cnt : Nat, accumulator : Nat, high : 0..(Byte - 1), low : 0..Byte,
   taken : Nat, least : Nat, most : Nat]

\* A full window has a range.
WindowOK(w) ==
  /\ w \in Windows
  /\ w.cnt = 0 => w.low <= w.high
  /\ Summed(w.accumulator, w)

Readings == [sum : Nat, range : 0..(Byte - 1), taken : Nat, least : Nat, most : Nat]

ReadingOK(r) == r \in Readings /\ Summed(r.sum, r)

TopsOK == top \in [Pins -> Tops]

WindowsOK == DOMAIN window = Pins /\ \A p \in Pins : WindowOK(window[p])

PublishedOK == DOMAIN published = Pins /\ \A p \in Pins : ReadingOK(published[p])

\* A setTop begun has a number of samples to set.
SettingOK(s) ==
  \/ s = Done
  \/ s \in [pins : SUBSET Pins, top : Tops]

SettingsOK == DOMAIN setting = Threads /\ \A t \in Threads : SettingOK(setting[t])

ReadOK ==
  reading # NoReading =>
    \E p \in EnabledPins, r \in Readings : Summed(r.sum, r) /\ reading = <<p, r>>

\* The buffer holds the end of the line typed that follows its last filling.
LineOK ==
  /\ typed \in Seq(Chars)
  /\ line \in Seq(Chars)
  /\ Len(line) < LineSize
  /\ line = Remainder(typed)

SamplingInv ==
  TopsOK /\ WindowsOK /\ PublishedOK /\ SettingsOK /\ ReadOK /\ LineOK

-----------------------------------------------------------------------------
(* The windows                                                             *)

\* A new window waits for its first sample.
LEMMA NewWindow == \A n \in Tops : WindowOK(Window(n))
<1> SUFFICES ASSUME NEW n \in Tops PROVE WindowOK(Window(n))
  OBVIOUS
<1>1. n \in Nat /\ n # 0 /\ Byte \in Nat \ {0}
  BY AdcAssumption
<1> QED
  BY <1>1 DEF WindowOK, Windows, Window, Summed

\* thisHigh's and thisLow's candidate is a byte.
LEMMA CoarseByte == \A adc \in Nat : Coarse(adc) \in 0..(Byte - 1)
  BY AdcAssumption DEF Coarse

\* A sample added keeps the sum between the bounds of its samples.
LEMMA AccumulateOK ==
  ASSUME NEW w, WindowOK(w), w.cnt # 0, NEW adc \in Nat
  PROVE  WindowOK(Accumulate(w, adc))
<1> DEFINE a == Accumulate(w, adc)
<1>1. /\ w.cnt \in Nat /\ w.accumulator \in Nat /\ w.taken \in Nat
      /\ w.least \in Nat /\ w.most \in Nat
      /\ w.high \in 0..(Byte - 1) /\ w.low \in 0..Byte
  BY DEF WindowOK, Windows
<1>2. Byte \in Nat \ {0} /\ Coarse(adc) \in 0..(Byte - 1)
  BY AdcAssumption, CoarseByte
<1>3. a \in Windows
  BY <1>1, <1>2 DEF Accumulate, Windows, Higher, Lower
<1>4. a.low <= a.high
  BY <1>1, <1>2 DEF Accumulate, Higher, Lower
<1>5. w.taken * w.least <= w.accumulator /\ w.accumulator <= w.taken * w.most
  BY DEF WindowOK, Summed
<1>6. /\ a.taken = w.taken + 1 /\ a.accumulator = w.accumulator + adc
      /\ a.least \in Nat /\ a.most \in Nat
  BY <1>1 DEF Accumulate, Higher, Lower
<1>7. w.taken * a.least <= w.accumulator /\ a.least <= adc
  <2>1. CASE w.taken = 0
    BY <1>1, <1>5, <1>6, <2>1 DEF Accumulate
  <2>2. CASE w.taken # 0
    <3>1. a.least <= w.least /\ a.least <= adc
      BY <1>1, <2>2 DEF Accumulate, Lower
    <3>2. w.taken * a.least <= w.taken * w.least
      BY <1>1, <1>6, <3>1, ProductMonotone
    <3>3. w.taken * a.least \in Nat /\ w.taken * w.least \in Nat
      BY <1>1, <1>6
    <3> QED
      BY <1>1, <1>5, <3>1, <3>2, <3>3
  <2> QED
    BY <2>1, <2>2
<1>8. w.accumulator <= w.taken * a.most /\ adc <= a.most
  <2>1. w.most <= a.most /\ adc <= a.most
    BY <1>1 DEF Accumulate, Higher
  <2>2. w.taken * w.most <= w.taken * a.most
    BY <1>1, <1>6, <2>1, ProductMonotone
  <2>3. w.taken * w.most \in Nat /\ w.taken * a.most \in Nat
    BY <1>1, <1>6
  <2> QED
    BY <1>1, <1>5, <2>1, <2>2, <2>3
<1>9. Summed(a.accumulator, a)
  <2>1. /\ (w.taken + 1) * a.least = w.taken * a.least + a.least
        /\ (w.taken + 1) * a.most = w.taken * a.most + a.most
        /\ w.taken * a.least \in Nat /\ w.taken * a.most \in Nat
    BY <1>1, <1>6
  <2> HIDE DEF a
  <2>2. w.taken * a.least + a.least <= w.accumulator + adc
    BY <1>1, <1>6, <1>7, <2>1
  <2>3. w.accumulator + adc <= w.taken * a.most + a.most
    BY <1>1, <1>6, <1>8, <2>1
  <2> QED
    BY <1>6, <2>1, <2>2, <2>3 DEF Summed
<1> QED
  BY <1>3, <1>4, <1>9 DEF WindowOK

\* A full window yields a reading.
LEMMA PublishOK ==
  ASSUME NEW w, WindowOK(w), w.cnt = 0
  PROVE  ReadingOK(Publish(w))
<1>1. /\ w.accumulator \in Nat /\ w.taken \in Nat /\ w.least \in Nat /\ w.most \in Nat
      /\ w.high \in 0..(Byte - 1) /\ w.low \in 0..Byte /\ w.low <= w.high
  BY DEF WindowOK, Windows
<1>2. w.high - w.low \in 0..(Byte - 1)
  BY <1>1, AdcAssumption
<1>3. Publish(w) \in Readings
  BY <1>1, <1>2 DEF Publish, Readings
<1>4. Summed(w.accumulator, Publish(w))
  BY DEF WindowOK, Summed, Publish
<1> QED
  BY <1>3, <1>4 DEF ReadingOK, Publish

-----------------------------------------------------------------------------
(* The line buffer                                                         *)

\* What is left of a line fits into the buffer.
LEMMA RemainderFits ==
  ASSUME NEW s \in Seq(Chars)
  PROVE  /\ Remainder(s) \in Seq(Chars)
         /\ Len(Remainder(s)) = Len(s) - LineSize * (Len(s) \div LineSize)
         /\ Len(Remainder(s)) < LineSize
<1>1. LineSize \in Nat \ {0} /\ Len(s) \in Nat
  BY LineAssumption
<1> DEFINE m == LineSize * (Len(s) \div LineSize)
<1>2. m \in Nat /\ m <= Len(s) /\ Len(s) < m + LineSize
  BY <1>1, Quotient
<1>3. Remainder(s) = SubSeq(s, m + 1, Len(s))
  BY DEF Remainder
<1> HIDE DEF m
<1>4. SubSeq(s, m + 1, Len(s)) \in Seq(Chars) /\ Len(SubSeq(s, m + 1, Len(s))) = Len(s) - m
  BY <1>1, <1>2
<1> QED
  BY <1>1, <1>2, <1>3, <1>4 DEF m

\* One more character either fills the buffer or is left as well.
LEMMA RemainderGrows ==
  ASSUME NEW s \in Seq(Chars), NEW c \in Chars
  PROVE  Remainder(Append(s, c)) =
           IF Len(Remainder(s)) + 1 >= LineSize THEN <<>> ELSE Append(Remainder(s), c)
<1>1. LineSize \in Nat \ {0} /\ Len(s) \in Nat
  BY LineAssumption
<1> DEFINE q == Len(s) \div LineSize
           m == LineSize * q
           t == Append(s, c)
<1>2. q \in Nat /\ m \in Nat /\ m <= Len(s) /\ Len(s) < m + LineSize
  BY <1>1, Quotient
<1>3. Remainder(s) = SubSeq(s, m + 1, Len(s)) /\ Len(Remainder(s)) = Len(s) - m
  BY RemainderFits DEF Remainder
<1>4. t \in Seq(Chars) /\ Len(t) = Len(s) + 1
  BY <1>1
<1>40. m = LineSize * q
  OBVIOUS
<1> HIDE DEF t, m, q
<1>5. CASE Len(s) - m + 1 >= LineSize
  <2>1. LineSize * (q + 1) = m + LineSize /\ Len(t) = m + LineSize
    BY <1>1, <1>2, <1>40, <1>4, <1>5
  <2>2. Len(t) \div LineSize = q + 1
    <3>1. Len(t) \in Nat /\ q + 1 \in Nat /\ Len(t) < LineSize * (q + 1) + LineSize
      BY <1>1, <1>2, <1>4, <2>1
    <3> QED
      BY <1>1, <2>1, <3>1, QuotientIs
  <2>3. Remainder(t) = SubSeq(t, Len(t) + 1, Len(t))
    BY <2>1, <2>2 DEF Remainder
  <2>4. SubSeq(t, Len(t) + 1, Len(t)) = <<>>
    BY <1>1, <1>4
  <2> QED
    BY <1>3, <1>5, <2>3, <2>4 DEF t
<1>6. CASE ~(Len(s) - m + 1 >= LineSize)
  <2>1. m <= Len(t) /\ Len(t) < m + LineSize
    BY <1>1, <1>2, <1>4, <1>6
  <2>2. Len(t) \div LineSize = q
    <3>1. Len(t) \in Nat /\ LineSize * q <= Len(t) /\ Len(t) < LineSize * q + LineSize
      BY <1>1, <1>2, <1>40, <1>4, <2>1
    <3> QED
      BY <1>1, <1>2, <3>1, QuotientIs
  <2>3. Remainder(t) = SubSeq(t, m + 1, Len(s) + 1)
    BY <1>40, <1>4, <2>2 DEF Remainder
  <2>4. SubSeq(t, m + 1, Len(s) + 1) = Append(SubSeq(s, m + 1, Len(s)), c)
    <3> DEFINE a == SubSeq(t, m + 1, Len(s) + 1)
               b == Append(SubSeq(s, m + 1, Len(s)), c)
    <3>1. a \in Seq(Chars) /\ Len(a) = Len(s) - m + 1
      BY <1>1, <1>2, <1>4
    <3>2. b \in Seq(Chars) /\ Len(b) = Len(s) - m + 1
      BY <1>1, <1>2
    <3>3. ASSUME NEW i \in 1..(Len(s) - m + 1) PROVE a[i] = b[i]
      <4>1. a[i] = t[m + i]
        BY <1>1, <1>2, <1>4
      <4>2. b[i] = IF i = Len(s) - m + 1 THEN c ELSE s[m + i]
        BY <1>1, <1>2
      <4>3. t[m + i] = IF m + i = Len(s) + 1 THEN c ELSE s[m + i]
        BY <1>1, <1>2 DEF t
      <4> QED
        BY <1>1, <1>2, <4>1, <4>2, <4>3
    <3> HIDE DEF a, b
    <3> QED
      BY <3>1, <3>2, <3>3, SeqEqual DEF a, b
  <2> QED
    BY <1>3, <1>6, <2>3, <2>4 DEF t
<1> QED
  BY <1>5, <1>6

\* A character received keeps the buffer what is left of the line.
LEMMA ReceiveLineOK ==
  ASSUME LineOK, NEW c \in Chars, Receive(c)
  PROVE  LineOK'
<1>1. typed' = Append(typed, c) /\ typed' \in Seq(Chars)
  BY DEF LineOK, Receive
<1>2. line' = Remainder(typed')
  BY <1>1, RemainderGrows DEF LineOK, Receive
<1>3. line' \in Seq(Chars) /\ Len(line') < LineSize
  BY <1>1, <1>2, RemainderFits
<1>4. line' = Remainder(typed)'
  BY <1>2 DEF Remainder
<1> QED
  BY <1>1, <1>3, <1>4 DEF LineOK

\* An empty line leaves nothing.
LEMMA EmptyLineOK ==
  /\ LineInit => LineOK
  /\ LineEnds => LineOK'
<1>1. LineSize \in Nat \ {0}
  BY LineAssumption
<1>2. << >> \in Seq(Chars) /\ Len(<< >>) = 0
  OBVIOUS
<1>3. Len(Remainder(<< >>)) < LineSize /\ Len(Remainder(<< >>)) = 0 - LineSize * (0 \div LineSize)
  BY <1>2, RemainderFits
<1>4. LineSize * (0 \div LineSize) = 0
  <2>1. LineSize * 0 = 0
    BY <1>1
  <2>2. 0 \div LineSize = 0
    BY <1>1, <2>1, QuotientIs
  <2> QED
    BY <2>1, <2>2
<1>5. Remainder(<< >>) = << >>
  BY <1>1, <1>2, <1>4 DEF Remainder
<1>6. ASSUME LineInit PROVE LineOK
  <2>1. line = << >> /\ typed = << >>
    BY <1>6 DEF LineInit
  <2>2. line = Remainder(typed)
    BY <1>5, <2>1
  <2> QED
    BY <1>1, <1>2, <2>1, <2>2 DEF LineOK
<1>7. ASSUME LineEnds PROVE LineOK'
  <2>1. line' = << >> /\ typed' = << >>
    BY <1>7 DEF LineEnds
  <2>2. Remainder(typed)' = Remainder(<< >>)
    BY <2>1 DEF Remainder
  <2> QED
    BY <1>1, <1>2, <1>5, <2>1, <2>2 DEF LineOK
<1> QED
  BY <1>6, <1>7

-----------------------------------------------------------------------------
(* The invariant is inductive.                                             *)

LEMMA InitInv == SamplingInit => SamplingInv
<1> SUFFICES ASSUME SamplingInit PROVE SamplingInv
  OBVIOUS
<1>1. TopsOK
  BY DEF SamplingInit, AdcInit, TopsOK
<1>2. WindowsOK
  <2>1. WindowOK([Window(0) EXCEPT !.low = 0])
    BY AdcAssumption DEF Window, WindowOK, Windows, Summed
  <2> QED
    BY <2>1 DEF SamplingInit, AdcInit, WindowsOK
<1>3. PublishedOK
  <2>1. ReadingOK(Nothing)
    BY AdcAssumption DEF Nothing, ReadingOK, Readings, Summed
  <2> QED
    BY <2>1 DEF SamplingInit, AdcInit, PublishedOK
<1>4. SettingsOK /\ ReadOK
  BY DEF SamplingInit, AdcInit, SettingsOK, SettingOK, ReadOK
<1>5. LineOK
  BY EmptyLineOK DEF SamplingInit
<1> QED
  BY <1>1, <1>2, <1>3, <1>4, <1>5 DEF SamplingInv

\* The sampler fills windows and publishes full ones.
LEMMA SampleInv == SamplingInv /\ adc_loop => WindowsOK' /\ PublishedOK'
<1> SUFFICES ASSUME SamplingInv, adc_loop PROVE WindowsOK' /\ PublishedOK'
  OBVIOUS
<1>1. PICK p \in EnabledPins, adc \in Samples : filterAdc(p, adc)
  BY DEF adc_loop, Sample
<1>2. p \in Pins /\ adc \in Nat
  BY AdcAssumption
<1>3. /\ DOMAIN window = Pins /\ \A x \in Pins : WindowOK(window[x])
      /\ DOMAIN published = Pins /\ \A x \in Pins : ReadingOK(published[x])
      /\ top[p] \in Tops
  BY <1>2 DEF SamplingInv, WindowsOK, PublishedOK, TopsOK
<1>4. CASE window[p].cnt # 0
  <2>1. /\ window' = [window EXCEPT ![p] = Accumulate(window[p], adc)]
        /\ published' = published
    BY <1>1, <1>4 DEF filterAdc
  <2>2. WindowOK(Accumulate(window[p], adc))
    BY <1>2, <1>3, <1>4, AccumulateOK
  <2> QED
    BY <1>2, <1>3, <2>1, <2>2 DEF WindowsOK, PublishedOK
<1>5. CASE window[p].cnt = 0
  <2>1. /\ published' = [published EXCEPT ![p] = Publish(window[p])]
        /\ window' = [window EXCEPT ![p] = Window(top[p])]
    BY <1>1, <1>5 DEF filterAdc
  <2>2. ReadingOK(Publish(window[p])) /\ WindowOK(Window(top[p]))
    BY <1>2, <1>3, <1>5, PublishOK, NewWindow
  <2> QED
    BY <1>2, <1>3, <2>1, <2>2 DEF WindowsOK, PublishedOK
<1> QED
  BY <1>4, <1>5

\* analogReadOver takes over what is published.
LEMMA ReadInv == SamplingInv /\ analogReadOver => ReadOK'
<1> SUFFICES ASSUME SamplingInv, analogReadOver PROVE ReadOK'
  OBVIOUS
<1>1. CASE ReadTop
  BY <1>1 DEF ReadTop, ReadOK
<1>2. ASSUME NEW p \in Pins, ReadSum(p) PROVE ReadOK'
  <2>1. p \in EnabledPins /\ reading' = <<p, published[p]>>
    BY <1>2 DEF ReadSum
  <2>2. published[p] \in Readings /\ Summed(published[p].sum, published[p])
    BY DEF SamplingInv, PublishedOK, ReadingOK
  <2> QED
    BY <2>1, <2>2 DEF ReadOK
<1> QED
  BY <1>1, <1>2 DEF analogReadOver

\* setTop sets what it was called with.
LEMMA SetTopInv == SamplingInv /\ Setting => TopsOK' /\ SettingsOK'
<1> SUFFICES ASSUME SamplingInv, NEW t \in Threads, SetTop(t)
             PROVE  TopsOK' /\ SettingsOK'
  BY DEF Setting
<1> DEFINE left(p) == IF setting[t].pins = {p}
                        THEN Done ELSE [pins |-> setting[t].pins \ {p}, top |-> setting[t].top]
<1>1. PICK p \in setting[t].pins :
        /\ top' = [top EXCEPT ![p] = IF @ # 1 THEN setting[t].top ELSE @]
        /\ setting' = [setting EXCEPT ![t] = left(p)]
  BY DEF SetTop
<1>2. setting[t] \in [pins : SUBSET Pins, top : Tops]
  BY DEF SamplingInv, SettingsOK, SettingOK, Done
<1>3. TopsOK'
  BY <1>1, <1>2 DEF SamplingInv, TopsOK
<1>4. SettingOK(left(p))
  <2>1. setting[t].pins \ {p} \in SUBSET Pins /\ setting[t].top \in Tops
    BY <1>2
  <2> QED
    BY <2>1 DEF SettingOK
<1> HIDE DEF left
<1>5. SettingsOK'
  <2>1. DOMAIN setting = Threads /\ \A x \in Threads : SettingOK(setting[x])
    BY DEF SamplingInv, SettingsOK
  <2>2. DOMAIN setting' = Threads
    BY <1>1, <2>1
  <2>3. ASSUME NEW x \in Threads PROVE SettingOK(setting[x])'
    <3>1. setting'[x] = IF x = t THEN left(p) ELSE setting[x]
      BY <1>1, <2>1
    <3>2. SettingOK(setting'[x])
      BY <1>4, <2>1, <3>1
    <3> QED
      BY <3>2 DEF SettingOK
  <2> QED
    BY <2>2, <2>3 DEF SettingsOK
<1> QED
  BY <1>3, <1>5

\* A command asks for a number of samples there is.
LEMMA AskedOK == \A url : SettingOK(Asked(url))
  BY TopForAssumption DEF SettingOK, Asked

LEMMA NextInv == SamplingInv /\ [SamplingNext]_allVars => SamplingInv'
<1> SUFFICES ASSUME SamplingInv, [SamplingNext]_allVars PROVE SamplingInv'
  OBVIOUS
<1> USE DEF SamplingInv
<1>1. CASE adc_loop
  <2>1. WindowsOK' /\ PublishedOK'
    BY <1>1, SampleInv
  <2>2. TopsOK' /\ SettingsOK' /\ ReadOK' /\ LineOK'
    BY <1>1 DEF adc_loop, Sample, lineVars, TopsOK, SettingsOK, ReadOK, LineOK, Remainder
  <2> QED
    BY <2>1, <2>2
<1>2. CASE analogReadOver
  <2>1. ReadOK'
    BY <1>2, ReadInv
  <2>2. UNCHANGED <<top, window, published, setting, line, typed>>
    BY <1>2 DEF analogReadOver, ReadSum, ReadTop, lineVars
  <2>3. TopsOK' /\ WindowsOK' /\ PublishedOK' /\ SettingsOK' /\ LineOK'
    BY <2>2 DEF TopsOK, WindowsOK, PublishedOK, SettingsOK, LineOK, Remainder
  <2> QED
    BY <2>1, <2>3
<1>3. CASE SerialCharacter
  <2>1. LineOK'
    BY <1>3, ReceiveLineOK DEF SerialCharacter
  <2>2. UNCHANGED adcVars
    BY <1>3 DEF SerialCharacter
  <2>3. TopsOK' /\ WindowsOK' /\ PublishedOK' /\ SettingsOK' /\ ReadOK'
    BY <2>2 DEF adcVars, TopsOK, WindowsOK, PublishedOK, SettingsOK, ReadOK
  <2> QED
    BY <2>1, <2>3
<1>4. CASE SerialLineEnds
  <2>1. LineOK'
    BY <1>4, EmptyLineOK DEF SerialLineEnds
  <2>2. SettingsOK'
    BY <1>4, AskedOK DEF SerialLineEnds, SettingsOK, SettingOK
  <2>3. TopsOK' /\ WindowsOK' /\ PublishedOK' /\ ReadOK'
    BY <1>4 DEF SerialLineEnds, TopsOK, WindowsOK, PublishedOK, ReadOK
  <2> QED
    BY <2>1, <2>2, <2>3
<1>5. CASE Setting
  <2>1. TopsOK' /\ SettingsOK'
    BY <1>5, SetTopInv
  <2>2. UNCHANGED <<window, published, reading, line, typed>>
    BY <1>5 DEF Setting, SetTop, lineVars
  <2>3. WindowsOK' /\ PublishedOK' /\ ReadOK' /\ LineOK'
    BY <2>2 DEF WindowsOK, PublishedOK, ReadOK, LineOK, Remainder
  <2> QED
    BY <2>1, <2>3
<1>6. CASE ServerCommand
  <2>1. SettingsOK'
    BY <1>6 DEF ServerCommand, setOutputFlags, SettingsOK, SettingOK
  <2>2. UNCHANGED <<top, window, published, reading, line, typed>>
    BY <1>6 DEF ServerCommand, lineVars
  <2>3. TopsOK' /\ WindowsOK' /\ PublishedOK' /\ ReadOK' /\ LineOK'
    BY <2>2 DEF TopsOK, WindowsOK, PublishedOK, ReadOK, LineOK, Remainder
  <2> QED
    BY <2>1, <2>3
<1>7. CASE UNCHANGED allVars
  BY <1>7 DEF allVars, adcVars, lineVars, TopsOK, WindowsOK, PublishedOK,
              SettingsOK, ReadOK, LineOK, Remainder
<1> QED
  BY <1>1, <1>2, <1>3, <1>4, <1>5, <1>6, <1>7 DEF SamplingNext, serial_doWork

THEOREM SamplingSafe == SamplingSpec => []SamplingInv
  BY InitInv, NextInv, PTL DEF SamplingSpec

-----------------------------------------------------------------------------
(* What follows                                                            *)

\* The inputs keep their types: a range published is a byte, however short
\* the first window and whenever the number of samples changes.
THEOREM SamplingTypes == SamplingSpec => []SamplingTypeOK
<1>1. SamplingInv => SamplingTypeOK
  <2> SUFFICES ASSUME SamplingInv PROVE SamplingTypeOK
    OBVIOUS
  <2>1. top \in [Pins -> Tops]
    BY DEF SamplingInv, TopsOK
  <2>2. \A p \in Pins :
          /\ window[p].cnt \in Nat /\ window[p].taken \in Nat
          /\ published[p].range \in 0..(Byte - 1)
    BY DEF SamplingInv, WindowsOK, WindowOK, Windows, PublishedOK, ReadingOK, Readings
  <2>3. \A t \in Threads : setting[t] = Done \/ setting[t].pins \subseteq Pins
    BY DEF SamplingInv, SettingsOK, SettingOK
  <2>4. reading = NoReading \/ reading[1] \in EnabledPins
    BY DEF SamplingInv, ReadOK
  <2> QED
    BY <2>1, <2>2, <2>3, <2>4 DEF SamplingTypeOK, SamplingInv, LineOK
<1> QED
  BY <1>1, SamplingSafe, PTL

\* A reading divided by the number of samples it is made of is between the
\* least and the greatest of them (filterAdc, analogReadOver).
THEOREM ReadingsAreMeans == SamplingSpec => ReadingIsMean
<1>1. SamplingInv /\ [SamplingNext]_allVars =>
        [ ReadTop /\ reading[2].taken = top[reading[1]]
            => Value \in 4 * reading[2].least .. 4 * reading[2].most ]_allVars
  <2> SUFFICES ASSUME SamplingInv, ReadTop, reading[2].taken = top[reading[1]]
               PROVE  Value \in 4 * reading[2].least .. 4 * reading[2].most
    OBVIOUS
  <2>1. PICK p \in EnabledPins, r \in Readings : Summed(r.sum, r) /\ reading = <<p, r>>
    BY DEF SamplingInv, ReadOK, ReadTop
  <2>2. r.taken = top[p] /\ Value = Oversampled(r.sum, r.taken)
    BY <2>1 DEF Value
  <2>3. r.taken \in Nat \ {0}
    <3>1. p \in Pins /\ top[p] \in Tops
      BY AdcAssumption DEF SamplingInv, TopsOK
    <3> QED
      BY <2>2, <3>1, AdcAssumption
  <2>4. r.sum \in Nat /\ r.least \in Nat /\ r.most \in Nat
    BY DEF Readings
  <2>5. Oversampled(r.sum, r.taken) \in 4 * r.least .. 4 * r.most
    BY <2>1, <2>3, <2>4, MeanBounds DEF Summed
  <2> QED
    BY <2>1, <2>2, <2>5
<1> QED
  BY <1>1, SamplingSafe, PTL DEF SamplingSpec, ReadingIsMean

\* A line is obeyed as it was typed, up to the last filling of the buffer
\* (serial_doWork).
THEOREM LinesAreObeyed == SamplingSpec => LineObeyed
<1>1. SamplingInv /\ [SamplingNext]_allVars =>
        [ SerialLineEnds =>
            LET rest == Remainder(typed)
            IN setting'["main"] =
                 IF rest # <<>> /\ Head(rest) = "/" THEN Asked(Tail(rest)) ELSE Done ]_allVars
  <2> SUFFICES ASSUME SamplingInv, SerialLineEnds
               PROVE  setting'["main"] = IF line # <<>> /\ Head(line) = "/"
                                           THEN Asked(Tail(line)) ELSE Done
    BY DEF SamplingInv, LineOK
  <2>1. "main" \in DOMAIN setting
    BY TopForAssumption DEF SamplingInv, SettingsOK
  <2> QED
    BY <2>1 DEF SerialLineEnds, IsCommand
<1> QED
  BY <1>1, SamplingSafe, PTL DEF SamplingSpec, LineObeyed
=============================================================================
