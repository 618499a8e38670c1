--------------------------- MODULE MovingAverage ----------------------------
(***************************************************************************)
(* calcExpMovingAverage with the smoothing factor PIDOUTPUT_AVG_FAST, 2/11 *)
(* (src/src/grillpid.cpp, src/src/grillpid_conf.h).                        *)
(*                                                                         *)
(* An average is known up to 1/Scale percent: n stands for every value of  *)
(* the half-open interval [n/Scale, (n+1)/Scale).  A step yields each n    *)
(* whose interval the exact step can reach; an average that approaches a   *)
(* constant output from below stays below it, as the float does: it stalls *)
(* where the remaining difference is below half a unit in the last place.  *)
(***************************************************************************)
EXTENDS Integers

CONSTANT Scale

ASSUME ScaleAssumption == Scale \in Nat \ {0}

Averages == 0..(100 * Scale)

\* Mutant: an average kept as a rounded-up integer.
AveragedUp(average, value) == {(9 * average + 2 * Scale * value + 10) \div 11}

\* The averages one step from average toward the percentage value
Averaged(average, value) ==
  (9 * average + 2 * Scale * value) \div 11
    .. (9 * (average + 1) + 2 * Scale * value - 1) \div 11

\* The truncations of (average - offset) * factor / range, for 0 < range and
\* an average that is not below offset
Scaled(average, offset, factor, range) ==
  LET least == ((average - Scale * offset) * factor) \div (Scale * range)
      most  == ((average + 1 - Scale * offset) * factor - 1) \div (Scale * range)
  IN least .. IF factor = 0 THEN least ELSE most
=============================================================================
