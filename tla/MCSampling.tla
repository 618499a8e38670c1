---- MODULE MCSampling ----
(* Values for the constants of Sampling that a configuration cannot write. *)
EXTENDS Sampling

\* On the serial line: "5" asks for the samples of the 50 Hz filter.
MCTopFor == [c \in {"5"} |-> 2]
====
