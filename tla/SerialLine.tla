----------------------------- MODULE SerialLine -----------------------------
(***************************************************************************)
(* The serial line (serial_doWork, src/src/hmcore.cpp): characters collect *)
(* in g_SerialBuff until the line ends; a line that starts with a slash is *)
(* a command.  Every call takes what has arrived, so a step takes one      *)
(* character.                                                              *)
(*                                                                         *)
(* typed is a history variable: the characters since the last line end.    *)
(***************************************************************************)
EXTENDS Integers, Sequences

CONSTANTS
  Chars,     \* characters other than a line end, the slash among them
  LineSize,  \* sizeof(g_SerialBuff)
  MaxTyped   \* bound on the length of a line typed

ASSUME LineAssumption ==
  /\ "/" \in Chars
  /\ LineSize \in Nat \ {0} /\ MaxTyped \in Nat

VARIABLES
  line,  \* g_SerialBuff up to its terminating zero
  typed

lineVars == <<line, typed>>

LineInit == line = <<>> /\ typed = <<>>

\* Mutant: only the character that no longer fits is dropped.
ReceiveDroppingOne(c) ==
  /\ Len(typed) < MaxTyped
  /\ typed' = Append(typed, c)
  /\ line' = IF Len(line) + 1 >= LineSize THEN line ELSE Append(line, c)

\* "if the buffer fills without getting a newline, just reset"
Receive(c) ==
  /\ Len(typed) < MaxTyped
  /\ typed' = Append(typed, c)
  /\ line' = IF Len(line) + 1 >= LineSize THEN <<>> ELSE Append(line, c)

\* The line that has ended is a command, the one after the slash.
IsCommand == line # <<>> /\ Head(line) = "/"

LineEnds == line' = <<>> /\ typed' = <<>>

-----------------------------------------------------------------------------
\* What is left of a line after the last full buffer
Remainder(s) == SubSeq(s, LineSize * (Len(s) \div LineSize) + 1, Len(s))
=============================================================================
