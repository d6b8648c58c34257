---------------------------------- MODULE Lzw ----------------------------------
(***************************************************************************)
(* What the decoder of Unix compress promises: LZW over whole strings.     *)
(* Every code stands for a string; a code that the table lacks yet stands  *)
(* for the last string and its first symbol; each code but the first after *)
(* a reset teaches the table one string, while there is room.              *)
(***************************************************************************)
EXTENDS Integers, Sequences

CONSTANT Literals      \* how many codes stand for themselves

VARIABLES
  room,      \* how many strings the table may learn
  first,     \* the code of the first string it learns
  table,     \* the strings learned, in order
  last,      \* the string of the last code, empty after a reset
  text       \* all strings so far, put together

lzwVars == <<room, first, table, last, text>>

Init ==
  /\ room \in Nat
  /\ first \in {Literals, Literals + 1}
  /\ table = << >>
  /\ last = << >>
  /\ text = << >>

\* The string that a code stands for.
String(code) ==
  IF code < Literals THEN <<code>>
  ELSE IF code = first + Len(table) THEN Append(last, Head(last))
  ELSE table[code - first + 1]

Learned(string) ==
  IF last # << >> /\ Len(table) < room
    THEN Append(table, Append(last, Head(string)))
    ELSE table

Decode(code) ==
  /\ code < Literals \/ (last # << >> /\ first <= code)
  /\ text' = text \o String(code)
  /\ table' = Learned(String(code))
  /\ last' = String(code)
  /\ UNCHANGED <<room, first>>

\* The CLEAR code: one literal more than a table without it would have.
Reset ==
  /\ first = Literals + 1
  /\ table' = << >>
  /\ last' = << >>
  /\ UNCHANGED <<room, first, text>>

Next == Reset \/ \E code \in 0 .. first + Len(table) : Decode(code)

Spec == Init /\ [][Next]_lzwVars
=============================================================================
