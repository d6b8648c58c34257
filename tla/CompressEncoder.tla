---------------------------- MODULE CompressEncoder ----------------------------
(***************************************************************************)
(* The other side of the format, external to unpackio: what compress(1)    *)
(* writes.  It emits the code of the longest string it knows, then learns  *)
(* that string with the next symbol.  Having written a code, it widens     *)
(* once the table outgrows the width, and fills the group up to do so.     *)
(* CLEAR empties the table, fills the group up and narrows again.          *)
(***************************************************************************)
EXTENDS Integers, Sequences, SequencesExt, FiniteSetsExt

CONSTANT ByteBits

\* The bits of the codes of a group, the lowest bit of each first.
GroupBits(group, width) ==
  FlattenSeq([k \in DOMAIN group |->
                [b \in 1 .. width |-> (group[k] \div 2 ^ (b - 1)) % 2]])

\* Filled with zeros to a multiple of n.
Filled(bits, n) ==
  bits \o [k \in 1 .. (n - (Len(bits) % n)) % n |-> 0]

\* The state: [rest, table, width, group, bits, count], with a whole group
\* moved to bits.
Written(s, c) ==
  LET group == Append(s.group, c) IN
  IF Len(group) = ByteBits
    THEN [s EXCEPT !.group = << >>, !.bits = @ \o GroupBits(group, s.width)]
    ELSE [s EXCEPT !.group = group]

\* The group is filled up to its whole length of width bytes.
FilledUp(s, width) ==
  [s EXCEPT !.group = << >>, !.width = width,
            !.bits = @ \o Filled(GroupBits(s.group, s.width),
                                 s.width * ByteBits)]

Free(s, block) == 2 ^ ByteBits + (IF block THEN 1 ELSE 0) + Len(s.table)

MaximumFree(width, maxBits) ==
  IF width = maxBits THEN 2 ^ width ELSE 2 ^ width - 1

\* The length of the longest known string that the rest starts with.
Longest(s) ==
  Max({n \in 1 .. Len(s.rest) :
         n = 1 \/ \E k \in DOMAIN s.table : s.table[k] = SubSeq(s.rest, 1, n)})

CodeOf(s, string, block) ==
  IF Len(string) = 1 THEN string[1]
  ELSE Free(s, block) - Len(s.table) - 1
         + (CHOOSE k \in DOMAIN s.table : s.table[k] = string)

\* One code, and what follows from it.
Emitted(s, maxBits, block) ==
  LET n     == Longest(s)
      match == SubSeq(s.rest, 1, n)
      w     == Written(s, CodeOf(s, match, block))
      v     == IF Free(s, block) > MaximumFree(s.width, maxBits)
                 THEN FilledUp(w, s.width + 1) ELSE w
  IN [v EXCEPT !.rest = SubSeq(@, n + 1, Len(@)),
               !.count = @ + 1,
               !.table = IF n < Len(s.rest) /\ Free(s, block) < 2 ^ maxBits
                           THEN Append(@, SubSeq(s.rest, 1, n + 1)) ELSE @]

Cleared(s) == FilledUp(Written([s EXCEPT !.table = << >>], 2 ^ ByteBits), ByteBits + 1)

RECURSIVE Emit(_, _, _, _)
Emit(s, maxBits, block, clears) ==
  IF s.rest = << >> THEN s.bits \o Filled(GroupBits(s.group, s.width), ByteBits)
  ELSE LET e == Emitted(s, maxBits, block) IN
       Emit(IF block /\ e.count \in clears /\ e.rest # << >> THEN Cleared(e) ELSE e,
            maxBits, block, clears)

\* The payload for a text, with CLEAR after the codes numbered in clears.
Compress(text, maxBits, block, clears) ==
  Emit([rest |-> text, table |-> << >>, width |-> ByteBits + 1, group |-> << >>,
        bits |-> << >>, count |-> 0], maxBits, block, clears)
=============================================================================
