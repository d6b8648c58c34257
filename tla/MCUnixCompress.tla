--------------------------- MODULE MCUnixCompress ---------------------------
(***************************************************************************)
(* Payloads that compress wrote for texts of up to ShortText symbols and   *)
(* for longer ones with a pattern, and every bit string of a few bytes.    *)
(***************************************************************************)
EXTENDS UnixCompress

CONSTANTS ShortText, LongText, MaxBytes

Encoder == INSTANCE CompressEncoder

\* A run of one symbol, two mixtures, and all symbols in turn.
MCTexts ==
  BoundedSeq({0, 1}, ShortText) \cup
  {[k \in 1 .. n |-> 0] : n \in {LongText}} \cup
  {[k \in 1 .. n |-> ((k * k) \div 3) % 4] : n \in {LongText}} \cup
  {[k \in 1 .. n |-> (k \div 2) % 3] : n \in {LongText}} \cup
  {[k \in 1 .. n |-> k % 4] : n \in LongText - 4 .. LongText}

Limit(text) == {Len(text)} \cup (IF Len(text) = LongText THEN {LongText - 1} ELSE {})

MCCompressed ==
  UNION {{[bits |-> Encoder!Compress(text, maxBits, block, clears),
           maxBits |-> maxBits, block |-> block, maxOutput |-> limit,
           compressed |-> TRUE, text |-> text] : limit \in Limit(text)} :
    <<text, maxBits, block, clears>> \in
      MCTexts \X (InitialBits .. 2 * ByteBits) \X BOOLEAN
        \X {{}, {1}, {2, 5}, {4}, {6, 7}}}

MCArbitrary ==
  {[bits |-> bits, maxBits |-> maxBits, block |-> block, maxOutput |-> 20,
    compressed |-> FALSE, text |-> << >>] :
     bits \in UNION {[1 .. ByteBits * n -> {0, 1}] : n \in {2, MaxBytes}},
     maxBits \in InitialBits .. 2 * ByteBits,
     block \in BOOLEAN}

MCInputs == MCCompressed \cup MCArbitrary
=============================================================================
