-------------------------------- MODULE Lzma2 --------------------------------
(***************************************************************************)
(* decode/lzma.rs: LZMA2 chunks and the LZMA operations inside them.        *)
(*                                                                          *)
(* An LZMA2 stream is one cell with its chunks.  A chunk has the class of   *)
(* its control byte, an unpacked size, and bytes or coded operations.  The  *)
(* range coder is adaptive: an operation is coded as a few symbols, each    *)
(* under a context, and the probabilities of a context are those its        *)
(* earlier symbols left.  A coded operation therefore carries what its      *)
(* encoder had seen in those contexts (seen): a decoder that has seen       *)
(* something else there reads something else.                               *)
(***************************************************************************)
EXTENDS Codec, SequencesExt

Lzma2(chunks) == [k |-> "lzma2", chunks |-> chunks]
NoLzma2 == [Lzma2(<< >>) EXCEPT !.k = "none"]
Garbled == [k |-> "garbled"]      \* a literal nobody wrote

\* Control bytes: 0, 1, 2, 0x80.., 0xa0.., 0xc0.., 0xe0.., and the others.
DictionaryResets == {"copyReset", "lzmaReset"}
NewProperties    == {"lzmaProps", "lzmaReset"}
Compressed       == {"lzma", "lzmaState"} \cup NewProperties
Uncompressed     == {"copy", "copyReset"}
-----------------------------------------------------------------------------
\* LzmaState: the state, the last four distances less one, and the symbols
\* each context has seen, as one history of <<context, symbol>>.
LzmaCoder(properties) ==
  [properties |-> properties, state |-> 0, repetitions |-> <<0, 0, 0, 0>>,
   history |-> << >>]

\* update_literal, update_match, update_repetition, update_short_repetition
NextState(state, kind) ==
  CASE kind = "literal" /\ state < 4              -> 0
    [] kind = "literal" /\ state \in 4 .. 9       -> state - 3
    [] kind = "literal" /\ state > 9              -> state - 6
    [] kind \in {"match", "end"}                  -> IF state < 7 THEN 7 ELSE 10
    [] kind = "rep"                               -> IF state < 7 THEN 8 ELSE 11
    [] kind = "short"                             -> IF state < 7 THEN 9 ELSE 11

\* A match pushes its distance, a repetition moves its own to the front.
NextRepetitions(r, o) ==
  CASE o.kind \in {"match", "end"} -> <<o.distance - 1, r[1], r[2], r[3]>>
    [] o.kind = "rep" -> <<r[o.which]>>
                           \o [i \in 1 .. 3 |-> r[IF i < o.which THEN i ELSE i + 1]]
    [] o.kind \in {"literal", "short"} -> r

OperationDistance(r, o) ==
  CASE o.kind = "match" -> o.distance
    [] o.kind = "short" -> r[1] + 1
    [] o.kind = "rep"   -> r[o.which] + 1
    [] OTHER            -> 0

\* Output::previous_byte and Output::position, as decode_operation uses them.
DecoderContext(out, start) ==
  [position |-> Len(out), previous |-> IF out = << >> THEN Zero ELSE Last(out)]

\* Output::match_byte
MatchByte(out, repetition) ==
  IF repetition < Len(out) THEN out[Len(out) - repetition] ELSE Zero

\* The contexts and symbols of decode_operation, in the order they are coded.
CodedAs(c, x, out, o) ==
  LET p == x.position % 2 ^ c.properties.pb
      s == c.state
      isMatch(b) == << <<"is_match", s, p>>, b >>
      isRep(b)   == << <<"is_rep", s>>, b >>
      literal == << <<IF s < 7 THEN "literal" ELSE "matched",
                      x.position % 2 ^ c.properties.lp, x.previous,
                      IF s < 7 THEN Zero ELSE MatchByte(out, c.repetitions[1])>>, o.byte >>
      rep(n, b) == << <<"is_rep", n, s>>, b >> IN
  CASE o.kind = "literal" -> <<isMatch(0), literal>>
    [] o.kind \in {"match", "end"} ->
         <<isMatch(1), isRep(0), << <<"length", p>>, o.length >>,
           << <<"distance", Smaller(o.length, 5)>>, o.distance >> >>
    [] o.kind = "short" ->
         <<isMatch(1), isRep(1), rep(0, 0), << <<"is_rep_zero_long", s, p>>, 0 >> >>
    [] o.kind = "rep" ->
         <<isMatch(1), isRep(1), rep(0, IF o.which = 1 THEN 0 ELSE 1)>>
           \o (IF o.which = 1 THEN << << <<"is_rep_zero_long", s, p>>, 1 >> >>
               ELSE <<rep(1, IF o.which = 2 THEN 0 ELSE 1)>>)
           \o (IF o.which > 2 THEN <<rep(2, IF o.which = 3 THEN 0 ELSE 1)>> ELSE << >>)
           \o << << <<"repetition_length", p>>, o.length >> >>

\* The symbols seen so far in each context of a coded operation.
Seen(c, coded) ==
  LET of(i) == SelectSeq(c.history, LAMBDA h : h[1] = coded[i][1]) IN
  [i \in DOMAIN coded |-> [j \in DOMAIN of(i) |-> of(i)[j][2]]]

Advance(c, coded, o) ==
  [c EXCEPT !.history = @ \o coded, !.state = NextState(@, o.kind),
            !.repetitions = NextRepetitions(@, o)]

\* decode_operation: what the decoder takes o to be.
DecodeOperation(d, o) ==
  IF Seen(d.coder, CodedAs(d.coder, DecoderContext(d.out, d.start), d.out, o)) = o.seen
  THEN o ELSE [o EXCEPT !.kind = "literal", !.byte = Garbled]

\* copy_match, whose source may be what it writes.
CopyMatch(out, distance, length) ==
  out \o [i \in 1 .. length |-> out[Len(out) - distance + 1 + ((i - 1) % distance)]]

\* One round of decode_stream.  EOS comes too early, as the loop ends at the
\* target before it would be read.
LzmaApply(d, target, p) ==
  LET c == Advance(d.coder, CodedAs(d.coder, DecoderContext(d.out, d.start), d.out, p), p)
      distance == OperationDistance(d.coder.repetitions, p) IN
  IF p.kind = "literal" THEN [d EXCEPT !.coder = c, !.out = Append(@, p.byte)]
  ELSE IF \/ p.kind = "end"
          \/ Len(d.out) + p.length > target
          \/ distance > d.dictionary
          \/ distance > Len(d.out) - d.start
       THEN [d EXCEPT !.result = "format"]
  ELSE [d EXCEPT !.coder = c, !.out = CopyMatch(@, distance, p.length)]
LzmaStep(d, target, o) ==
  IF d.result # "none" \/ Len(d.out) = target THEN d
  ELSE LzmaApply(d, target, DecodeOperation(d, o))

\* The payload ends in front of the target.
Ended(d, target) ==
  IF d.result = "none" /\ Len(d.out) < target THEN [d EXCEPT !.result = "format"] ELSE d

DecodeStream(d, chunk, maximum) ==
  LET target == Len(d.out) + chunk.size IN
  IF target > maximum THEN [d EXCEPT !.result = "limit"]
  ELSE Ended(FoldLeft(LAMBDA x, o : LzmaStep(x, target, o), d, chunk.operations), target)
-----------------------------------------------------------------------------
\* The coder a compressed chunk starts from.
ChunkCoder(d, chunk) ==
  CASE chunk.control \in NewProperties -> LzmaCoder(chunk.properties)
    [] chunk.control = "lzmaState"     -> LzmaCoder(d.coder.properties)
    [] chunk.control = "lzma"          -> d.coder

DecodeChunk(d, chunk, maximum) ==
  IF chunk.control \in Compressed
  THEN IF chunk.control \in NewProperties /\ ~ chunk.properties.valid
       THEN [d EXCEPT !.result = "format"]
       ELSE IF chunk.control \notin NewProperties /\ d.needsProperties
       THEN [d EXCEPT !.result = "format"]
       ELSE DecodeStream([d EXCEPT !.coder = ChunkCoder(d, chunk), !.needsProperties = FALSE],
                         chunk, maximum)
  ELSE IF chunk.control \in Uncompressed
  THEN IF Len(d.out) + Len(chunk.bytes) > maximum THEN [d EXCEPT !.result = "limit"]
       ELSE [d EXCEPT !.out = @ \o chunk.bytes]
  ELSE [d EXCEPT !.result = "format"]

\* The declared size is passed.
Bounded(d, expected) ==
  IF d.result = "none" /\ expected # NoSize /\ Len(d.out) > expected
  THEN [d EXCEPT !.result = "format"] ELSE d

\* One round of decode_lzma2; final says that nothing follows the chunk.
Lzma2Step(d, chunk, final, expected, maximum) ==
  LET resets == chunk.control \in DictionaryResets
      r == IF resets THEN [d EXCEPT !.start = Len(d.out), !.needsReset = FALSE,
                                    !.needsProperties = TRUE] ELSE d IN
  IF d.result # "none" THEN d
  ELSE IF chunk.control = "end"
       THEN [d EXCEPT !.result = IF final /\ (expected = NoSize \/ Len(d.out) = expected)
                                 THEN "ok" ELSE "format"]
  ELSE IF ~ resets /\ d.needsReset THEN [d EXCEPT !.result = "format"]
  ELSE Bounded(DecodeChunk(r, chunk, maximum), expected)

\* The input ends without the end marker.
WithoutEnd(d) == IF d.result = "none" THEN [d EXCEPT !.result = "format"] ELSE d

\* decode_lzma2: the result and the output.
DecodeLzma2(cells, dictionary, expected, maximum) ==
  LET chunks == RecordAt(cells, 0, "lzma2", NoLzma2).chunks
      first == [result |-> IF expected > maximum THEN "limit" ELSE "none",
                out |-> << >>, start |-> 0, dictionary |-> dictionary,
                needsReset |-> TRUE, needsProperties |-> TRUE,
                coder |-> LzmaCoder([lp |-> 0, pb |-> 0, valid |-> FALSE])]
      final(i) == i = Len(chunks) /\ Len(cells) = 1 IN
  WithoutEnd(FoldLeft(LAMBDA x, i : Lzma2Step(x, chunks[i], final(i), expected, maximum),
                      first, [i \in DOMAIN chunks |-> i]))
=============================================================================
