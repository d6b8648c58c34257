----------------------------- MODULE Lzma2Encoder -----------------------------
(***************************************************************************)
(* The other side of the format, external to unpackio: what the encoders of *)
(* 7-Zip and XZ Utils write for a plan of chunks.  A dictionary reset       *)
(* starts the data over: the first literal behind it is coded as one that   *)
(* has nothing in front.                                                    *)
(***************************************************************************)
EXTENDS Lzma2

Operation(kind, byte, distance, length, which) ==
  [kind |-> kind, byte |-> Byte(byte), distance |-> distance, length |-> length,
   which |-> which, seen |-> << >>]
Literal(v)         == Operation("literal", v, 0, 0, 0)
Match(d, n)        == Operation("match", 0, d, n, 0)
Repeat(which, n)   == Operation("rep", 0, 0, n, which)
ShortRepeat        == Operation("short", 0, 0, 1, 0)

Properties(lp, pb) == [lp |-> lp, pb |-> pb, valid |-> TRUE]
Chunk(control, properties, operations, bytes) ==
  [control |-> control, properties |-> properties, operations |-> operations,
   bytes |-> Bytes(bytes), size |-> Len(bytes)]
Copied(control, bytes) == Chunk(control, Properties(0, 0), << >>, bytes)
Coded(control, properties, operations) == Chunk(control, properties, operations, << >>)
EndChunk == Copied("end", << >>)

EncoderContext(out, start) ==
  [position |-> Len(out) - start,
   previous |-> IF Len(out) = start THEN Zero ELSE Last(out)]

\* The state: [out, start, coder, operations], one operation at a time.
EncodeOperation(e, o) ==
  LET coded == CodedAs(e.coder, EncoderContext(e.out, e.start), e.out, o)
      distance == OperationDistance(e.coder.repetitions, o) IN
  [e EXCEPT !.coder = Advance(@, coded, o),
            !.operations = Append(@, [o EXCEPT !.seen = Seen(e.coder, coded)]),
            !.out = IF o.kind = "literal" THEN Append(@, o.byte)
                    ELSE CopyMatch(@, distance, o.length)]

\* Chunks that announce a reset or properties start from a fresh coder, the
\* others go on with the one there is.
EncoderCoder(e, chunk) ==
  IF chunk.control \in {"lzmaState", "lzmaProps", "lzmaReset"}
  THEN LzmaCoder(IF chunk.control = "lzmaState" THEN e.coder.properties ELSE chunk.properties)
  ELSE e.coder

EncodeChunk(e, chunk) ==
  LET start == IF chunk.control \in DictionaryResets THEN Len(e.out) ELSE e.start
      f == FoldLeft(EncodeOperation,
                    [e EXCEPT !.start = start, !.coder = EncoderCoder(e, chunk), !.operations = << >>],
                    chunk.operations)
      out == f.out \o chunk.bytes IN
  [f EXCEPT !.out = out,
            !.chunks = Append(@, [chunk EXCEPT !.operations = f.operations,
                                               !.size = Len(out) - Len(e.out)])]

\* The chunks of a plan, and what they hold.
Encode(plan) ==
  FoldLeft(EncodeChunk,
           [out |-> << >>, start |-> 0, coder |-> LzmaCoder(Properties(0, 0)),
            operations |-> << >>, chunks |-> << >>],
           Append(plan, EndChunk))

\* Data that an encoder could not make smaller.
StoredLzma2(out) ==
  Lzma2(<<[Copied("copyReset", << >>) EXCEPT !.bytes = out, !.size = Len(out)], EndChunk>>)
=============================================================================
