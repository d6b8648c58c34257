----------------------------- MODULE StreamFrames -----------------------------
(***************************************************************************)
(* stream/lz4.rs, stream/zstandard.rs, stream/cursor.rs and detect_format:  *)
(* the frame table of a compressed stream, found without decoding it.       *)
(*                                                                          *)
(* The input is a sequence of cells, one per field: a magic number, a frame *)
(* descriptor, a block header, one unit of payload, a checksum.  Payload,   *)
(* of a block or of a skippable frame, may look like any of them.  The      *)
(* lengths in the fields are those an encoder writes, or are too large.     *)
(***************************************************************************)
EXTENDS Integers, Sequences, SequencesExt

CONSTANTS
  LegacyBlockBytes,     \* LEGACY_BLOCK_BYTES
  HistoryBytes,         \* LZ4_HISTORY_BYTES
  MaximumBlockBytes     \* MAXIMUM_BLOCK_BYTES of Zstandard

ASSUME FramesAssumption ==
  /\ LegacyBlockBytes \in Nat \ {0} /\ HistoryBytes \in Nat
  /\ MaximumBlockBytes \in Nat \ {0}

Unknown == -1        \* the None of a size

Smaller(a, b) == IF a <= b THEN a ELSE b
-----------------------------------------------------------------------------
(***************************************************************************)
(* Cells.  decoder says what the library's decoder will make of the frame.  *)
(***************************************************************************)
Magic(m, decoder) == [k |-> "magic", m |-> m, decoder |-> decoder]
SizeCell(n)       == [k |-> "size", n |-> n]
BlockCell(b)      == [k |-> "block", size |-> b.size, type |-> b.type, last |-> b.last]
Sum               == [k |-> "sum"]

Damages == {"none", "header", "data", "panic", "checksum"}

\* What the decoder of a frame will do.
DecoderOK(d) == d.left \in Nat /\ d.output \in Nat /\ d.damage \in Damages

\* Fields are read from as many bits as they have, and so are never negative.
CellOK(c) ==
  /\ c.k = "magic" => DecoderOK(c.decoder)
  /\ c.k = "size" => c.n \in Nat
  /\ c.k = "block" => c.size \in Nat
  /\ c.k = "flags" => c.maximum \in Nat
  /\ c.k = "descriptor" => c.window \in Nat
  /\ c.k \in {"flags", "descriptor"} => c.content \in Nat \cup {Unknown}

\* Payload: it begins like a frame, which no decoder would accept.
LookAlike == Magic("legacy", [output |-> 0, left |-> 0, damage |-> "header"])

\* The header of an LZ4 block that ends the frame.
EndMark == [k |-> "block", size |-> 0, type |-> "end", last |-> TRUE]

\* StreamCursor: a read needs all of its bytes.
Has(cells, p, kind) == p <= Len(cells) /\ cells[p].k = kind
Within(cells, p, n) == p + n - 1 <= Len(cells)

\* What a parser finds behind the magic at start: a frame, with its end and what
\* its header says, or an error.
Failed(error) == [k |-> error]
FrameAt(cells, start, end, h) ==
  [k |-> "ok", type |-> cells[start].m, decoder |-> cells[start].decoder, start |-> start,
   end |-> end, content |-> h.content, contentSum |-> h.contentSum,
   blockSums |-> h.blockSums, dictionary |-> h.dictionary, maximum |-> h.maximum,
   working |-> h.working]
-----------------------------------------------------------------------------
(***************************************************************************)
(* lz4.rs                                                                   *)
(***************************************************************************)
\* working_bytes
Lz4Working(maximum) == 3 * maximum + HistoryBytes

\* The descriptor, before anything is made of it.
Lz4HeaderError(h) ==
  CASE h.version # 1 \/ h.reserved \/ h.maximum = 0 -> "format"
    [] h.version = 1 /\ ~ h.reserved /\ h.maximum # 0 /\ ~ h.sealed -> "checksum"
    [] OTHER -> "ok"

\* The blocks from p to the end mark: the place behind it, or 0 for an error.
Lz4Blocks(cells, p, h) ==
  LET After[q \in 1 .. Len(cells) + 1] ==
        LET next == q + 1 + cells[q].size + (IF h.blocks THEN 1 ELSE 0) IN
        IF ~ Has(cells, q, "block") THEN 0
        ELSE IF cells[q].type = "end" THEN q + 1
        ELSE IF cells[q].size = 0 \/ cells[q].size > h.maximum THEN 0
        ELSE IF next > Len(cells) + 1 THEN 0
        ELSE After[next]
  IN  After[p]

\* parse_standard_frame; p is behind the magic.
ParseStandardFrame(cells, p) ==
  LET h == cells[p]
      blocks == Lz4Blocks(cells, p + 1, h)
      end == blocks + (IF h.checksum THEN 1 ELSE 0)
  IN  IF ~ Has(cells, p, "flags") THEN Failed("format")
      ELSE IF Lz4HeaderError(h) # "ok" THEN Failed(Lz4HeaderError(h))
      ELSE IF blocks = 0 \/ end > Len(cells) + 1 THEN Failed("format")
      ELSE FrameAt(cells, p - 1, end,
             [content |-> h.content, contentSum |-> h.checksum, blockSums |-> h.blocks,
              dictionary |-> h.dictionary, maximum |-> h.maximum,
              working |-> Lz4Working(h.maximum)])

\* A magic number where a block of a legacy frame could begin.
IsFrameMagic(cell) == cell.k = "magic" /\ cell.m \in {"lz4", "legacy", "skip"}

\* parse_legacy_frame: the blocks up to the end of the input, the next magic or
\* a block of size zero.
LegacyBlocks(cells, p) ==
  LET After[q \in 1 .. Len(cells) + 1] ==
        IF q > Len(cells) \/ IsFrameMagic(cells[q]) THEN q
        ELSE IF ~ Has(cells, q, "block") THEN 0
        ELSE IF cells[q].size = 0 THEN q + 1
        ELSE IF cells[q].size > LegacyBlockBytes
                  \/ ~ Within(cells, q + 1, cells[q].size) THEN 0
        ELSE After[q + 1 + cells[q].size]
  IN  After[p]

ParseLegacyFrame(cells, p) ==
  IF LegacyBlocks(cells, p) = 0 THEN Failed("format")
  ELSE FrameAt(cells, p - 1, LegacyBlocks(cells, p),
         [content |-> Unknown, contentSum |-> FALSE, blockSums |-> FALSE,
          dictionary |-> FALSE, maximum |-> LegacyBlockBytes,
          working |-> Lz4Working(LegacyBlockBytes)])
-----------------------------------------------------------------------------
(***************************************************************************)
(* zstandard.rs                                                             *)
(***************************************************************************)
\* window_bytes: the content itself, if the frame is a single segment.
Window(h) == IF h.single THEN h.content ELSE h.window

\* Mutant: a run takes the payload of its size.
ZstandardPayload_Size(b) == b.size

\* The payload of a block: a run is one byte.
ZstandardPayload(b) == IF b.type = "rle" THEN 1 ELSE b.size

ZstandardBlocks(cells, p, h) ==
  LET After[q \in 1 .. Len(cells) + 1] ==
        LET next == q + 1 + ZstandardPayload(cells[q]) IN
        IF ~ Has(cells, q, "block") THEN 0
        ELSE IF cells[q].size > Smaller(Window(h), MaximumBlockBytes) THEN 0
        ELSE IF cells[q].type = "reserved" \/ next > Len(cells) + 1 THEN 0
        ELSE IF cells[q].last THEN next
        ELSE After[next]
  IN  After[p]

\* parse_frame, then the window limit of parse.
ParseZstandardFrame(cells, p, maxDictionary) ==
  LET h == cells[p]
      blocks == ZstandardBlocks(cells, p + 1, h)
      end == blocks + (IF h.checksum THEN 1 ELSE 0)
  IN  IF ~ Has(cells, p, "descriptor") \/ h.reserved THEN Failed("format")
      ELSE IF blocks = 0 \/ end > Len(cells) + 1 THEN Failed("format")
      ELSE IF Window(h) > maxDictionary THEN Failed("limit")
      ELSE FrameAt(cells, p - 1, end,
             [content |-> h.content, contentSum |-> h.checksum, blockSums |-> FALSE,
              dictionary |-> h.dictionary, maximum |-> Window(h), working |-> Window(h)])
-----------------------------------------------------------------------------
(***************************************************************************)
(* Both                                                                     *)
(***************************************************************************)

\* A skippable frame at p, behind its magic: the place after it, or 0.
SkipFrame(cells, p) ==
  IF Has(cells, p, "size") /\ Within(cells, p + 1, cells[p].n)
    THEN p + 1 + cells[p].n ELSE 0

\* One round of the loop of parse.
ParseFrame(format, cells, p, maxDictionary) ==
  LET magic == cells[p]
      found == IF format = "zstandard"
                 THEN ParseZstandardFrame(cells, p + 1, maxDictionary)
               ELSE IF magic.m = "lz4" THEN ParseStandardFrame(cells, p + 1)
               ELSE ParseLegacyFrame(cells, p + 1)
  IN  IF magic.k # "magic" THEN Failed("format")
      ELSE IF magic.m = "skip" THEN
        IF SkipFrame(cells, p + 1) = 0 THEN Failed("format")
        ELSE [k |-> "ok", type |-> "skip", end |-> SkipFrame(cells, p + 1)]
      ELSE IF magic.m \notin (IF format = "lz4" THEN {"lz4", "legacy"} ELSE {"zstandard"})
        THEN Failed("format")
      ELSE found

\* All the frames, up to the first that is in error.
ParsedFrames(format, cells, maxDictionary) ==
  LET From[p \in 1 .. Len(cells) + 1] ==
        LET f == ParseFrame(format, cells, p, maxDictionary) IN
        IF p > Len(cells) THEN << >>
        ELSE IF f.k = "ok" THEN <<f>> \o From[f.end]
        ELSE <<f>>
  IN  From[1]

\* The frames among them that hold data.
DataFrames(found) ==
  LET From[n \in 1 .. Len(found) + 1] ==
        IF n > Len(found) THEN << >>
        ELSE IF found[n].type = "skip" THEN From[n + 1]
        ELSE <<found[n]>> \o From[n + 1]
  IN  From[1]

\* parse: the frame count is checked in front of every frame.
Parse(format, cells, maxFrames, maxDictionary) ==
  LET found == ParsedFrames(format, cells, maxDictionary) IN
  IF Len(found) > maxFrames THEN Failed("limit")
  ELSE IF found # << >> /\ found[Len(found)].k # "ok" THEN found[Len(found)]
  ELSE IF DataFrames(found) = << >> THEN Failed("format")
  ELSE [k |-> "ok", frames |-> DataFrames(found), all |-> found]

\* detect_format: the first magic that is not of a skippable frame.
DetectFormat(cells) ==
  LET At[p \in 1 .. Len(cells) + 1] ==
        IF ~ Has(cells, p, "magic") THEN "none"
        ELSE IF cells[p].m \in {"lz4", "legacy"} THEN "lz4"
        ELSE IF cells[p].m = "zstandard" THEN "zstandard"
        ELSE IF cells[p].m = "skip" /\ SkipFrame(cells, p + 1) # 0
          THEN At[SkipFrame(cells, p + 1)]
        ELSE "none"
  IN  At[1]

\* The aggregate size: the sum of the declared sizes if every frame has one.
UncompressedSize(frames) ==
  IF \E i \in DOMAIN frames : frames[i].content = Unknown
    THEN Unknown
    ELSE SumFunctionOnSet([i \in DOMAIN frames |-> frames[i].content], DOMAIN frames)

\* Lz4StreamInfo and ZstandardStreamInfo.
FrameInfo(parsed) ==
  LET CountOf(Test(_)) == Cardinality({i \in DOMAIN parsed.frames : Test(parsed.frames[i])}) IN
  [frames |-> Len(parsed.frames),
   skippable |-> Len(parsed.all) - Len(parsed.frames),
   legacy |-> CountOf(LAMBDA f : f.type = "legacy"),
   contentSums |-> CountOf(LAMBDA f : f.contentSum),
   blockSums |-> CountOf(LAMBDA f : f.blockSums),
   dictionaries |-> CountOf(LAMBDA f : f.dictionary),
   maximum |-> Max({f.maximum : f \in {parsed.frames[i] : i \in DOMAIN parsed.frames}})]
-----------------------------------------------------------------------------
(***************************************************************************)
(* The other side: the cells an encoder writes for a frame.  A frame to be  *)
(* written has a type, a header cell, blocks, for a skippable frame what is *)
(* inside, and what a decoder will make of it.                              *)
(***************************************************************************)
BlockCells(b, sums) ==
  <<BlockCell(b)>> \o [i \in 1 .. (IF b.type = "rle" THEN 1 ELSE b.size) |-> LookAlike]
    \o (IF sums THEN <<Sum>> ELSE << >>)

Blocks(w, sums) == FlattenSeq([i \in DOMAIN w.blocks |-> BlockCells(w.blocks[i], sums)])

Trailer(w) == IF w.header.checksum THEN <<Sum>> ELSE << >>

WrittenCells(w) ==
  <<Magic(w.type, w.decoder)>> \o
    CASE w.type = "lz4" ->
           <<w.header>> \o Blocks(w, w.header.blocks) \o <<EndMark>> \o Trailer(w)
      [] w.type = "legacy" -> Blocks(w, FALSE)
      [] w.type = "zstandard" -> <<w.header>> \o Blocks(w, FALSE) \o Trailer(w)
      [] w.type = "skip" -> <<SizeCell(Len(w.inside))>> \o w.inside

WrittenInput(written) == FlattenSeq([i \in DOMAIN written |-> WrittenCells(written[i])])

\* Where frame i begins, and where it ends.
WrittenStart(written, i) ==
  1 + MapThenSumSet(LAMBDA j : Len(WrittenCells(written[j])), 1 .. i - 1)
WrittenEnd(written, i) == WrittenStart(written, i + 1)

\* A frame as the formats define it.
WellWritten(w) ==
  CASE w.type = "lz4" ->
         /\ w.header.version = 1 /\ ~ w.header.reserved /\ w.header.maximum # 0
         /\ w.header.sealed
         /\ \A i \in DOMAIN w.blocks : w.blocks[i].size \in 1 .. w.header.maximum
    [] w.type = "legacy" ->
         \A i \in DOMAIN w.blocks :
           /\ w.blocks[i].size <= LegacyBlockBytes
           /\ w.blocks[i].size = 0 => i = Len(w.blocks)
    [] w.type = "zstandard" ->
         /\ ~ w.header.reserved
         /\ \A i \in DOMAIN w.blocks :
              /\ w.blocks[i].size <= Smaller(Window(w.header), MaximumBlockBytes)
              /\ w.blocks[i].type # "reserved"
    [] w.type = "skip" -> TRUE

FormatOf(w) == IF w.type = "legacy" THEN "lz4" ELSE w.type
=============================================================================
