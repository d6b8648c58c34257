---------------------------------- MODULE Xz ----------------------------------
(***************************************************************************)
(* decode/xz.rs: an XZ Stream is checked as a whole (preflight_xz) before   *)
(* any Block is decoded.  The Index repeats what the Blocks say: where each *)
(* one ends and how much it decodes to.                                     *)
(*                                                                          *)
(* Stream Header, Block Header, Check, Index and Footer are one cell and    *)
(* enough Rest cells to reach the alignment; compressed data is one cell,   *)
(* so that it needs Block Padding.                                          *)
(***************************************************************************)
EXTENDS Lzma2

XzAlign == 2     \* four bytes, in cells

XzHeader(check) ==
  [k |-> "xzhead", crc |-> TRUE, reserved |-> FALSE, check |-> check]
XzNoHeader == [XzHeader("none") EXCEPT !.k = "none"]
XzFilter(id) == [id |-> id, size |-> 1, properties |-> TRUE, dictionary |-> 1]
XzBlock(filters, csize, usize) ==
  [k |-> "xzblock", size |-> XzAlign, crc |-> TRUE, reserved |-> FALSE,
   filters |-> filters, csize |-> csize, usize |-> usize, padding |-> TRUE]
XzNoBlock == [XzBlock(<<XzFilter("lzma2")>>, NoSize, NoSize) EXCEPT !.k = "none"]
XzIndex(records) ==
  [k |-> "xzindex", crc |-> TRUE, records |-> records, padding |-> TRUE]
XzNoIndex == [XzIndex(<< >>) EXCEPT !.k = "none"]
XzFooter(check, backward) ==
  [k |-> "xzfoot", crc |-> TRUE, check |-> check, backward |-> backward]
XzNoFooter == [XzFooter("none", 0) EXCEPT !.k = "none"]

\* XzCheck
XzCheckSize == [none |-> 0, crc |-> XzAlign, sha |-> XzAlign]
XzSizeOf(check) == IF check \in DOMAIN XzCheckSize THEN XzCheckSize[check] ELSE 0

XzAlignUp(n) == IF n % XzAlign = 0 THEN n ELSE n + XzAlign - (n % XzAlign)

\* The end of the Stream, in front of the zero Stream Padding.
XzStreamEnd(cells) ==
  Min({n \in 0 .. Len(cells) :
         /\ n % XzAlign = Len(cells) % XzAlign
         /\ \A i \in n + 1 .. Len(cells) : cells[i] = Zero})

XzFooterOf(cells) ==
  RecordAt(cells, XzStreamEnd(cells) - XzAlign, "xzfoot", XzNoFooter)
XzIndexSize(cells) == (XzFooterOf(cells).backward + 1) * XzAlign
XzIndexStart(cells) == XzStreamEnd(cells) - XzAlign - XzIndexSize(cells)
XzIndexOf(cells) == RecordAt(cells, XzIndexStart(cells), "xzindex", XzNoIndex)

XzFraming(cells) ==
  LET h == RecordAt(cells, 0, "xzhead", XzNoHeader)
      f == XzFooterOf(cells)
      n == XzIndexOf(cells) IN
  << <<Len(cells) % XzAlign = 0, "format">>,
     <<XzStreamEnd(cells) >= 3 * XzAlign, "format">>,
     <<h.k = "xzhead", "format">>,
     <<h.crc, "checksum">>,
     <<~ h.reserved, "format">>,
     <<h.check \in DOMAIN XzCheckSize, "unsupported">>,
     <<f.k = "xzfoot" /\ f.check = h.check, "format">>,
     <<f.crc, "checksum">>,
     <<XzIndexSize(cells) <= limits.header, "limit">>,
     <<XzIndexStart(cells) >= 0, "format">>,
     <<n.k = "xzindex", "format">>,
     <<n.crc, "checksum">>,
     <<Len(n.records) <= limits.frames, "limit">>,
     <<2 * XzAlign + XzIndexSize(cells) <= limits.header, "limit">> >>

\* validate_filter: LZMA2 comes last and only last; ZIP admits the old ones.
XzFilterResult(f, last, zip) ==
  FirstFailure(<< <<f.id # "internal", "format">>,
                  <<f.size <= limits.property, "limit">>,
                  <<f.id \in {"lzma2", "delta", "bcj"} \/ (f.id = "arm64" /\ ~ zip),
                    "unsupported">>,
                  <<(f.id = "lzma2") = last, "format">>,
                  <<f.properties, "format">>,
                  <<f.id = "lzma2" => f.dictionary <= limits.dictionary, "limit">> >>)

\* Where the Block of record i begins, by the records in front of it.
XzBlockStart(records, i) ==
  XzAlign + MapThenSumSet(LAMBDA j : XzAlignUp(records[j][1]), 1 .. i - 1)

XzCoders(cells, records, i) ==
  MapThenSumSet(LAMBDA j : Len(RecordAt(cells, XzBlockStart(records, j), "xzblock",
                                        XzNoBlock).filters), 1 .. i)

\* The Block Headers up to that of Block i.
XzHeaderSizes(cells, records, i) ==
  MapThenSumSet(LAMBDA j : RecordAt(cells, XzBlockStart(records, j), "xzblock",
                                    XzNoBlock).size, 1 .. i)

\* The sizes a Block Header may repeat are those of the Index.
XzBlockAgrees(b, csize, usize) ==
  b.csize \in {NoSize, csize} /\ b.usize \in {NoSize, usize}

\* preflight_block and the rest of its round, for record i.
XzBlockChecks(cells, i, maximum, zip) ==
  LET records == XzIndexOf(cells).records
      check == XzSizeOf(RecordAt(cells, 0, "xzhead", XzNoHeader).check)
      start == XzBlockStart(records, i)
      b == RecordAt(cells, start, "xzblock", XzNoBlock)
      csize == records[i][1] - b.size - check
      data == start + b.size
      checkAt == data + XzAlignUp(csize)
      filters == [j \in DOMAIN b.filters |->
                    XzFilterResult(b.filters[j], j = Len(b.filters), zip)] IN
  << <<records[i][1] # 0, "format">>,
     <<b.k = "xzblock", "format">>,
     <<b.size <= records[i][1], "format">>,
     <<b.size <= limits.header, "limit">>,
     <<b.crc, "checksum">>,
     <<~ b.reserved, "format">>,
     <<zip => Len(b.filters) <= 2, "unsupported">>,
     <<Len(b.filters) <= limits.coders, "limit">> >>
  \o [j \in DOMAIN filters |-> <<filters[j] = "ok", filters[j]>>]
  \o << <<b.padding, "format">>,
        <<csize > 0, "format">>,
        <<XzBlockAgrees(b, csize, records[i][2]), "format">>,
        <<data + csize <= Len(cells), "format">>,
        <<\A p \in data + csize + 1 .. checkAt : p <= Len(cells) /\ cells[p] = Zero, "format">>,
        <<checkAt + check <= Len(cells), "format">>,
        <<checkAt + check = XzAlignUp(start + records[i][1]), "format">>,
        <<XzCoders(cells, records, i) <= limits.totalCoders, "limit">>,
        <<2 * XzAlign + XzIndexSize(cells) + XzHeaderSizes(cells, records, i)
            <= limits.header, "limit">>,
        <<MapThenSumSet(LAMBDA j : records[j][2], 1 .. i) <= maximum, "limit">> >>

\* The first failure among results that come one after the other.
FirstOf(results) == FirstFailure([i \in DOMAIN results |-> <<results[i] = "ok", results[i]>>])

XzPreflight(cells, expected, maximum, zip) ==
  LET records == XzIndexOf(cells).records IN
  IF expected > maximum THEN "limit"
  ELSE AndThen(FirstFailure(XzFraming(cells)),
       AndThen(FirstOf([i \in DOMAIN records |->
                          FirstFailure(XzBlockChecks(cells, i, maximum, zip))]),
       FirstFailure(<< <<XzIndexOf(cells).padding, "format">>,
         <<XzBlockStart(records, Len(records) + 1) = XzIndexStart(cells), "format">>,
         <<expected = NoSize
             \/ expected = MapThenSumSet(LAMBDA j : records[j][2], DOMAIN records),
           "format">> >>)))
-----------------------------------------------------------------------------
\* What a filter makes of its input: a running sum, a shift by the place.
XzUnfilter(id, cells) ==
  [i \in DOMAIN cells |->
     IF cells[i].k # "byte" THEN cells[i]
     ELSE Byte((IF id = "delta"
                THEN MapThenSumSet(LAMBDA j : Value(cells[j]), 1 .. i)
                ELSE cells[i].v + i) % 4)]

\* apply_prefilters: the last filter in front of LZMA2 is undone first.
XzUnfiltered(filters, raw) ==
  CASE Len(filters) = 1 -> raw
    [] Len(filters) = 2 -> XzUnfilter(filters[1].id, raw)
    [] OTHER -> XzUnfilter(filters[1].id, XzUnfilter(filters[2].id, raw))

\* decode_lzma2 on the compressed data of Block i.
XzBlockDecoded(cells, i, maximum) ==
  LET records == XzIndexOf(cells).records
      check == RecordAt(cells, 0, "xzhead", XzNoHeader).check
      start == XzBlockStart(records, i)
      b == RecordAt(cells, start, "xzblock", XzNoBlock)
      csize == records[i][1] - b.size - XzSizeOf(check) IN
  DecodeLzma2(Slice(cells, start + b.size, csize), Last(b.filters).dictionary,
              records[i][2], maximum)

\* The output of a Block that decoded, which its own size bounds.
XzBlockOutput(cells, i) ==
  XzUnfiltered(RecordAt(cells, XzBlockStart(XzIndexOf(cells).records, i), "xzblock",
                        XzNoBlock).filters,
               XzBlockDecoded(cells, i, XzIndexOf(cells).records[i][2]).out)

\* ... and verify_block_check of what its filters make of it.
XzBlockResult(cells, i, maximum) ==
  LET records == XzIndexOf(cells).records
      check == RecordAt(cells, 0, "xzhead", XzNoHeader).check
      checkAt == XzAlignUp(XzBlockStart(records, i) + records[i][1]) - XzSizeOf(check) IN
  AndThen(XzBlockDecoded(cells, i, maximum).result,
          IF check = "none" \/ RecordAt(cells, checkAt, "digest", Zero)
                                 = Digest(XzBlockOutput(cells, i))
          THEN "ok" ELSE "checksum")

XzResult(cells, expected, maximum, zip) ==
  AndThen(XzPreflight(cells, expected, maximum, zip),
          FirstOf([i \in DOMAIN XzIndexOf(cells).records |->
                     XzBlockResult(cells, i, maximum)]))

XzOutput(cells) ==
  FlattenSeq([i \in DOMAIN XzIndexOf(cells).records |-> XzBlockOutput(cells, i)])
-----------------------------------------------------------------------------
CopyUncompressed(cells, maximum) == IF Len(cells) <= maximum THEN "ok" ELSE "limit"
Containers == {"none", "gzip", "bzip2", "xz", "lzma", "zstd"}
ContainerResult(codec, cells, maximum) ==
  CASE codec = "none" -> CopyUncompressed(cells, maximum)
    [] codec = "gzip" -> FirstFailure(GzipChecks(cells, maximum))
    [] codec = "xz"   -> XzResult(cells, NoSize, maximum, FALSE)
    [] codec = "lzma" -> FirstFailure(LzmaChecks(cells, maximum))
    [] OTHER          -> FirstFailure(CodecChecks(codec, cells, NoSize, maximum))
ContainerOutput(codec, cells) ==
  CASE codec = "none" -> cells
    [] codec = "gzip" -> GzipOutput(cells)
    [] codec = "xz"   -> XzOutput(cells)
    [] OTHER          -> StreamOutput(cells)
=============================================================================
