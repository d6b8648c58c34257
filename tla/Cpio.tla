-------------------------------- MODULE Cpio --------------------------------
(***************************************************************************)
(* cpio.rs: standalone CPIO archives in all header representations, and     *)
(* parse_entries, which the RPM reader also runs over its payload.          *)
(*                                                                          *)
(* A header cell holds the fields that decide: magic, name size (with its   *)
(* NUL), file size, checksum field, whether the entry is a symlink, and     *)
(* whether all of its digits are digits.                                    *)
(***************************************************************************)
EXTENDS Package

\* Widths in cells, with the remainder of the real width by the alignment:
\* 110 bytes aligned to 4, 76 to 1, 26 to 2.
CpioNewc   == [width |-> 2, align |-> 4]
CpioOdc    == [width |-> 1, align |-> 1]
CpioBinary == [width |-> 2, align |-> 2]
CpioLayout == [newc |-> CpioNewc, crc |-> CpioNewc, odc |-> CpioOdc,
               binle |-> CpioBinary, binbe |-> CpioBinary]
Trailer == <<99>>

CpioHeader(magic, name, size, sum, link) ==
  [k |-> "cpio", magic |-> magic, name |-> name, size |-> size, sum |-> sum,
   link |-> link, digits |-> TRUE]
CpioNoHeader == [CpioHeader("none", 0, 0, 0, FALSE) EXCEPT !.digits = FALSE]

AlignUp(value, alignment) ==
  IF value % alignment = 0 THEN value
  ELSE value + alignment - (value % alignment)

\* byte_sum over u32, kept in width CpioSumMod so that it can wrap.
CpioSumMod == 16
ByteSum(cells) == MapThenSumSet(LAMBDA i : Value(cells[i]), DOMAIN cells) % CpioSumMod

\* hex and octal
CpioDigits(h) == h.digits

\* parse_header and the parser of each representation.
CpioHeaderChecks(cells, o, h) ==
  << <<h.magic # "large", "unsupported">>,
     <<h.magic \in DOMAIN CpioLayout, "format">>,
     <<h.magic \in DOMAIN CpioLayout => o + CpioLayout[h.magic].width <= Len(cells), "format">>,
     <<CpioDigits(h), "format">>,
     <<h.magic = "newc" => h.sum = 0, "format">> >>

\* The extent of the record at o: name, data, end, and the entry it lists.
CpioExtent(cells, o, h) ==
  LET layout == IF h.magic \in DOMAIN CpioLayout THEN CpioLayout[h.magic] ELSE CpioOdc
      width == layout.width
      align == layout.align
      start == AlignUp(o + width + h.name, align) IN
  [nameEnd |-> o + width + h.name,
   start |-> start,
   dataEnd |-> start + h.size,
   end |-> AlignUp(start + h.size, align),
   name |-> [i \in 1 .. Len(Slice(cells, o + width, h.name - 1)) |->
               Value(Slice(cells, o + width, h.name - 1)[i])]]

AllZero(cells, from, to) ==
  to <= Len(cells) /\ \A i \in from + 1 .. to : cells[i] = Zero

\* verify_checksum
CpioSumHolds(h, data) == h.magic = "crc" => ByteSum(data) = h.sum

\* The body of parse_entries' loop after parse_header, in its order.  (A name
\* or data that is cut off and padding that is not zero are all "format".)
CpioRecordChecks(cells, h, x, count, a) ==
  << <<a.header + x.nameEnd - offset <= limits.header, "limit">>,
     <<h.name # 0, "format">>,
     <<x.nameEnd <= Len(cells), "format">>,
     <<x.nameEnd \in 1 .. Len(cells) => cells[x.nameEnd] = Zero, "format">>,
     <<\A i \in DOMAIN x.name : x.name[i] # 0, "format">>,
     <<AllZero(cells, x.nameEnd, x.start), "format">>,
     <<x.dataEnd <= Len(cells), "format">>,
     <<AllZero(cells, x.dataEnd, x.end), "format">>,
     <<x.name = Trailer => h.size = 0, "format">>,
     <<x.name # Trailer => count < limits.files, "limit">>,
     <<x.name # Trailer => Len(x.name) <= limits.name, "limit">>,
     <<x.name # Trailer => a.names + Len(x.name) <= limits.names, "limit">>,
     <<x.name # Trailer => h.size <= limits.entry, "limit">>,
     <<x.name # Trailer => CpioSumHolds(h, Slice(cells, x.start, h.size)), "checksum">> >>

\* The archive's format after one more header.
CpioMerge(format, magic) ==
  IF format \in {"none", "start", magic} THEN magic ELSE "mixed"

CpioEntry(h, x) ==
  [name |-> x.name, start |-> x.start, end |-> x.dataEnd, size |-> h.size,
   format |-> h.magic, sum |-> h.sum, link |-> h.link, checked |-> h.magic = "crc"]

\* One round of parse_entries over cells; open returns once the trailer was
\* met.
CpioRound(cells) ==
  LET h == RecordAt(cells, offset, "cpio", CpioNoHeader)
      x == CpioExtent(cells, offset, h)
      header == FirstFailure(CpioHeaderChecks(cells, offset, h))
      record == IF header # "ok" THEN header
                ELSE FirstFailure(CpioRecordChecks(cells, h, x, Len(entries), acc)) IN
  \/ /\ offset >= Len(cells)
     /\ ParseFails("format")
  \/ /\ offset < Len(cells)
     /\ record # "ok"
     /\ ParseFails(record)
  \/ /\ offset < Len(cells)
     /\ record = "ok"
     /\ x.name = Trailer
     /\ acc' = [acc EXCEPT !.format = CpioMerge(@, h.magic)]
     /\ offset' = x.end
     /\ UNCHANGED entries
     /\ OpenReturns(IF AllZero(cells, x.end, Len(cells)) THEN "ok" ELSE "format")
  \/ /\ offset < Len(cells)
     /\ record = "ok"
     /\ x.name # Trailer
     /\ acc' = [acc EXCEPT !.format = CpioMerge(@, h.magic),
                           !.header = @ + (x.nameEnd - offset),
                           !.names = @ + Len(x.name)]
     /\ entries' = Append(entries, CpioEntry(h, x))
     /\ offset' = x.end
     /\ ParseGoesOn
-----------------------------------------------------------------------------
CpioReadPath == Is("cpio") /\ (StatPath \/ ReadPath)
CpioOpenBytes == Is("cpio") /\ StartOpen
CpioParse == Is("cpio") /\ op = "open" /\ CpioRound(Cells)

CpioData(e) == Slice(Cells, e.start, e.end - e.start)

\* data and verified_data
CpioVerified(e) ==
  << <<e.start <= e.end /\ e.end <= Len(Cells), "format">>,
     <<e.checked => ByteSum(CpioData(e)) = e.sum, "checksum">> >>

CpioVerify ==
  /\ Is("cpio")
  /\ \/ /\ at \in DOMAIN entries
        /\ VerifyEntry(FirstFailure(WithinOutput(entries[at].size)
                                      \o CpioVerified(entries[at])), entries[at].size)
     \/ VerifyDone

CpioExtractEntries ==
  /\ Is("cpio")
  /\ \/ /\ at \in DOMAIN entries
        /\ BeginEntry(FirstFailure(WithinOutput(entries[at].size)
                                     \o CpioVerified(entries[at])),
                      entries[at].size, CpioData(entries[at]))
     \/ ExtractDone

\* extract_entry_to: the checksum, then the entry limit; no total.
CpioAlone(i) ==
  IF i \notin DOMAIN entries THEN "format"
  ELSE FirstFailure(CpioVerified(entries[i])
                      \o << <<entries[i].size <= limits.entry, "limit">> >>)

CpioExtractEntry ==
  /\ Is("cpio")
  /\ \E i \in 1 .. Len(entries) + 1 :
       BeginAlone(i, CpioAlone(i),
                  IF i \in DOMAIN entries THEN CpioData(entries[i]) ELSE << >>)

CpioWrite == Is("cpio") /\ (WriteChunk \/ FinishEntry)

CpioNext ==
  \/ CpioReadPath \/ CpioOpenBytes \/ CpioParse \/ CpioVerify
  \/ CpioExtractEntries \/ CpioExtractEntry \/ CpioWrite
=============================================================================
