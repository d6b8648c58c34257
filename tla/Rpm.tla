---------------------------------- MODULE Rpm ----------------------------------
(***************************************************************************)
(* rpm/: lead, signature header, main header, compressed CPIO payload.      *)
(* Nothing of the package is listed before the digests that its headers     *)
(* carry were checked.                                                      *)
(*                                                                          *)
(* The lead is a cell and a Rest, a header (fixed record, index and store)  *)
(* is one cell with its tags in index order.                                *)
(***************************************************************************)
EXTENDS Xz, Cpio

RpmAlign == 2    \* the signature is padded to eight bytes, in cells

RpmLead(major, name) == [k |-> "rpmlead", major |-> major, name |-> name]
RpmNoLead == [RpmLead(3, 0) EXCEPT !.k = "none"]
RpmHeader(tags) ==
  [k |-> "rpmhdr", version |-> 1, reserved |-> 0, tags |-> tags]
RpmNoHeader == [RpmHeader(<< >>) EXCEPT !.k = "none"]

\* An index entry: tag, type, the values, and whether range, alignment, count
\* and termination in the store are as the type demands.
RpmTag(tag, type, values) ==
  [tag |-> tag, type |-> type, values |-> values, fits |-> TRUE]
RpmText(s) == [k |-> "text", text |-> s]
RpmTypes == {"null", "char", "int8", "int16", "int32", "int64", "string", "binary",
             "strings", "i18n"}
RpmAbsent == RpmTag("absent", "absent", << >>)

\* RpmHeader::value: the last entry that carries the tag.
RpmValue(h, tag) ==
  LET places == {i \in DOMAIN h.tags : h.tags[i].tag = tag} IN
  IF places = {} THEN RpmAbsent ELSE h.tags[Max(places)]
RpmHas(h, tag) == RpmValue(h, tag) # RpmAbsent

\* What a parsed header keeps: its index and every value.
RpmCost(h) == MapThenSumSet(LAMBDA i : 1 + Len(h.tags[i].values), DOMAIN h.tags)

\* parse_value for each index entry, in order.
RpmValueResult(t) ==
  FirstFailure(<< <<t.type \in RpmTypes, "unsupported">>, <<t.fits, "format">> >>)

\* parse_header
RpmHeaderChecks(h, charged) ==
  LET values == FirstOf([i \in DOMAIN h.tags |-> RpmValueResult(h.tags[i])]) IN
  << <<h.k = "rpmhdr", "format">>,
     <<h.version = 1, "unsupported">>,
     <<h.reserved = 0, "format">>,
     <<Len(h.tags) <= limits.properties, "limit">>,
     <<1 <= limits.header, "limit">>,
     <<charged + Len(h.tags) <= limits.header, "limit">>,
     <<values = "ok", values>>,
     <<charged + RpmCost(h) <= limits.header, "limit">> >>

RpmSignature == RecordAt(Cells, RpmAlign, "rpmhdr", RpmNoHeader)
RpmMainAt == 2 * RpmAlign
RpmMain == RecordAt(Cells, RpmMainAt, "rpmhdr", RpmNoHeader)

RpmParse ==
  LET lead == RecordAt(Cells, 0, "rpmlead", RpmNoLead) IN
  FirstFailure(<< <<Len(Cells) >= RpmAlign /\ lead.k = "rpmlead", "format">>,
                  <<lead.major \in {3, 4}, "unsupported">>,
                  <<lead.name <= limits.name, "limit">>,
                  <<lead.name <= limits.header, "limit">> >>
               \o RpmHeaderChecks(RpmSignature, lead.name)
               \o << <<AllZero(Cells, RpmAlign + 1, RpmMainAt), "format">> >>
               \o RpmHeaderChecks(RpmMain, lead.name + RpmCost(RpmSignature)))

\* header_scalar_bytes and verify_hex_digest of a digest of the main header.
RpmHeaderDigest(tag) ==
  LET v == RpmValue(RpmSignature, tag) IN
  << <<RpmHas(RpmSignature, tag) => v.type = "string", "format">>,
     <<RpmHas(RpmSignature, tag) => v.values = <<Digest(<<RpmMain>>)>>, "checksum">> >>

\* verify_header_digests
RpmHeaderDigests ==
  << <<~ RpmHas(RpmSignature, "sha3"), "unsupported">> >>
  \o RpmHeaderDigest("sha256") \o RpmHeaderDigest("sha1")

\* validate_payload_digest_algorithm
RpmAlgorithm ==
  LET v == RpmValue(RpmMain, "algorithm") IN
  << <<v # RpmAbsent => v.type = "int32" /\ Len(v.values) = 1, "format">>,
     <<v # RpmAbsent => v.values = <<Byte(8)>>, "unsupported">> >>

\* payload_compression: gzip is what a package without the tag uses.
RpmCompression ==
  LET v == RpmValue(RpmMain, "compressor") IN
  IF v = RpmAbsent THEN "gzip" ELSE v.values[1].text

RpmFeatures ==
  LET c == RpmValue(RpmMain, "compressor")
      f == RpmValue(RpmMain, "format") IN
  << <<c # RpmAbsent => c.type = "string", "format">>,
     <<RpmCompression \in Containers, "unsupported">>,
     <<f # RpmAbsent => f.type = "string", "format">>,
     <<f # RpmAbsent => f.values = <<RpmText("cpio")>>, "unsupported">>,
     <<~ RpmHas(RpmMain, "sha512"), "unsupported">> >>

RpmHeaders ==
  /\ Is("rpm") /\ op = "open" /\ acc.format = "none" /\ offset = 0
  /\ LET parsed == RpmParse
         result == IF parsed # "ok" THEN parsed
                   ELSE FirstFailure(RpmHeaderDigests \o RpmAlgorithm \o RpmFeatures) IN
     \/ /\ result # "ok"
        /\ ParseFails(result)
     \/ /\ result = "ok"
        /\ offset' = RpmMainAt + 1
        /\ UNCHANGED <<acc, entries>>
        /\ ParseGoesOn

\* verify_payload_digest over cells.
RpmPayloadDigest(tag, cells) ==
  LET v == RpmValue(RpmMain, tag) IN
  << <<v # RpmAbsent => v.type = "strings", "format">>,
     <<v # RpmAbsent => Len(v.values) = 1, "unsupported">>,
     <<v # RpmAbsent => v.values = <<Digest(cells)>>, "checksum">> >>

\* The digest of the compressed payload, decode_payload, the digest of the
\* decoded one.
RpmDecoded(compressed, payload) ==
  AndThen(FirstFailure(RpmPayloadDigest("payload", compressed)),
  AndThen(ContainerResult(RpmCompression, compressed, limits.total),
          FirstFailure(RpmPayloadDigest("payloadAlt", payload))))

RpmPayloadWith(payload, result) ==
  \/ /\ result # "ok"
     /\ ParseFails(result)
  \/ /\ result = "ok"
     /\ acc' = [header |-> 0, names |-> 0, format |-> "start", payload |-> payload]
     /\ offset' = 0
     /\ UNCHANGED entries
     /\ ParseGoesOn

RpmPayload ==
  /\ Is("rpm") /\ op = "open" /\ acc.format = "none" /\ offset > 0
  /\ LET compressed == Slice(Cells, offset, Len(Cells))
         payload == ContainerOutput(RpmCompression, compressed) IN
     RpmPayloadWith(payload, RpmDecoded(compressed, payload))

\* cpio::parse over the decoded payload.
RpmParsePayload ==
  Is("rpm") /\ op = "open" /\ acc.format # "none" /\ CpioRound(acc.payload)
-----------------------------------------------------------------------------
RpmReadPath == Is("rpm") /\ (StatPath \/ ReadPath)
RpmOpenBytes == Is("rpm") /\ StartOpen

RpmData(e) == Slice(acc.payload, e.start, e.end - e.start)

\* verified_data
RpmVerified(e) ==
  << <<e.start <= e.end /\ e.end <= Len(acc.payload), "format">>,
     <<e.checked => ByteSum(RpmData(e)) = e.sum, "checksum">> >>

\* verify: the total only.
RpmVerify ==
  /\ Is("rpm")
  /\ \/ /\ at \in DOMAIN entries
        /\ VerifyEntry(FirstFailure(<< <<total + entries[at].size <= limits.total, "limit">> >>
                                      \o RpmVerified(entries[at])), entries[at].size)
     \/ VerifyDone

RpmExtractEntries ==
  /\ Is("rpm")
  /\ \/ /\ at \in DOMAIN entries
        /\ BeginEntry(FirstFailure(WithinOutput(entries[at].size)
                                     \o RpmVerified(entries[at])),
                      entries[at].size, RpmData(entries[at]))
     \/ ExtractDone

\* extract_entry_to: no limit.
RpmAlone(i) ==
  IF i \notin DOMAIN entries THEN "format" ELSE FirstFailure(RpmVerified(entries[i]))

RpmExtractEntry ==
  /\ Is("rpm")
  /\ \E i \in 1 .. Len(entries) + 1 :
       BeginAlone(i, RpmAlone(i),
                  IF i \in DOMAIN entries THEN RpmData(entries[i]) ELSE << >>)

RpmWrite == Is("rpm") /\ (WriteChunk \/ FinishEntry)

RpmNext ==
  \/ RpmReadPath \/ RpmOpenBytes \/ RpmHeaders \/ RpmPayload \/ RpmParsePayload
  \/ RpmVerify \/ RpmExtractEntries \/ RpmExtractEntry \/ RpmWrite
=============================================================================
