---------------------------------- MODULE Arj ----------------------------------
(***************************************************************************)
(* arj/: the ARJ reader.  A chain of headers, each with its own CRC and a   *)
(* chain of extended headers behind it, found behind an optional SFX stub.  *)
(*                                                                          *)
(* A basic header (magic, size, fields, strings, CRC) is one cell, of size  *)
(* 0 at the end of the archive; an extended header is one cell, of size 0   *)
(* at the end of its chain.  crc says whether the stored CRC is that of the *)
(* header's bytes.                                                          *)
(***************************************************************************)
EXTENDS Codec, SequencesExt

ArjMaxHeader == 2      \* MAX_BASIC_HEADER_BYTES
ArjFraming == 2       \* what a header has besides its size: the size field, the CRC
ArjLzhState == 3       \* STATIC_LZH_DECODER_BYTES
ArjFastState == 2      \* FASTEST_DICTIONARY_BYTES

ArjHeader(type, name, flags, method, csize, usize, of) ==
  [k |-> "arj", size |-> 1, crc |-> TRUE, fields |-> TRUE, type |-> type,
   name |-> name, comment |-> 0, flags |-> flags, method |-> method,
   csize |-> csize, usize |-> usize, of |-> of, chapters |-> 0]
ArjMain(flags) == ArjHeader("comment", <<7>>, flags, "stored", 0, 0, << >>)
ArjEnd == [ArjMain({}) EXCEPT !.size = 0]
ArjNone == [ArjMain({}) EXCEPT !.k = "none"]
ArjExtended(size) == [k |-> "arjext", size |-> size, crc |-> TRUE]
ArjNoExtended == [ArjExtended(0) EXCEPT !.k = "none"]

\* find_main_header: candidates in order; one that cannot be a header is
\* passed over, one whose size is beyond the limit fails the scan.
ArjCandidates ==
  {p \in 0 .. Smaller(Len(Cells) - 1, limits.sfx) :
     Cells[p + 1].k = "arj" /\ Cells[p + 1].size \in 1 .. ArjMaxHeader}
ArjStops(p) == Cells[p + 1].size > limits.header \/ Cells[p + 1].crc

ArjScan ==
  LET stops == {p \in ArjCandidates : ArjStops(p)} IN
  IF stops # {} THEN
    IF Cells[Min(stops) + 1].size > limits.header THEN "limit" ELSE "ok"
  ELSE IF ArjCandidates # {} THEN "checksum"
  ELSE IF Len(Cells) > limits.sfx THEN "limit" ELSE "format"

\* account_header, parse_main_header, validate_header_strings.
ArjStringChecks(h) ==
  << <<Len(h.name) <= limits.name, "limit">>,
     <<h.comment <= limits.header, "limit">> >>
ArjMainChecks(h) ==
  << <<h.size + ArjFraming <= limits.header, "limit">>,
     <<h.fields, "format">>, <<h.type = "comment", "format">> >> \o ArjStringChecks(h)

\* What open_bytes refuses of a main header once its extensions were read.
ArjVolumeChecks(h) ==
  << <<"volume" \notin h.flags /\ h.chapters = 0, "unsupported">>,
     <<{"secured", "envelope"} \cap h.flags = {}, "unsupported">> >>

ArjFindMain ==
  /\ Is("arj") /\ op = "open" /\ acc.format = "none"
  /\ LET p == Min({q \in ArjCandidates : ArjStops(q)})
         result == IF ArjScan = "ok" THEN FirstFailure(ArjMainChecks(Cells[p + 1]))
                   ELSE ArjScan IN
     \/ /\ result # "ok"
        /\ ParseFails(result)
     \/ /\ result = "ok"
        /\ acc' = [format |-> "main", header |-> Cells[p + 1].size + ArjFraming,
                   properties |-> 0, names |-> Len(Cells[p + 1].name),
                   h |-> Cells[p + 1]]
        /\ offset' = p + 1
        /\ UNCHANGED entries
        /\ ParseGoesOn

\* read_extended_headers, one of them: its size, then its body and CRC.
ArjExtendedChecks(x) ==
  << <<x.k = "arjext", "format">>,
     <<acc.header + 1 <= limits.header, "limit">>,
     <<x.size # 0 => acc.properties < limits.properties, "limit">>,
     <<x.size <= limits.header, "limit">>,
     <<x.size # 0 => x.crc, "checksum">>,
     <<acc.header + ArjFraming + x.size <= limits.header, "limit">> >>

\* The member's data and the limits of the listing, after its extensions.
ArjMemberChecks(h, start) ==
  << <<start + h.csize <= Len(Cells), "format">>,
     <<Len(entries) < limits.files, "limit">>,
     <<acc.names + Len(h.name) <= limits.names, "limit">>,
     <<h.usize <= limits.entry, "limit">> >>

ArjEntry(h, start) ==
  [name |-> h.name, start |-> start, end |-> start + h.csize, size |-> h.usize,
   method |-> h.method, of |-> h.of, encrypted |-> "garbled" \in h.flags,
   checked |-> h.method # "noDataNoCrc"]

ArjExtensions ==
  /\ Is("arj") /\ op = "open" /\ acc.format \in {"main", "member"}
  /\ LET x == RecordAt(Cells, offset, "arjext", ArjNoExtended)
         end == FirstFailure(IF acc.format = "main" THEN ArjVolumeChecks(acc.h)
                             ELSE ArjMemberChecks(acc.h, offset + 1))
         own == FirstFailure(ArjExtendedChecks(x))
         result == IF own # "ok" \/ x.size # 0 THEN own ELSE end IN
     \/ /\ result # "ok"
        /\ ParseFails(result)
     \/ /\ result = "ok" /\ x.size # 0
        /\ acc' = [acc EXCEPT !.header = @ + ArjFraming + x.size, !.properties = @ + 1]
        /\ offset' = offset + 1
        /\ UNCHANGED entries
        /\ ParseGoesOn
     \/ /\ result = "ok" /\ x.size = 0 /\ acc.format = "main"
        /\ acc' = [acc EXCEPT !.header = @ + 1, !.format = "headers"]
        /\ offset' = offset + 1
        /\ UNCHANGED entries
        /\ ParseGoesOn
     \/ /\ result = "ok" /\ x.size = 0 /\ acc.format = "member"
        /\ acc' = [acc EXCEPT !.header = @ + 1, !.format = "headers",
                              !.names = @ + Len(acc.h.name)]
        /\ entries' = Append(entries, ArjEntry(acc.h, offset + 1))
        /\ offset' = offset + 1 + acc.h.csize
        /\ ParseGoesOn

\* read_header_at, parse_local_header and the refusal of split members.
ArjLocalChecks(h) ==
  << <<h.k = "arj", "format">>,
     <<h.size <= ArjMaxHeader, "format">>,
     <<h.size <= limits.header, "limit">>,
     <<h.crc, "checksum">>,
     <<acc.header + h.size + ArjFraming <= limits.header, "limit">>,
     <<h.fields, "format">>,
     <<h.name # << >>, "format">> >>
  \o ArjStringChecks(h)
  \o << <<{"volume", "extended"} \cap h.flags = {} /\ h.chapters = 0, "unsupported">> >>

ArjLocal ==
  /\ Is("arj") /\ op = "open" /\ acc.format = "headers"
  /\ LET h == RecordAt(Cells, offset, "arj", ArjNone)
         result == FirstFailure(ArjLocalChecks(h)) IN
     \/ /\ h.k = "arj" /\ h.size = 0
        /\ OpenReturns("ok")
        /\ UNCHANGED parseVars
     \/ /\ ~ (h.k = "arj" /\ h.size = 0)
        /\ result # "ok"
        /\ ParseFails(result)
     \/ /\ ~ (h.k = "arj" /\ h.size = 0)
        /\ result = "ok"
        /\ acc' = [acc EXCEPT !.format = "member", !.header = @ + h.size + ArjFraming, !.h = h]
        /\ offset' = offset + 1
        /\ UNCHANGED entries
        /\ ParseGoesOn
-----------------------------------------------------------------------------
(***************************************************************************)
(* decode_verified                                                          *)
(***************************************************************************)

\* Method 4: a stream of literals and of matches into the output so far.
ArjLiteral(v) == [length |-> 0, distance |-> 0, v |-> v]
ArjMatch(length, distance) == [length |-> length, distance |-> distance, v |-> 0]
ArjTokens(tokens) == [k |-> "tokens", tokens |-> tokens]

\* One round of decode_fastest: nothing once the output is complete, an error
\* for a match that is longer than what is missing or reaches too far back.
ArjExpand(token, state, size) ==
  IF ~ state.good \/ Len(state.out) = size THEN state
  ELSE IF token.length = 0 THEN [state EXCEPT !.out = Append(@, Byte(token.v))]
  ELSE IF Len(state.out) + token.length > size \/ token.distance > Len(state.out)
  THEN [state EXCEPT !.good = FALSE]
  ELSE [state EXCEPT !.out =
          @ \o [i \in 1 .. token.length |->
                  @[Len(@) - token.distance + 1 + ((i - 1) % token.distance)]]]

ArjFastest(e) ==
  LET cell == RecordAt(Slice(Cells, e.start, e.end - e.start), 0, "tokens", ArjTokens(<< >>))
  IN FoldLeft(LAMBDA state, token : ArjExpand(token, state, e.size),
              [out |-> << >>, good |-> TRUE], cell.tokens)

\* decode: by method.
ArjData(e) == Slice(Cells, e.start, e.end - e.start)
ArjOutput(e) ==
  CASE e.method = "stored"  -> ArjData(e)
    [] e.method = "lzh"     -> Slice(StreamOutput(ArjData(e)), 0, e.size)
    [] e.method = "fastest" -> ArjFastest(e).out
    [] OTHER                -> << >>
ArjDecodeChecks(e) ==
  << <<e.size <= limits.entry, "limit">>,
     <<e.method \in {"stored", "lzh", "fastest", "noData", "noDataNoCrc"}, "unsupported">>,
     <<e.method = "stored" => Len(ArjData(e)) = e.size, "format">>,
     <<e.method = "lzh" => ArjLzhState <= limits.dictionary, "limit">>,
     <<e.method = "lzh" => Stream(ArjData(e)).codec = "lzh"
                           /\ Stream(ArjData(e)).sound
                           /\ Len(StreamOutput(ArjData(e))) >= e.size, "format">>,
     <<e.method = "fastest" => ArjFastState <= limits.dictionary, "limit">>,
     <<e.method = "fastest" => ArjFastest(e).good /\ Len(ArjFastest(e).out) = e.size, "format">>,
     <<e.method \in {"noData", "noDataNoCrc"} => ArjData(e) = << >> /\ e.size = 0, "format">> >>

ArjVerified(e) ==
  FirstFailure(<< <<~ e.encrypted, "passwordRequired">> >>
    \o ArjDecodeChecks(e)
    \o << <<e.checked => ArjOutput(e) = e.of, "checksum">> >>)

ArjAdmit(e) ==
  LET within == FirstFailure(WithinOutput(e.size)) IN
  IF within # "ok" THEN within ELSE ArjVerified(e)

ArjReadPath == Is("arj") /\ (StatPath \/ ReadPath)
ArjOpenBytes == Is("arj") /\ StartOpen

\* Mutant: the listing is checked against the limits, nothing is decoded.
ArjVerify_Listing ==
  /\ Is("arj")
  /\ \/ /\ at \in DOMAIN entries
        /\ VerifyEntry(FirstFailure(WithinOutput(entries[at].size)), entries[at].size)
     \/ VerifyDone

ArjVerify ==
  /\ Is("arj")
  /\ \/ /\ at \in DOMAIN entries
        /\ VerifyEntry(ArjAdmit(entries[at]), entries[at].size)
     \/ VerifyDone

ArjExtractEntries ==
  /\ Is("arj")
  /\ \/ /\ at \in DOMAIN entries
        /\ BeginEntry(ArjAdmit(entries[at]), entries[at].size, ArjOutput(entries[at]))
     \/ ExtractDone

ArjAlone(i) ==
  IF i \notin DOMAIN entries THEN "format" ELSE ArjVerified(entries[i])

ArjExtractEntry ==
  /\ Is("arj")
  /\ \E i \in 1 .. Len(entries) + 1 :
       BeginAlone(i, ArjAlone(i),
                  IF i \in DOMAIN entries THEN ArjOutput(entries[i]) ELSE << >>)

ArjWrite == Is("arj") /\ (WriteChunk \/ FinishEntry)

ArjNext ==
  \/ ArjReadPath \/ ArjOpenBytes \/ ArjFindMain \/ ArjExtensions \/ ArjLocal
  \/ ArjVerify \/ ArjExtractEntries \/ ArjExtractEntry \/ ArjWrite
=============================================================================
