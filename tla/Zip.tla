--------------------------------- MODULE Zip ---------------------------------
(***************************************************************************)
(* zip/: the ZIP reader.  The central directory, each local header, the     *)
(* optional data descriptor behind the data and the ZIP64 records all say   *)
(* the same things again, and every copy has to agree before an entry is    *)
(* listed.                                                                  *)
(*                                                                          *)
(* A header and its variable part (name, extra fields) are one cell.  Extra *)
(* fields are the sequences of copies of each kind that were found.  Two of *)
(* the cells in front of encrypted data stand for its key material.         *)
(***************************************************************************)
EXTENDS Xz

ZipMax == 15     \* u16::MAX and u32::MAX: the value is in a ZIP64 field
ZipSearch == 5   \* EOCD_SEARCH_BYTES, in cells
ZipSignature == 21   \* DATA_DESCRIPTOR_SIGNATURE, as a CRC might be

\* A checksum that is different for different contents (up to three values of
\* 0 .. 3): it is compared with numbers in descriptors and headers.
ZipCrc(out) ==
  MapThenSumSet(LAMBDA i : out[i] * (CASE i = 1 -> 1 [] i = 2 -> 4 [] OTHER -> 16),
                DOMAIN out) + 20 * Len(out)

ZipNoExtra == [valid |-> TRUE, zip64 |-> << >>, aes |-> << >>, strong |-> 0,
               unicode |-> << >>]
ZipRecord(k, name, method, flags, crc, csize, usize, place) ==
  [k |-> k, name |-> name, method |-> method, flags |-> flags, crc |-> crc,
   csize |-> csize, usize |-> usize, offset |-> place, disk |-> 0,
   version |-> 20, time |-> 0, extra |-> ZipNoExtra]
ZipNoRecord == ZipRecord("none", << >>, "stored", {}, 0, 0, 0, 0)
ZipEnd(k, count, size, place) ==
  [k |-> k, disk |-> 0, dirDisk |-> 0, diskEntries |-> count, entries |-> count,
   size |-> size, offset |-> place, comment |-> 0, width |-> 1]
ZipNoEnd == ZipEnd("none", 0, 0, 0)
ZipLocator(place) == [k |-> "locator", disk |-> 0, offset |-> place, disks |-> 1]
ZipNoLocator == [ZipLocator(0) EXCEPT !.k = "none"]
-----------------------------------------------------------------------------
(***************************************************************************)
(* parse_inner up to its loop: where the records are                        *)
(***************************************************************************)

\* locate_zip_slice_start: the last EOCD whose comment ends the input.
ZipEocdAt ==
  LET places == {p \in 0 .. Len(Cells) - 1 :
                   /\ p >= Len(Cells) - ZipSearch
                   /\ Cells[p + 1].k = "eocd"
                   /\ p + 1 + Cells[p + 1].comment = Len(Cells)} IN
  IF places = {} THEN -1 ELSE Max(places)

ZipNeeds64(e) ==
  ZipMax \in {e.diskEntries, e.entries, e.size, e.offset}

\* ... and the ZIP64 record that ends where its locator begins, looked for
\* within the header limit.
ZipEnd64At(locator) ==
  LET places == {p \in 0 .. locator - 1 :
                   /\ p >= locator - limits.header
                   /\ Cells[p + 1].k = "eocd64"
                   /\ Cells[p + 1].width >= 1
                   /\ p + Cells[p + 1].width = locator} IN
  IF places = {} THEN -1 ELSE Max(places)

ZipSliceChecks ==
  LET eocd == ZipEocdAt
      e == RecordAt(Cells, eocd, "eocd", ZipNoEnd)
      l == RecordAt(Cells, eocd - 1, "locator", ZipNoLocator)
      actual == ZipEnd64At(eocd - 1) IN
  << <<eocd >= 0, "format">>,
     <<ZipNeeds64(e) => l.k = "locator", "format">>,
     <<ZipNeeds64(e) => actual >= 0, "format">>,
     <<ZipNeeds64(e) => actual >= l.offset, "format">>,
     <<ZipNeeds64(e) => actual - l.offset <= limits.sfx, "limit">> >>

ZipSliceStart ==
  LET eocd == ZipEocdAt IN
  IF ZipNeeds64(Cells[eocd + 1])
  THEN ZipEnd64At(eocd - 1) - Cells[eocd].offset ELSE 0

\* rawzip's ZipLocator and the geometry it reports: the last EOCD signature of
\* the image, the directory directly in front of the end record, and the base
\* by which every stored offset is off.
RawzipLocate(start) ==
  LET signatures == {p \in start .. Len(Cells) - 1 :
                       p >= Len(Cells) - ZipSearch /\ Cells[p + 1].k = "eocd"}
      eocd == Max(signatures)
      e == Cells[eocd + 1]
      locator == RecordAt(Cells, eocd - 1, "locator", ZipNoLocator)
      last == IF ZipNeeds64(e)
              THEN RecordAt(Cells, start + locator.offset, "eocd64", ZipNoEnd) ELSE e
      at64 == IF ZipNeeds64(e) THEN start + locator.offset ELSE eocd IN
  [eocd |-> eocd, last |-> last, dirEnd |-> at64, dir |-> at64 - last.size,
   base |-> at64 - last.size - last.offset, end |-> eocd + 1 + e.comment,
   found |-> last.k # "none" /\ at64 - last.size >= start
             /\ at64 - last.size - last.offset >= 0
             /\ eocd + 1 + e.comment <= Len(Cells)]

\* validate_single_disk
ZipDiskChecks(e, r, start) ==
  LET l == RecordAt(Cells, r.eocd - 1, "locator", ZipNoLocator)
      z == RecordAt(Cells, start + l.offset, "eocd64", ZipNoEnd) IN
  << <<e.disk = 0 /\ e.dirDisk = 0, "unsupported">>,
     <<e.diskEntries = e.entries \/ ZipMax \in {e.diskEntries, e.entries}, "unsupported">>,
     <<ZipNeeds64(e) => l.k = "locator", "format">>,
     <<ZipNeeds64(e) => l.disk = 0 /\ l.disks = 1, "unsupported">>,
     <<ZipNeeds64(e) => z.k = "eocd64", "format">>,
     <<ZipNeeds64(e) => z.disk = 0 /\ z.dirDisk = 0 /\ z.diskEntries = z.entries,
       "unsupported">> >>

ZipDirectoryChecks(r, start) ==
  << <<r.found, "format">>,
     <<r.end = Len(Cells), "format">>,
     <<r.dir <= r.eocd, "format">>,
     <<Len(Cells) - r.dir <= limits.header, "limit">> >>
  \o ZipDiskChecks(Cells[r.eocd + 1], r, start)
  \o << <<r.last.entries <= limits.files, "limit">> >>

ZipLocate ==
  /\ Is("zip") /\ op = "open" /\ acc.format = "none"
  /\ LET slice == FirstFailure(ZipSliceChecks)
         start == IF slice = "ok" THEN ZipSliceStart ELSE 0
         r == RawzipLocate(start)
         found == IF slice = "ok" THEN FirstFailure(ZipDirectoryChecks(r, start)) ELSE slice IN
     \/ /\ found # "ok"
        /\ ParseFails(found)
     \/ /\ found = "ok"
        /\ acc' = [format |-> "zip", names |-> 0, dir |-> r.dir, dirEnd |-> r.dirEnd,
                   base |-> r.base, hint |-> r.last.entries,
                   comment |-> Cells[r.eocd + 1].comment]
        /\ offset' = r.dir
        /\ UNCHANGED entries
        /\ ParseGoesOn
-----------------------------------------------------------------------------
(***************************************************************************)
(* One central record and what it points at                                 *)
(***************************************************************************)

\* resolve_central and resolve_local_sizes: fields that hold the sentinel take
\* the values of the one ZIP64 field, in order, all of them.
ZipNeeded(fields) == {i \in DOMAIN fields : fields[i] = ZipMax}
ZipResolvable(fields, extra) ==
  ZipNeeded(fields) # {} =>
    Len(extra.zip64) = 1 /\ Len(extra.zip64[1]) = Cardinality(ZipNeeded(fields))
ZipResolve(fields, extra) ==
  [i \in DOMAIN fields |->
     IF i \notin ZipNeeded(fields) \/ ~ ZipResolvable(fields, extra) THEN fields[i]
     ELSE extra.zip64[1][Cardinality({j \in ZipNeeded(fields) : j <= i})]]

\* Uncompressed, compressed, offset, disk: the order of the ZIP64 field.
ZipCentralFields(c) == <<c.usize, c.csize, c.offset, c.disk>>
ZipLocalFields(l) == <<l.usize, l.csize>>

\* parse_aes
ZipAesValid(r) ==
  IF r.method # "aes" THEN r.extra.aes = << >>
  ELSE /\ Len(r.extra.aes) = 1
       /\ r.extra.aes[1].vendor \in {1, 2}
       /\ r.extra.aes[1].strength \in 1 .. 3
       /\ r.extra.aes[1].method # "aes"

\* validate_descriptor_values: CRC, compressed and uncompressed size, each size
\* two cells in a ZIP64 descriptor.
ZipNumber(p) == IF p \in 0 .. Len(Cells) - 1 THEN Value(Cells[p + 1]) ELSE -1
ZipDescriptorValues(o, c, sizes, wide, dir) ==
  LET width == IF wide THEN 2 ELSE 1
      number(p) == IF wide THEN ZipNumber(p) + 16 * ZipNumber(p + 1) ELSE ZipNumber(p) IN
  [good |-> /\ ZipNumber(o) = c.crc
            /\ number(o + 1) = sizes[2]
            /\ number(o + 1 + width) = sizes[1]
            /\ o + 1 + 2 * width <= dir,
   end |-> o + 1 + 2 * width]

\* Mutant: a first value that is the signature is always the signature.
ZipDescriptor_Signed(o, c, sizes, wide, dir) ==
  ZipDescriptorValues(IF ZipNumber(o) = ZipSignature THEN o + 1 ELSE o, c, sizes,
                      wide, dir)

\* validate_descriptor: with its signature first, then without.
ZipDescriptor(o, c, sizes, wide, dir) ==
  LET signed == ZipDescriptorValues(o + 1, c, sizes, wide, dir) IN
  IF ZipNumber(o) = ZipSignature /\ signed.good THEN signed
  ELSE ZipDescriptorValues(o, c, sizes, wide, dir)

\* validate_local: where the data is, and where the record ends.
ZipExtent(c, l, place, sizes, dir) ==
  LET dataEnd == place + 1 + sizes[2]
      wide == ZipNeeded(<<c.usize, c.csize>>) # {} IN
  [start |-> place + 1, dataEnd |-> dataEnd,
   described |-> ZipDescriptor(dataEnd, c, sizes, wide, dir),
   end |-> IF "descriptor" \in l.flags
           THEN ZipDescriptor(dataEnd, c, sizes, wide, dir).end ELSE dataEnd]

\* Mutant: sizes are compared, the CRC of the local header is not.
ZipLocalAgrees_AnyCrc(c, l, sizes) ==
  /\ ZipResolvable(ZipLocalFields(l), l.extra)
  /\ ZipResolve(ZipLocalFields(l), l.extra) = <<sizes[1], sizes[2]>>

\* Without a descriptor the local header repeats CRC and sizes.
ZipLocalAgrees(c, l, sizes) ==
  /\ ZipResolvable(ZipLocalFields(l), l.extra)
  /\ l.crc = c.crc
  /\ ZipResolve(ZipLocalFields(l), l.extra) = <<sizes[1], sizes[2]>>

ZipLocalChecks(c, l, x, sizes, dir) ==
  << <<l.k = "local", "format">>,
     <<l.flags = c.flags /\ l.method = c.method, "format">>,
     <<l.name = c.name, "format">>,
     <<l.extra.valid, "format">>,
     <<ZipAesValid(c) /\ ZipAesValid(l) /\ c.extra.aes = l.extra.aes, "format">>,
     <<x.dataEnd <= dir, "format">>,
     <<"descriptor" \in l.flags => x.described.good, "format">>,
     <<"descriptor" \notin l.flags => ZipLocalAgrees(c, l, sizes), "format">> >>

\* cp437::decode, and the values that are not UTF-8 on their own.
ZipHigh == 8
ZipCp437(name) == [i \in DOMAIN name |-> IF name[i] < ZipHigh THEN name[i] ELSE name[i] + 100]
ZipUtf8(name) == \A i \in DOMAIN name : name[i] < ZipHigh

\* decode_name: a Unicode path whose CRC is that of the raw name, else the
\* UTF-8 flag, else code page 437.
ZipUnicode(c) ==
  Len(c.extra.unicode) = 1 /\ c.extra.unicode[1].of = c.name
ZipNameChecks(c) ==
  << <<Len(c.extra.unicode) <= 1, "format">>,
     <<ZipUnicode(c) => ZipUtf8(c.extra.unicode[1].name), "format">>,
     <<~ ZipUnicode(c) /\ "utf8" \in c.flags => ZipUtf8(c.name), "format">> >>
ZipName(c) ==
  IF ZipUnicode(c) THEN c.extra.unicode[1].name
  ELSE IF "utf8" \in c.flags THEN c.name ELSE ZipCp437(c.name)

ZipEncryption(c) ==
  IF "strong" \in c.flags \/ c.extra.strong > 0 THEN "strong"
  ELSE IF c.method = "aes" THEN "aes"
  ELSE IF "encrypted" \in c.flags THEN "zipcrypto" ELSE "none"

\* The loop of parse_inner up to validate_local.
ZipCentralChecks(c, sizes) ==
  << <<c.k = "central", "format">>,
     <<Len(entries) < limits.files, "limit">>,
     <<c.extra.valid, "format">>,
     <<Len(c.name) <= limits.name, "limit">>,
     <<acc.names + Len(c.name) <= limits.names, "limit">>,
     <<ZipResolvable(ZipCentralFields(c), c.extra), "format">>,
     <<sizes[4] = 0, "unsupported">>,
     <<sizes[1] <= limits.entry, "limit">>,
     <<sizes[2] <= limits.input, "limit">> >>

\* ... and after it.
ZipClassChecks(c) ==
  << <<"strong" \notin c.flags => c.extra.strong <= 1, "format">>,
     <<ZipEncryption(c) = "aes" => "encrypted" \in c.flags, "format">>,
     <<c.method = "aes" /\ c.extra.aes[1].vendor = 2 => c.crc = 0, "format">> >>
  \o ZipNameChecks(c)

ZipEntry(c, x, place, sizes) ==
  [name |-> ZipName(c), encoded |-> Len(c.name), start |-> x.start, end |-> x.dataEnd, size |-> sizes[1],
   place |-> place, last |-> x.end, flags |-> c.flags,
   enc |-> ZipEncryption(c), version |-> c.version,
   method |-> IF c.method = "aes" THEN c.extra.aes[1].method ELSE c.method,
   crc |-> c.crc, checked |-> ~ (c.method = "aes" /\ c.extra.aes[1].vendor = 2),
   check |-> IF "descriptor" \in c.flags THEN c.time ELSE c.crc % 4]

ZipCentral ==
  /\ Is("zip") /\ op = "open" /\ acc.format = "zip"
  /\ offset < acc.dirEnd
  /\ LET c == RecordAt(Cells, offset, "central", ZipNoRecord)
         sizes == ZipResolve(ZipCentralFields(c), c.extra)
         place == acc.base + sizes[3]
         l == RecordAt(Cells, place, "local", ZipNoRecord)
         x == ZipExtent(c, l, place, sizes, acc.dir)
         own == FirstFailure(ZipCentralChecks(c, sizes))
         both == IF own = "ok" THEN FirstFailure(ZipLocalChecks(c, l, x, sizes, acc.dir)) ELSE own
         result == IF both = "ok" THEN FirstFailure(ZipClassChecks(c)) ELSE both IN
     \/ /\ result # "ok"
        /\ ParseFails(result)
     \/ /\ result = "ok"
        /\ entries' = Append(entries, ZipEntry(c, x, place, sizes))
        /\ acc' = [acc EXCEPT !.names = @ + Len(c.name)]
        /\ offset' = offset + 1
        /\ ParseGoesOn

\* Mutant: entries may share their bytes.
ZipNonOverlapping_Any == \A i \in DOMAIN entries : entries[i].last <= acc.dir

\* validate_non_overlapping: sorted by start, no record begins before the one
\* in front of it ends.
ZipNonOverlapping ==
  /\ \A i \in DOMAIN entries : entries[i].last <= acc.dir
  /\ \A i, j \in DOMAIN entries :
        i # j => \/ entries[i].last <= entries[j].place
                 \/ entries[j].last <= entries[i].place

ZipListed ==
  /\ Is("zip") /\ op = "open" /\ acc.format = "zip"
  /\ offset = acc.dirEnd
  /\ OpenReturns(FirstFailure(<< <<Len(entries) = acc.hint, "format">>,
                                 <<ZipNonOverlapping, "format">>,
                                 <<acc.comment <= limits.header, "limit">> >>))
  /\ UNCHANGED parseVars
-----------------------------------------------------------------------------
(***************************************************************************)
(* decode_entry                                                             *)
(***************************************************************************)

\* The salt cell in front of encrypted data: the password it was made with,
\* the check value it decrypts to, and whether other passwords pass it too.
ZipSalt(password, check, lax) ==
  [k |-> "salt", password |-> password, check |-> check, lax |-> lax]
ZipNoSalt == [ZipSalt("none", 0, FALSE) EXCEPT !.k = "none"]
ZipMac(cells) == [k |-> "mac", of |-> cells]

\* What decryption with the wrong password makes of a cell.
ZipGarbled(c) ==
  IF c.k = "packed" THEN [c EXCEPT !.out = << >>, !.sound = FALSE] ELSE Byte((Value(c) + 1) % 4)

ZipCipher(e) == Slice(Cells, e.start, e.end - e.start)
ZipInner(e) ==
  LET data == ZipCipher(e) IN
  CASE e.enc = "zipcrypto" -> Slice(data, 1, Len(data))
    [] e.enc = "aes"       -> Slice(data, 1, Len(data) - 2)
    [] OTHER               -> data

\* decrypt_zipcrypto and decrypt_winzip_aes, their errors.
ZipCryptChecks(e) ==
  LET data == ZipCipher(e)
      salt == RecordAt(data, 0, "salt", ZipNoSalt)
      passes == salt.password = input.password \/ salt.lax IN
  << <<e.enc # "none" => input.password # "none", "passwordRequired">>,
     <<e.enc = "zipcrypto" => Len(data) >= 1, "format">>,
     <<e.enc = "aes" => Len(data) >= 2, "format">>,
     <<e.enc = "aes" => limits.kdf, "limit">>,
     <<e.enc = "zipcrypto" => passes /\ salt.check = e.check, "wrongPassword">>,
     <<e.enc = "aes" => passes, "wrongPassword">>,
     <<e.enc = "aes" /\ Len(data) >= 2 =>
         /\ salt.password = input.password
         /\ data[Len(data)] = ZipMac(ZipInner(e)), "wrongPassword">> >>

ZipPlain(e) ==
  LET salt == RecordAt(ZipCipher(e), 0, "salt", ZipNoSalt)
      inner == ZipInner(e) IN
  IF e.enc # "none" /\ salt.password # input.password
  THEN [i \in DOMAIN inner |-> ZipGarbled(inner[i])] ELSE inner

\* decode_compressed.
ZipNeedsVersion == {"xz", "ppmd", "wavpack", "jpeg"}
ZipCodecResult(e, maximum) ==
  LET cells == ZipPlain(e) IN
  CASE e.method = "stored" -> IF Len(cells) = e.size THEN "ok" ELSE "format"
    [] e.method = "xz" -> IF e.version < 20 THEN "format"
                          ELSE XzResult(cells, e.size, maximum, TRUE)
    [] e.method \in {"deflate", "bzip2", "zstd"} ->
         FirstFailure(CodecChecks(e.method, cells, e.size, maximum))
    [] e.method \in ZipNeedsVersion ->
         FirstFailure(<< <<e.version >= 20, "format">>,
                         <<Stream(cells).codec = e.method, "format">> >>
                      \o ReaderChecks(cells, e.size, maximum))

\* decode_zip_lzma: with the EOS flag the stream says itself where it ends, and
\* must end with its input.  Without, the decoder stops at the declared size,
\* whatever follows.  (An abstract stream is one of literals: a match that
\* would go beyond that size is an error.)
ZipLzmaResult(e, maximum) ==
  LET cells == ZipPlain(e) IN
  FirstFailure(<< <<Stream(cells).codec = "lzma", "format">>,
                  <<Stream(cells).window <= limits.dictionary, "limit">> >>
               \o (IF "eos" \in e.flags
                   THEN ReaderChecks(cells, NoSize, maximum)
                          \o << <<Len(cells) = 1, "format">> >>
                   ELSE << <<e.size <= maximum, "limit">>,
                           <<e.size <= Len(StreamOutput(cells)), "format">> >>))

ZipOutput(e) ==
  CASE e.method = "stored" -> ZipPlain(e)
    [] e.method = "xz"     -> XzOutput(ZipPlain(e))
    [] e.method = "lzma" /\ "eos" \notin e.flags ->
         Slice(StreamOutput(ZipPlain(e)), 0, e.size)
    [] OTHER               -> StreamOutput(ZipPlain(e))
ZipValues(cells) == [i \in DOMAIN cells |-> Value(cells[i])]

\* Format and checksum errors of encrypted data may be the password's fault.
ZipBlame(e, r) ==
  IF e.enc # "none" /\ r \in {"format", "checksum"} THEN "wrongPassword" ELSE r

ZipSupported == {"stored", "deflate", "bzip2", "zstd", "lzma"} \cup ZipNeedsVersion

\* The declared size and, where there is one, the CRC of what was decoded.
ZipIntegrity(e, out) ==
  << <<Len(out) = e.size, "format">>,
     <<e.checked => ZipCrc(ZipValues(out)) = e.crc, "checksum">> >>

ZipDecode(e, maximum) ==
  AndThen(FirstFailure(<< <<e.size <= limits.entry, "limit">>,
                          <<e.size <= maximum, "limit">>,
                          <<{"patched", "enhanced"} \cap e.flags = {}, "unsupported">>,
                          <<e.enc # "strong", "unsupported">>,
                          <<e.method \in ZipSupported, "unsupported">> >>
                       \o ZipCryptChecks(e)),
  AndThen(ZipBlame(e, IF e.method = "lzma" THEN ZipLzmaResult(e, maximum)
                      ELSE ZipCodecResult(e, maximum)),
          ZipBlame(e, FirstFailure(ZipIntegrity(e, ZipOutput(e))))))
-----------------------------------------------------------------------------
ZipReadPath == Is("zip") /\ (StatPath \/ ReadPath)
ZipOpenBytes == Is("zip") /\ StartOpen

\* The body of the loop of extract_entries_to in front of begin_entry.
ZipAdmit(e) ==
  AndThen(ZipDecode(e, Smaller(limits.total - total, limits.entry)),
          IF total + e.size > limits.total THEN "limit" ELSE "ok")

\* verify is extract_entries_to with a sink that ignores everything.
ZipVerify ==
  /\ Is("zip")
  /\ \/ /\ at \in DOMAIN entries
        /\ VerifyEntry(ZipAdmit(entries[at]), entries[at].size)
     \/ VerifyDone

ZipExtractEntries ==
  /\ Is("zip")
  /\ \/ /\ at \in DOMAIN entries
        /\ BeginEntry(ZipAdmit(entries[at]), entries[at].size, ZipOutput(entries[at]))
     \/ ExtractDone

\* extract_entry_to
ZipAlone(i) ==
  IF i \notin DOMAIN entries THEN "format"
  ELSE ZipDecode(entries[i], Smaller(limits.entry, limits.total))

ZipExtractEntry ==
  /\ Is("zip")
  /\ \E i \in 1 .. Len(entries) + 1 :
       BeginAlone(i, ZipAlone(i),
                  IF i \in DOMAIN entries THEN ZipOutput(entries[i]) ELSE << >>)

ZipWrite == Is("zip") /\ (WriteChunk \/ FinishEntry)

ZipNext ==
  \/ ZipReadPath \/ ZipOpenBytes \/ ZipLocate \/ ZipCentral \/ ZipListed
  \/ ZipVerify \/ ZipExtractEntries \/ ZipExtractEntry \/ ZipWrite
=============================================================================
