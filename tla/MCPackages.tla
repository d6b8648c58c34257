------------------------------ MODULE MCPackages ------------------------------
(***************************************************************************)
(* Packages on small archives: the archives an archiver writes, each of     *)
(* them with one change to one cell, cut short, or with more behind it.     *)
(***************************************************************************)
EXTENDS Packages, Lzma2Encoder

MCAmple ==
  [input |-> 90, header |-> 60, files |-> 9, name |-> 9, names |-> 60, entry |-> 90,
   total |-> 90, dictionary |-> 9, sfx |-> 9, kdf |-> TRUE, frames |-> 9,
   coders |-> 9, totalCoders |-> 9, property |-> 9, properties |-> 9, depth |-> 1]

\* What was packed, and which of its values a GNU extension holds.
File(name, out) == [name |-> name, link |-> << >>, long |-> {}, data |-> Bytes(out)]
Linked(f, link) == [f EXCEPT !.link = link]

\* An archive as it was written: its kind, its cells and what they hold.
Base(format, cells, truth) ==
  [format |-> format, cells |-> cells, truth |-> truth, source |-> "bytes",
   stat |-> Len(cells), password |-> "none", fault |-> "none", cancel |-> TRUE]

Pad(cells, n) == cells \o [i \in 1 .. (n - (Len(cells) % n)) % n |-> Zero]
-----------------------------------------------------------------------------
\* CPIO
CpioRecord(magic, name, data, link) ==
  LET width == CpioLayout[magic].width
      align == CpioLayout[magic].align
      sum == IF magic = "crc" THEN ByteSum(Bytes(data)) ELSE 0
      head == <<CpioHeader(magic, Len(name) + 1, Len(data), sum, link)>>
                \o (IF width = 2 THEN <<Rest>> ELSE << >>)
                \o Bytes(name) \o <<Zero>> IN
  Pad(Pad(head, align) \o Bytes(data), align)

CpioCells(magic) ==
  CpioRecord(magic, <<5>>, <<1, 2>>, FALSE) \o CpioRecord(magic, <<6, 7>>, <<3>>, TRUE)
    \o CpioRecord(magic, Trailer, << >>, FALSE)
CpioFiles == <<File(<<5>>, <<1, 2>>), File(<<6, 7>>, <<3>>)>>
CpioMixed ==
  CpioRecord("odc", <<5>>, <<1>>, FALSE) \o CpioRecord("odc", <<6>>, << >>, FALSE)
    \o CpioRecord("odc", Trailer, << >>, FALSE)
CpioBases ==
  {Base("cpio", CpioCells(m), CpioFiles) : m \in {"newc", "crc", "odc", "binle"}}
    \cup {Base("cpio", CpioMixed \o <<Zero>>, <<File(<<5>>, <<1>>), File(<<6>>, << >>)>>)}
-----------------------------------------------------------------------------
\* XZ and gzip around cells
XzPlain == XzFilter("lzma2")
XzOne(out, size, lzma2, filters, declared) ==
  LET unpadded == 2 * XzAlign + 1 IN
  <<XzHeader("crc"), Rest,
    XzBlock(filters, IF declared THEN 1 ELSE NoSize, IF declared THEN size ELSE NoSize),
    Rest, lzma2, Zero, Digest(out), Rest,
    XzIndex(<< <<unpadded, size>> >>), Rest, XzFooter("crc", 0), Rest>>
XzPlainCells(out) == XzOne(out, Len(out), StoredLzma2(out), <<XzPlain>>, TRUE)
XzTwo(a, b) ==
  LET unpadded == XzAlign + 1
      block(out) == <<XzBlock(<<XzPlain>>, NoSize, NoSize), Rest, StoredLzma2(out), Zero>> IN
  <<XzHeader("none"), Rest>> \o block(a) \o block(b)
    \o <<XzIndex(<< <<unpadded, Len(a)>>, <<unpadded, Len(b)>> >>), Rest,
         XzFooter("none", 0), Rest, Zero, Zero>>
\* What an LZMA2 encoder makes of a plan, in one Block.
XzPlan(plan) ==
  LET e == Encode(plan) IN
  XzOne(e.out, Len(e.out), Lzma2(e.chunks), <<[XzPlain EXCEPT !.dictionary = 4]>>, TRUE)

\* Every kind of chunk, and repetitions that reach across them.
Lzma2Mixed ==
  <<Coded("lzmaReset", Properties(1, 1), <<Literal(1), Literal(2), Match(2, 3), Literal(3), ShortRepeat>>),
    Coded("lzma", Properties(0, 0), <<Repeat(1, 2), Match(3, 2), Literal(1), Repeat(2, 2)>>),
    Copied("copy", <<3, 1>>),
    Coded("lzmaState", Properties(0, 0), <<Literal(1), Match(4, 2), Match(1, 2), Repeat(3, 2), Literal(2)>>),
    Copied("copyReset", <<2>>),
    Coded("lzmaProps", Properties(0, 0), <<Literal(2), Match(1, 2), Literal(2), Repeat(1, 2)>>)>>
\* Blocks of a multithreaded encoder, each with a dictionary of its own.
Lzma2Blocks ==
  <<Coded("lzmaReset", Properties(0, 0), <<Literal(1)>>),
    Coded("lzmaReset", Properties(0, 0), <<Literal(2), Literal(1), Literal(3)>>)>>
GzipPlain(out) == <<GzipHeader(NoSize, FALSE, FALSE, FALSE), Packed("deflate", out), GzipTrailer(out)>>
GzipFull(out) ==
  LET head == <<GzipHeader(1, TRUE, TRUE, TRUE), Byte(3), Byte(5), Zero, Byte(6), Zero>> IN
  head \o <<Digest(head), Packed("deflate", out), GzipTrailer(out)>>
-----------------------------------------------------------------------------
\* ZIP: one entry, its local part and its central record.
ZipPart(name, method, flags, cells, out) ==
  [local |-> ZipRecord("local", name, method, flags, ZipCrc(out), Len(cells), Len(out), 0),
   cells |-> cells, tail |-> << >>, out |-> out]

\* ... with a descriptor behind it, signed or not, and zeros in front.
Described(p, signed) ==
  [p EXCEPT !.local.flags = @ \cup {"descriptor"},
            !.tail = (IF signed THEN <<Byte(ZipSignature)>> ELSE << >>)
                       \o Bytes(<<ZipCrc(p.out), Len(p.cells), Len(p.out)>>)]

ZipLength(p) == 1 + Len(p.cells) + Len(p.tail)
ZipCentralOf(p, place) ==
  [p.local EXCEPT !.k = "central", !.crc = ZipCrc(p.out), !.csize = Len(p.cells),
                  !.usize = Len(p.out), !.offset = place]
ZipLocalOf(p) ==
  IF "descriptor" \in p.local.flags
  THEN [p.local EXCEPT !.crc = 0, !.csize = 0, !.usize = 0] ELSE p.local
ZipOne(p) ==
  <<ZipLocalOf(p)>> \o p.cells \o p.tail \o <<ZipCentralOf(p, 0), ZipEnd("eocd", 1, 1, ZipLength(p))>>
ZipTwo(p, q) ==
  <<ZipLocalOf(p)>> \o p.cells \o p.tail \o <<ZipLocalOf(q)>> \o q.cells \o q.tail
    \o <<ZipCentralOf(p, 0), ZipCentralOf(q, ZipLength(p)),
         ZipEnd("eocd", 2, 2, ZipLength(p) + ZipLength(q))>>

Stored == ZipPart(<<5>>, "stored", {}, Bytes(<<1>>), <<1>>)
Deflated == ZipPart(<<6>>, "deflate", {}, <<Packed("deflate", Bytes(<<2, 3>>))>>, <<2, 3>>)

\* ZIP64: sizes and offset of the entry, and the end records.
Zip64 ==
  LET big == [ZipNoExtra EXCEPT !.zip64 = << <<1, 1>> >>]
      local == [Stored.local EXCEPT !.usize = ZipMax, !.csize = ZipMax, !.extra = big]
      central == [local EXCEPT !.k = "central"] IN
  <<local, Byte(1), central, ZipEnd("eocd64", 1, 1, 2), ZipLocator(3),
    [ZipEnd("eocd", 1, 1, 2) EXCEPT !.offset = ZipMax]>>
Zip64Described ==
  LET big == [ZipNoExtra EXCEPT !.zip64 = << <<1, 1>> >>]
      local == [Stored.local EXCEPT !.crc = 0, !.usize = 0, !.csize = 0, !.flags = {"descriptor"}]
      central == [Stored.local EXCEPT !.k = "central", !.usize = ZipMax, !.csize = ZipMax,
                                      !.extra = big, !.flags = {"descriptor"}] IN
  <<local, Byte(1), Byte(21), Byte(1), Byte(0), Byte(1), Byte(0), central,
    ZipEnd("eocd", 1, 1, 7)>>

Aes(vendor) ==
  LET cells == <<Byte(1)>>
      aes == [ZipNoExtra EXCEPT !.aes = <<[vendor |-> vendor, strength |-> 3, method |-> "stored"]>>]
      p == ZipPart(<<5>>, "aes", {"encrypted"},
                   <<ZipSalt("right", 0, vendor = 1)>> \o cells \o <<ZipMac(cells)>>, <<1>>)
      r == [p.local EXCEPT !.extra = aes, !.crc = IF vendor = 2 THEN 0 ELSE @] IN
  <<r>> \o p.cells
    \o <<[r EXCEPT !.k = "central"], ZipEnd("eocd", 1, 1, 4)>>
ZipCrypto ==
  ZipOne(ZipPart(<<5>>, "deflate", {"encrypted"},
                 <<ZipSalt("right", ZipCrc(<<1>>) % 4, TRUE), Packed("deflate", Bytes(<<1>>))>>,
                 <<1>>))
UnicodeName ==
  LET p == [ZipPart(<<9>>, "stored", {}, << >>, << >>)
              EXCEPT !.local.extra.unicode = <<[of |-> <<9>>, name |-> <<5, 6>>]>>] IN
  ZipOne(p)
Lzma == ZipPart(<<5>>, "lzma", {"eos"}, <<Packed("lzma", Bytes(<<1, 2>>))>>, <<1, 2>>)
\* ... or without an end mark: the declared size is where it ends.
LzmaUnmarked(out) == ZipPart(<<5>>, "lzma", {}, <<Packed("lzma", Bytes(out)), Zero>>, <<1, 2>>)
ZipXz ==
  ZipPart(<<5>>, "xz", {},
          XzOne(Bytes(<<1, 3, 3>>), 3, StoredLzma2(Bytes(<<1, 2, 0>>)), <<XzFilter("delta"), XzPlain>>, TRUE),
          <<1, 3, 3>>)
ZipPlanned(plan) ==
  LET out == Encode(plan).out IN
  ZipPart(<<5>>, "xz", {}, XzPlan(plan), [i \in DOMAIN out |-> out[i].v])
ZipPlan(plan) == Base("zip", ZipOne(ZipPlanned(plan)), <<[File(<<5>>, << >>) EXCEPT !.data = Encode(plan).out]>>)

Five == <<File(<<5>>, <<1>>)>>
ZipPlainBases ==
  {Base("zip", ZipOne(Stored), Five),
   Base("zip", ZipOne(Described(Stored, TRUE)), Five),
   Base("zip", ZipOne(Described(Stored, FALSE)), Five),
   Base("zip", ZipTwo(Described(Deflated, TRUE), Stored), <<File(<<6>>, <<2, 3>>), Five[1]>>),
   Base("zip", <<Byte(1), Byte(2)>> \o ZipOne(Stored), Five),
   Base("zip", Zip64, Five),
   Base("zip", <<Byte(1)>> \o Zip64, Five),
   Base("zip", Zip64Described, Five),
   Base("zip", ZipOne(Lzma), <<File(<<5>>, <<1, 2>>)>>),
   Base("zip", ZipOne(ZipXz), <<File(<<5>>, <<1, 3, 3>>)>>),
   ZipPlan(Lzma2Mixed),
   Base("zip", UnicodeName, <<File(<<5, 6>>, << >>)>>),
   Base("zip", ZipOne(ZipPart(<<9>>, "bzip2", {}, <<Packed("bzip2", Bytes(<<2>>))>>, <<2>>)),
        <<File(<<109>>, <<2>>)>>),
   Base("zip", ZipOne(ZipPart(<<5>>, "zstd", {"utf8"},
                 <<[Packed("zstd", Bytes(<<2>>)) EXCEPT !.declared = 1, !.window = NoSize]>>, <<2>>)),
        <<File(<<5>>, <<2>>)>>),
   Base("zip", ZipOne(ZipPart(<<5>>, "ppmd", {}, <<Packed("ppmd", Bytes(<<2>>))>>, <<2>>)),
        <<File(<<5>>, <<2>>)>>)}
\* What follows the declared size of an LZMA stream is covered by nothing.
ZipUnmarkedBases ==
  {Base("zip", ZipOne(LzmaUnmarked(<<1, 2>>)), <<File(<<5>>, <<1, 2>>)>>)}
ZipSecretBases ==
  {[b EXCEPT !.password = "right"] :
     b \in {Base("zip", Aes(1), Five), Base("zip", Aes(2), Five), Base("zip", ZipCrypto, Five)}}
-----------------------------------------------------------------------------
\* RPM
RpmCells(compressor, payload, cpio) ==
  LET main == RpmHeader(<<RpmTag("name", "i18n", <<Byte(0)>>),
                          RpmTag("compressor", "string", <<RpmText("none")>>),
                          RpmTag("compressor", "string", <<RpmText(compressor)>>),
                          RpmTag("format", "string", <<RpmText("cpio")>>),
                          RpmTag("algorithm", "int32", <<Byte(8)>>),
                          RpmTag("payload", "strings", <<Digest(payload)>>),
                          RpmTag("payloadAlt", "strings", <<Digest(cpio)>>)>>)
      signature == RpmHeader(<<RpmTag("sha1", "string", <<Digest(<<main>>)>>),
                               RpmTag("sha256", "string", <<Digest(<<main>>)>>)>>) IN
  <<RpmLead(3, 1), Rest, signature, Zero, main>> \o payload
RpmBare(payload) ==
  <<RpmLead(4, 1), Rest, RpmHeader(<< >>), Zero, RpmHeader(<< >>)>> \o payload
RpmBases ==
  LET cpio == CpioCells("newc") IN
  {Base("rpm", RpmCells("gzip", GzipFull(cpio), cpio), CpioFiles),
   Base("rpm", RpmCells("xz", XzPlainCells(cpio), cpio), CpioFiles),
   Base("rpm", RpmCells("zstd", <<Packed("zstd", cpio)>>, cpio), CpioFiles),
   Base("rpm", RpmCells("none", cpio, cpio), CpioFiles)}
RpmPlainBases ==
  {Base("rpm", RpmBare(GzipPlain(CpioCells("crc"))), CpioFiles),
   Base("rpm", RpmBare(<<GzipHeader(NoSize, FALSE, FALSE, FALSE)>>
                         \o <<Packed("deflate", CpioMixed), GzipTrailer(CpioMixed)>>),
        <<File(<<5>>, <<1>>), File(<<6>>, << >>)>>)}
-----------------------------------------------------------------------------
\* Debian packages
TarFile(h, data) == Pad(<<h, Rest>> \o data, TarBlock)
TarEndBlocks == <<Zero, Zero, Zero, Zero>>
TarPlain(name, data) ==
  TarFile(TarHeader("0", name, Len(data)), Bytes(data)) \o TarEndBlocks
\* A local pax path and size for one member, GNU long values for the next.
TarPax ==
  TarFile(TarHeader("g", <<1>>, 1), <<Pax("link", <<4>>)>>)
    \o TarFile(TarHeader("x", <<1>>, 2), <<Pax("path", <<5, 5>>), Pax("size", <<1>>)>>)
    \o TarFile(TarHeader("0", <<6>>, 3), Bytes(<<1>>))
    \o TarFile(TarHeader("L", <<1>>, 3), Bytes(<<7, 7, 0>>))
    \o TarFile(TarHeader("K", <<1>>, 1), Bytes(<<3>>))
    \o TarFile(TarHeader("2", <<6>>, 0), << >>)
    \o TarFile(TarHeader("0", <<6>>, 1), Bytes(<<2>>))
    \o TarEndBlocks
\* ... and a global path that only one of two members overrides.
TarGlobal ==
  TarFile(TarHeader("g", <<1>>, 1), <<Pax("path", <<8>>)>>)
    \o TarFile(TarHeader("x", <<1>>, 1), <<Pax("path", <<5>>)>>)
    \o TarFile(TarHeader("0", <<6>>, 1), Bytes(<<1>>))
    \o TarFile(TarHeader("0", <<6>>, 2), Bytes(<<3, 2>>))
    \o TarEndBlocks
\* Names and links that end in newlines, where each form holds them.
TarLong ==
  TarFile(TarHeader("L", <<1>>, 5), Bytes(<<7, 10, 7, 10, 0>>))
    \o TarFile(TarHeader("K", <<1>>, 3), Bytes(<<3, 10, 0>>))
    \o TarFile(TarHeader("2", <<6>>, 0), << >>)
    \o TarFile(TarHeader("x", <<1>>, 2), <<Pax("path", <<5, 10>>), Pax("owner", <<2>>)>>)
    \o TarFile(TarHeader("0", <<6>>, 1), Bytes(<<2>>))
    \o TarFile([TarHeader("0", <<6, 10>>, 0) EXCEPT !.prefixed = TRUE], << >>)
    \o TarEndBlocks
TarLongFiles ==
  <<[Linked(File(<<7, 10, 7, 10>>, << >>), <<3, 10>>) EXCEPT !.long = {"name", "link"}],
    File(<<5, 10>>, <<2>>), File(<<6, 10>>, << >>)>>
ArFile(h, data) == <<h>> \o data \o (IF Len(data) % 2 = 1 THEN <<Newline>> ELSE << >>)
DebCells(control, controlCells, data, dataCells) ==
  <<ArMagic>> \o ArFile(ArHeader("debian-binary", "none", 1), <<Version("2.0")>>)
    \o ArFile(ArHeader("optional", "none", 0), << >>)
    \o ArFile(ArHeader("control", control, Len(controlCells)), controlCells)
    \o ArFile(ArHeader("data", data, Len(dataCells)), dataCells)
DebBases ==
  LET small == TarPlain(<<5>>, <<1>>) IN
  {Base("deb", DebCells("gzip", GzipPlain(small), "xz", XzPlainCells(TarPax)),
        <<File(<<5>>, <<1>>), Linked(File(<<5, 5>>, <<1>>), <<4>>),
          Linked(File(<<7, 7>>, << >>), <<4>>), Linked(File(<<6>>, <<2>>), <<4>>)>>),
   Base("deb", DebCells("xz", XzTwo(Slice(small, 0, 3), Slice(small, 3, 9)),
                        "lzma", <<Packed("lzma", TarPlain(<<6>>, <<2>>))>>),
        <<File(<<5>>, <<1>>), File(<<6>>, <<2>>)>>),
   Base("deb", DebCells("none", TarGlobal, "none", TarLong),
        <<File(<<5>>, <<1>>), File(<<8>>, <<3, 2>>)>> \o TarLongFiles)}
-----------------------------------------------------------------------------
\* ARJ
ArjMember(name, method, cells, out) ==
  <<ArjHeader("binary", name, {}, method, Len(cells), Len(out), Bytes(out)), ArjExtended(0)>> \o cells
ArjCells ==
  <<ArjMain({}), ArjExtended(1), ArjExtended(0)>>
    \o ArjMember(<<5>>, "stored", Bytes(<<1, 2>>), <<1, 2>>)
    \o ArjMember(<<6>>, "fastest",
                 <<ArjTokens(<<ArjLiteral(1), ArjLiteral(2), ArjMatch(3, 2), ArjLiteral(3)>>)>>,
                 <<1, 2, 1, 2, 1>>)
    \o ArjMember(<<7>>, "lzh", <<Packed("lzh", Bytes(<<3>>))>>, <<3>>)
    \o ArjMember(<<7>>, "noDataNoCrc", << >>, << >>)
    \o <<ArjEnd>>
ArjFiles ==
  <<File(<<5>>, <<1, 2>>), File(<<6>>, <<1, 2, 1, 2, 1>>), File(<<7>>, <<3>>), File(<<7>>, << >>)>>
ArjBases ==
  {Base("arj", ArjCells, ArjFiles),
   Base("arj", <<Byte(1), [ArjMain({}) EXCEPT !.crc = FALSE]>> \o ArjCells \o <<Byte(1)>>, ArjFiles)}
-----------------------------------------------------------------------------
\* One change to a cell that something else in the archive contradicts.
Flip(out) ==
  IF out # << >> /\ out[1].k = "byte"
  THEN {[out EXCEPT ![1] = Byte((Value(@) + 1) % 4)]} ELSE {}
More(c, names) == {[c EXCEPT ![f] = @ + 1] : f \in names}
Contradicted(c) ==
  CASE c.k = "packed" -> {[c EXCEPT !.sound = FALSE]} \cup {[c EXCEPT !.out = o] : o \in Flip(c.out)}
    [] c.k = "lzma2" ->
         {[c EXCEPT !.chunks[1].bytes = b] : b \in Flip(c.chunks[1].bytes)}
           \cup {[c EXCEPT !.chunks[1].operations[1].byte = Byte(3)] : x \in DOMAIN c.chunks[1].operations}
    [] c.k \in {"central", "local"} ->
         {[c EXCEPT !.name = <<4>>], [c EXCEPT !.method = "unknown"],
          [c EXCEPT !.flags = IF "eos" \in @ THEN @ \ {"eos"} ELSE @ \cup {"eos"}]}
           \cup (IF "descriptor" \in c.flags /\ c.k = "local" THEN {}
                 ELSE More(c, {"crc", "csize", "usize"}))
    [] c.k \in {"eocd", "eocd64"} -> More(c, {"entries"}) \cup {[c EXCEPT !.offset = @ + 2]}
    [] c.k = "xzindex" ->
         {[c EXCEPT !.crc = FALSE]}
           \cup {[c EXCEPT !.records[1][i] = @ + d] : i \in {1, 2}, d \in {-1, 1}}
    [] c.k = "xzhead" -> {[c EXCEPT !.crc = FALSE], [c EXCEPT !.check = "sha"]}
    [] c.k = "xzfoot" ->
         {[c EXCEPT !.crc = FALSE], [c EXCEPT !.check = "sha"], [c EXCEPT !.backward = 1]}
    [] c.k = "xzblock" ->
         {[c EXCEPT !.crc = FALSE]} \cup (IF c.usize = NoSize THEN {} ELSE More(c, {"csize", "usize"}))
    [] c.k = "gzend" -> {[c EXCEPT !.of = << >>], [c EXCEPT !.size = @ + 1]}
    [] c.k \in {"digest", "mac"} -> {[c EXCEPT !.of = <<Zero>>]}
    [] c.k = "rpmhdr" /\ c.tags # << >> ->
         {[c EXCEPT !.tags[Len(c.tags)].values = <<Digest(<<Zero>>)>>]}
    [] c.k = "arj" /\ c.size # 0 -> More([c EXCEPT !.crc = FALSE], {"usize", "csize"})
    [] c.k = "arjext" /\ c.size # 0 -> {[c EXCEPT !.crc = FALSE]}
    [] c.k = "tar" -> {[c EXCEPT !.sum = FALSE]}
    [] OTHER -> {}

\* ... data cells under a checksum, padding that has to be zero.
Changed(c) ==
  IF c.k = "byte" THEN {Byte((c.v + 1) % 4)} ELSE Contradicted(c)

\* b with one of the cells of places changed to one of Other of it.
Variants(b, places, fault, Other(_)) ==
  UNION {{[b EXCEPT !.cells[i] = c, !.fault = fault, !.cancel = FALSE] : c \in Other(b.cells[i])} :
           i \in places \cap DOMAIN b.cells}
Covered(b) ==
  LET all == DOMAIN b.cells IN
  CASE b \in ZipUnmarkedBases -> {}
    [] b.format = "zip" /\ b.cells[1].k # "byte" -> Variants(b, all, "covered", Changed)
    [] b.format = "cpio" /\ b.cells[1].magic = "crc" -> Variants(b, {5, 6, 17, 18}, "covered", Changed)
    [] b.format = "rpm" /\ b.cells[5].tags # << >> -> Variants(b, 3 .. Len(b.cells), "covered", Changed)
    [] b.format = "deb" /\ XzHeader("none") \notin Range(b.cells) -> Variants(b, all, "covered", Contradicted)
    [] b.format = "arj" /\ b.cells[1].k = "arj" -> Variants(b, all, "covered", Changed)
    [] OTHER -> {}

Cut(b) == {[b EXCEPT !.cells = SubSeq(@, 1, n), !.fault = "cut", !.cancel = FALSE] : n \in 0 .. Len(b.cells) - 1}
Followed(b) == {[b EXCEPT !.cells = Append(@, c), !.fault = "tail"] : c \in {Zero, Byte(1)}}
Password(b) == {[b EXCEPT !.password = p, !.fault = "password"] : p \in {"none", "wrong"}}
-----------------------------------------------------------------------------
\* Cells whose own checks pass and that ask for something else.
Asks(c) ==
  CASE c.k = "cpio" ->
         {[c EXCEPT !.magic = m] : m \in {"large", "bad", "odc", "binbe", "newc"}}
           \cup {[c EXCEPT !.digits = FALSE], [c EXCEPT !.sum = 1]}
           \cup {[c EXCEPT !.name = n] : n \in {0, 1, 40}} \cup {[c EXCEPT !.size = n] : n \in {0, 40}}
    [] c.k = "byte" -> {Byte(0), Byte(7)} \ {c}
    [] c.k = "packed" ->
         {[c EXCEPT !.codec = "other"], [c EXCEPT !.window = 12], [c EXCEPT !.dictionary = 1],
          [c EXCEPT !.declared = 12]}
    [] c.k = "lzma2" ->
         {[c EXCEPT !.chunks[i].control = d] :
            i \in DOMAIN c.chunks,
            d \in {"end", "copy", "copyReset", "reserved", "lzma", "lzmaState", "lzmaProps", "lzmaReset"}}
           \cup {[c EXCEPT !.chunks[i].size = @ + d] : i \in DOMAIN c.chunks, d \in {-1, 1}}
           \cup {[c EXCEPT !.chunks[1].properties.valid = FALSE], [c EXCEPT !.chunks = << >>],
                 [c EXCEPT !.chunks = @ \o @]}
           \cup {[c EXCEPT !.chunks[i].operations[2] = [@ EXCEPT !.kind = "match", !.distance = d, !.length = 2]] :
                   i \in {j \in DOMAIN c.chunks : Len(c.chunks[j].operations) > 1}, d \in {1, 2, 5}}
    [] c.k = "gzip" -> {[c EXCEPT !.valid = FALSE], [c EXCEPT !.name = TRUE], [c EXCEPT !.crc = TRUE],
                        [c EXCEPT !.extra = 40]}
    [] c.k = "xzhead" -> {[c EXCEPT !.reserved = TRUE], [c EXCEPT !.check = "other"]}
    [] c.k = "xzblock" ->
         {[c EXCEPT !.filters = f] :
            f \in {<<XzFilter("lzma2"), XzFilter("lzma2")>>, <<XzFilter("delta")>>,
                   <<XzFilter("bcj"), XzFilter("delta"), XzFilter("lzma2")>>,
                   <<XzFilter("arm64"), XzFilter("lzma2")>>, <<XzFilter("internal")>>,
                   <<[XzFilter("lzma2") EXCEPT !.properties = FALSE]>>,
                   <<[XzFilter("lzma2") EXCEPT !.dictionary = 12]>>}}
           \cup {[c EXCEPT !.reserved = TRUE], [c EXCEPT !.padding = FALSE], [c EXCEPT !.size = 4]}
    [] c.k = "xzindex" ->
         {[c EXCEPT !.padding = FALSE], [c EXCEPT !.records = << >>], [c EXCEPT !.records[1][1] = 0]}
    [] c.k = "eocd" ->
         {[c EXCEPT !.disk = 1], [c EXCEPT !.dirDisk = 1], [c EXCEPT !.diskEntries = 0],
          [c EXCEPT !.comment = 1], [c EXCEPT !.entries = ZipMax], [c EXCEPT !.size = @ + 1],
          [c EXCEPT !.entries = 12, !.diskEntries = 12], [c EXCEPT !.offset = @ - 1]}
    [] c.k = "eocd64" ->
         {[c EXCEPT !.width = 2], [c EXCEPT !.disk = 1], [c EXCEPT !.entries = 2], [c EXCEPT !.size = 2]}
    [] c.k = "locator" -> {[c EXCEPT !.disk = 1], [c EXCEPT !.disks = 2], [c EXCEPT !.offset = 0],
                           [c EXCEPT !.offset = 40]}
    [] c.k \in {"central", "local"} ->
         {[c EXCEPT !.extra.valid = FALSE], [c EXCEPT !.extra.zip64 = << <<1, 1>>, <<1, 1>> >>],
          [c EXCEPT !.extra.zip64 = << <<1>> >>], [c EXCEPT !.disk = 1], [c EXCEPT !.offset = 1],
          [c EXCEPT !.extra.strong = 1], [c EXCEPT !.extra.strong = 2]}
    [] c.k = "salt" -> {[c EXCEPT !.check = 3], [c EXCEPT !.lax = FALSE]}
    [] c.k = "rpmlead" -> {[c EXCEPT !.major = 5], [c EXCEPT !.name = 12]}
    [] c.k = "ar" ->
         {[c EXCEPT !.name = n] : n \in {"special", "other", "control", "data", "debian-binary"}}
           \cup {[c EXCEPT !.good = FALSE], [c EXCEPT !.codec = "bzip2"], [c EXCEPT !.size = @ + 1],
                 [c EXCEPT !.codec = "none"], [c EXCEPT !.length = 12]}
    [] c.k = "version" -> {Version("3.0")}
    [] c.k = "tar" ->
         {[c EXCEPT !.magic = FALSE], [c EXCEPT !.fields = FALSE], [c EXCEPT !.name = << >>],
          [c EXCEPT !.size = 40], [c EXCEPT !.size = 0]}
           \cup {[c EXCEPT !.type = t] : t \in {"2", "g", "x", "L", "K"}}
    [] c.k = "arj" ->
         {[c EXCEPT !.flags = {f}] : f \in {"volume", "secured", "garbled", "extended"}}
           \cup {[c EXCEPT !.method = m] : m \in {"other", "noData", "noDataNoCrc", "stored"}}
           \cup {[c EXCEPT !.size = 3], [c EXCEPT !.size = 0], [c EXCEPT !.fields = FALSE],
                 [c EXCEPT !.name = << >>], [c EXCEPT !.type = "binary"], [c EXCEPT !.chapters = 1],
                 [c EXCEPT !.usize = @ + 1], [c EXCEPT !.csize = @ + 1], [c EXCEPT !.comment = 80]}
    [] c.k = "arjext" -> {[c EXCEPT !.size = 1 - @], [c EXCEPT !.size = 80]}
    [] c.k = "tokens" ->
         {[c EXCEPT !.tokens[3] = t] : t \in {ArjMatch(3, 4), ArjMatch(4, 1), ArjMatch(2, 1)}}
    [] OTHER -> {}
Crafted(b) == Variants(b, DOMAIN b.cells, "crafted", Asks)

\* Whole archives that are put together against the rules.
ZipTwice ==     \* two central records, one local entry
  LET c == ZipCentralOf(Stored, 0) IN
  <<Stored.local, Byte(1), c, c, ZipEnd("eocd", 2, 2, 2)>>
ZipNested ==    \* an entry inside the data of another
  LET inner == <<ZipLocalOf(Deflated)>> \o Deflated.cells
      outer == ZipPart(<<5>>, "stored", {}, inner, <<1, 1>>) IN
  <<outer.local>> \o inner
    \o <<ZipCentralOf(outer, 0), ZipCentralOf(Deflated, 1), ZipEnd("eocd", 2, 2, 3)>>
ZipCommented == \* an end record in the comment of the real one
  SubSeq(ZipOne(Stored), 1, 3)
    \o <<[ZipEnd("eocd", 1, 1, 2) EXCEPT !.comment = 1], ZipEnd("eocd", 0, 0, 4)>>
ZipFlagged ==
  {ZipOne([Stored EXCEPT !.local.flags = f]) :
     f \in {{"strong"}, {"patched"}, {"enhanced"}, {"encrypted"}, {"utf8"}}}
  \cup {ZipOne([Stored EXCEPT !.local.method = m]) : m \in {"unknown", "aes", "deflate"}}
  \cup {ZipOne([ZipXz EXCEPT !.local.version = 10]), ZipOne([ZipXz EXCEPT !.local.usize = 4]),
        ZipOne(LzmaUnmarked(<<1, 2, 3>>)), ZipOne(LzmaUnmarked(<<1>>)),
        ZipOne([Lzma EXCEPT !.cells = Append(@, Zero)]),
        ZipOne([Stored EXCEPT !.local.name = <<9>>, !.local.flags = {"utf8"}]),
        ZipOne([Stored EXCEPT !.local.extra.strong = 1]),
        ZipOne([Stored EXCEPT !.local.extra.strong = 2]),
        ZipOne([Stored EXCEPT !.local.extra.unicode = <<[of |-> <<5>>, name |-> <<9>>]>>]),
        ZipOne([Stored EXCEPT !.local.extra.unicode =
                  <<[of |-> <<5>>, name |-> <<5>>], [of |-> <<5>>, name |-> <<6>>]>>]),
        ZipOne([Stored EXCEPT !.local.method = "aes",
                  !.local.extra.aes = <<[vendor |-> 2, strength |-> 1, method |-> "stored"]>>]),
        ZipOne([Stored EXCEPT !.local.method = "aes",
                  !.local.extra.aes = <<[vendor |-> 3, strength |-> 1, method |-> "stored"]>>])}
RpmTagged(signature, main) ==
  <<RpmLead(3, 1), Rest, RpmHeader(signature), Zero, RpmHeader(main)>> \o GzipPlain(CpioCells("odc"))
RpmOdd ==
  {RpmTagged(<<t>>, << >>) : t \in {RpmTag("sha3", "string", <<Byte(0)>>), RpmTag("sha1", "binary", <<Byte(0)>>)}}
  \cup {RpmTagged(<< >>, <<t>>) :
          t \in {RpmTag("algorithm", "int32", <<Byte(9)>>), RpmTag("algorithm", "int16", <<Byte(8)>>),
                 RpmTag("compressor", "string", <<RpmText("other")>>), RpmTag("compressor", "binary", <<RpmText("xz")>>),
                 RpmTag("format", "string", <<RpmText("other")>>), RpmTag("format", "binary", <<RpmText("cpio")>>),
                 RpmTag("sha512", "string", <<Byte(0)>>), RpmTag("payload", "string", <<Byte(0)>>),
                 RpmTag("payload", "strings", <<Zero, Zero>>), RpmTag("name", "other", << >>),
                 [RpmTag("name", "string", <<Byte(0)>>) EXCEPT !.fits = FALSE]}}
  \cup {<<RpmLead(3, 1), Rest, [RpmHeader(<< >>) EXCEPT !.version = 2]>>,
        <<RpmLead(3, 1), Rest, [RpmHeader(<< >>) EXCEPT !.reserved = 1]>>,
        <<RpmLead(3, 1), Rest, RpmHeader(<< >>), Byte(1), RpmHeader(<< >>)>>}
\* A name beyond the limit of a name.
Repeated(n) == [i \in 1 .. n |-> 1]
DebOdd ==
  LET small == TarPlain(<<5>>, <<1>>)
      inControl(cells) == DebCells("none", cells, "none", small)
      version == ArFile(ArHeader("debian-binary", "none", 1), <<Version("2.0")>>)
      control == ArFile(ArHeader("control", "none", 8), small)
      data == ArFile(ArHeader("data", "none", 8), small) IN
  {inControl(TarFile(TarHeader("x", <<1>>, 1), <<Pax("path", <<5>>)>>) \o TarEndBlocks),
   inControl(TarFile(TarHeader("L", <<1>>, 1), Bytes(<<5>>)) \o TarEndBlocks),
   inControl(TarFile(TarHeader("x", <<1>>, 1), <<[Pax("path", <<5>>) EXCEPT !.good = FALSE]>>)),
   inControl(TarFile(TarHeader("x", <<1>>, 1), <<Pax("size", <<40>>)>>) \o small),
   inControl(TarFile(TarHeader("x", <<1>>, 1), <<Pax("path", << >>)>>) \o small),
   inControl(TarFile(TarHeader("L", <<1>>, 2), Bytes(<<0, 5>>)) \o small),
   inControl(TarFile(TarHeader("L", <<1>>, 2), Bytes(<<10, 10>>)) \o small),
   inControl(TarFile(TarHeader("x", <<1>>, 1), <<Pax("owner", Repeated(12))>>) \o small),
   inControl(TarFile(TarHeader("x", <<1>>, 1), <<Pax("path", <<5>>)>>)
     \o [TarPlain(Repeated(12), <<1>>) EXCEPT ![1].prefixed = TRUE]),
   inControl(<<Zero, Zero, Byte(1), Zero>>), inControl(TarEndBlocks \o <<Byte(1), Zero>>),
   inControl(<< >>), inControl(<<Zero, Zero>>),
   <<ArMagic>> \o version \o data \o control, <<ArMagic>> \o control \o data,
   <<ArMagic>> \o version \o control \o control \o data,
   <<ArMagic>> \o version \o control \o data \o data, <<ArMagic>>}
Odd ==
  {[Base("zip", c, << >>) EXCEPT !.fault = "crafted", !.password = "right"] :
     c \in ZipFlagged \cup {ZipTwice, ZipNested, ZipCommented}}
  \cup {[Base("rpm", c, << >>) EXCEPT !.fault = "crafted", !.cancel = FALSE] : c \in RpmOdd}
  \cup {[Base("deb", c, << >>) EXCEPT !.fault = "crafted", !.cancel = FALSE] : c \in DebOdd}
-----------------------------------------------------------------------------
Bases ==
  CpioBases \cup ZipPlainBases \cup ZipUnmarkedBases \cup ZipSecretBases \cup RpmBases \cup RpmPlainBases
    \cup DebBases \cup ArjBases

\* Files: the size that was reported may be smaller than what is read.
FromPath(b) ==
  {[input |-> [b EXCEPT !.source = "path", !.stat = Len(b.cells) - d],
    limits |-> [MCAmple EXCEPT !.input = Len(b.cells) - e]] : d \in {0, 2}, e \in {0, 1, 3}}

Tight(b) ==
  {[input |-> b, limits |-> [MCAmple EXCEPT ![f] = n]] :
     f \in DOMAIN MCAmple \ {"kdf"}, n \in {0, 1, 2, 3, 6, 10}}
    \cup {[input |-> b, limits |-> [MCAmple EXCEPT !.kdf = FALSE]]}

MCCases ==
  {[input |-> i, limits |-> MCAmple] :
     i \in Bases \cup Odd \cup UNION {Password(b) : b \in ZipSecretBases}
             \cup UNION {Covered(b) \cup Crafted(b) \cup Cut(b) \cup Followed(b) : b \in Bases}}
    \cup UNION {Tight(b) : b \in Bases}
    \cup UNION {FromPath(b) : b \in {c \in Bases : Len(c.cells) < 16 \/ c.format = "cpio"}
                                      \cup {CHOOSE c \in DebBases : TRUE, CHOOSE c \in ArjBases : TRUE}}

\* A stream with two dictionary resets, as the only archive.
MCResetCases == {[input |-> ZipPlan(Lzma2Blocks), limits |-> MCAmple]}
=============================================================================
