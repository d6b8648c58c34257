---------------------------------- MODULE Deb ----------------------------------
(***************************************************************************)
(* deb/: an ar archive of a version, a control tar and a data tar, each tar *)
(* compressed on its own.  Both are decoded and parsed while the package is *)
(* opened, under limits they share.                                         *)
(*                                                                          *)
(* An ar header is one cell; a tar block is TarBlock cells, a header cell   *)
(* and a Rest; a pax record is one cell.                                    *)
(***************************************************************************)
EXTENDS Xz

TarBlock == 2
Newline == Byte(10)
NoName == <<0>>      \* no override: a name never holds a NUL

ArMagic == [k |-> "armagic"]
ArHeader(name, codec, size) ==
  [k |-> "ar", name |-> name, codec |-> codec, length |-> 1, size |-> size,
   good |-> TRUE]
ArNone == [ArHeader("other", "none", 0) EXCEPT !.k = "none"]
Version(v) == [k |-> "version", text |-> v]

TarHeader(type, name, size) ==
  [k |-> "tar", sum |-> TRUE, magic |-> TRUE, fields |-> TRUE, type |-> type,
   name |-> name, prefixed |-> FALSE, link |-> << >>, size |-> size]
TarNone == [TarHeader("0", << >>, 0) EXCEPT !.k = "none"]
Pax(key, v) == [k |-> "pax", key |-> key, v |-> v, good |-> TRUE]
PaxNone == [path |-> NoName, link |-> NoName, size |-> NoSize]
-----------------------------------------------------------------------------
(***************************************************************************)
(* ar::parse                                                                *)
(***************************************************************************)
ArChecks(h) ==
  << <<acc.header + 1 <= limits.header, "limit">>,
     <<h.k = "ar" /\ h.good, "format">>,
     <<h.name # "special", "unsupported">>,
     <<h.length <= limits.name, "limit">>,
     <<acc.names + h.length <= limits.names, "limit">>,
     <<offset + 1 + h.size <= Len(Cells), "format">>,
     <<Len(acc.members) < limits.files, "limit">>,
     <<h.size % 2 = 1 => RecordAt(Cells, offset + 1 + h.size, "byte", Zero) = Newline,
       "format">> >>

DebStart ==
  /\ Is("deb") /\ op = "open" /\ acc.format = "none"
  /\ \/ /\ limits.depth < 1
        /\ ParseFails("limit")
     \/ /\ limits.depth >= 1 /\ RecordAt(Cells, 0, "armagic", Zero) # ArMagic
        /\ ParseFails("format")
     \/ /\ limits.depth >= 1 /\ RecordAt(Cells, 0, "armagic", Zero) = ArMagic
        /\ acc' = [header |-> 0, names |-> 0, format |-> "ar", members |-> << >>]
        /\ offset' = 1
        /\ UNCHANGED entries
        /\ ParseGoesOn

DebMember(h) ==
  [name |-> h.name, codec |-> h.codec, length |-> h.length, start |-> offset + 1,
   end |-> offset + 1 + h.size, size |-> h.size]

DebArMember ==
  /\ Is("deb") /\ op = "open" /\ acc.format = "ar"
  /\ offset < Len(Cells)
  /\ LET h == RecordAt(Cells, offset, "ar", ArNone)
         result == FirstFailure(ArChecks(h)) IN
     \/ /\ result # "ok"
        /\ ParseFails(result)
     \/ /\ result = "ok"
        /\ acc' = [acc EXCEPT !.header = @ + 1, !.names = @ + h.length,
                              !.members = Append(@, DebMember(h))]
        /\ offset' = offset + 1 + h.size + (h.size % 2)
        /\ UNCHANGED entries
        /\ ParseGoesOn
-----------------------------------------------------------------------------
(***************************************************************************)
(* validate_members, classify_member                                        *)
(***************************************************************************)
DebControlCodecs == {"none", "gzip", "xz", "zstd"}
DebData(m) == Slice(Cells, m.start, m.end - m.start)

DebKnown(m) ==
  \/ m.name \in {"debian-binary", "optional"}
  \/ m.name = "control" /\ m.codec \in DebControlCodecs
  \/ m.name = "data" /\ m.codec \in Containers

\* The members in front of member i that are the control or the data archive.
DebSeen(i, name) == \E j \in 1 .. i - 1 : acc.members[j].name = name

DebOrderly(i) ==
  LET name == acc.members[i].name IN
  /\ name = "debian-binary" => i = 1
  /\ name \in {"optional", "control"} => ~ DebSeen(i, "control")
  /\ name = "data" => DebSeen(i, "control")
  /\ ~ DebSeen(i, "data")

DebMemberResult(i) ==
  FirstFailure(<< <<DebKnown(acc.members[i]), "unsupported">>,
                  <<DebOrderly(i), "format">> >>)

DebMemberChecks ==
  LET m == acc.members
      each == FirstOf([i \in DOMAIN m |-> DebMemberResult(i)]) IN
  << <<m # << >>, "format">>,
     <<m # << >> => m[1].name = "debian-binary", "format">>,
     <<m # << >> => DebData(m[1]) = <<Version("2.0")>>, "unsupported">>,
     <<each = "ok", each>>,
     <<Len(m) <= limits.files, "limit">>,
     <<DebSeen(Len(m) + 1, "control"), "format">>,
     <<DebSeen(Len(m) + 1, "data"), "format">> >>

DebArchive(name) == acc.members[Max({i \in DOMAIN acc.members : acc.members[i].name = name})]

\* Mutant: the data tar gets the whole allowance again.
DebRemaining_Whole(control) == limits.total
\* The output the control tar leaves of the total.
DebRemaining(control) == limits.total - Len(control)

\* Both tars are decoded before the first is parsed.
DebDecodeWith(c, d, control, result) ==
  \/ /\ result # "ok"
     /\ ParseFails(result)
  \/ /\ result = "ok"
     /\ acc' = [header |-> Len(acc.members) + 1, names |-> acc.names,
                format |-> "control", members |-> acc.members, properties |-> 0,
                control |-> control, data |-> ContainerOutput(d.codec, DebData(d)),
                global |-> PaxNone, local |-> << >>, longName |-> NoName,
                longLink |-> NoName]
     /\ offset' = 0
     /\ UNCHANGED entries
     /\ ParseGoesOn

DebDecode ==
  LET c == DebArchive("control")
      d == DebArchive("data")
      control == ContainerOutput(c.codec, DebData(c)) IN
  DebDecodeWith(c, d, control,
    AndThen(ContainerResult(c.codec, DebData(c), limits.total),
            ContainerResult(d.codec, DebData(d), DebRemaining(control))))

DebMembers ==
  /\ Is("deb") /\ op = "open" /\ acc.format = "ar"
  /\ offset >= Len(Cells)
  /\ LET result == FirstFailure(DebMemberChecks) IN
     \/ /\ result # "ok"
        /\ ParseFails(result)
     \/ /\ result = "ok"
        /\ DebDecode
-----------------------------------------------------------------------------
(***************************************************************************)
(* tar::parse, one record per step                                          *)
(***************************************************************************)
Tar == IF acc.format = "control" THEN acc.control ELSE acc.data
TarHere == RecordAt(Tar, offset, "tar", TarNone)
TarData(size) == Slice(Tar, offset + TarBlock, size)
\* Mutant: the header block is not counted.
TarNext_NoHeader(size) ==
  IF (offset + size) % TarBlock = 0 THEN offset + size ELSE offset + size + 1
\* next_record_offset
TarNext(size) ==
  LET end == offset + TarBlock + size IN
  IF end % TarBlock = 0 THEN end ELSE end + TarBlock - (end % TarBlock)
TarIsZero(o) == o + TarBlock <= Len(Tar) /\ \A i \in o + 1 .. o + TarBlock : Tar[i] = Zero

\* What every block is subject to, and a header block in addition.
TarBlockChecks ==
  << <<offset + TarBlock <= Len(Tar), "format">>,
     <<acc.header + TarBlock <= limits.header, "limit">> >>
TarHeaderChecks(h) ==
  << <<h.k = "tar", "format">>, <<h.sum, "checksum">>, <<h.magic, "format">> >>

\* The end marker: two zero blocks, nothing but zeros behind them, and no
\* extension that still waits for its member.
TarEndChecks ==
  << <<TarIsZero(offset + TarBlock), "format">>,
     <<acc.header + 2 * TarBlock <= limits.header, "limit">>,
     <<\A i \in offset + 1 .. Len(Tar) : Tar[i] = Zero, "format">>,
     <<acc.local = << >> /\ acc.longName = NoName /\ acc.longLink = NoName, "format">> >>

TarEnd ==
  LET result == FirstFailure(TarBlockChecks \o TarEndChecks) IN
  \/ /\ result # "ok"
     /\ ParseFails(result)
  \/ /\ result = "ok" /\ acc.format = "data"
     /\ OpenReturns("ok")
     /\ UNCHANGED parseVars
  \/ /\ result = "ok" /\ acc.format = "control"
     /\ acc' = [acc EXCEPT !.header = @ + 2 * TarBlock, !.format = "data",
                           !.global = PaxNone]
     /\ offset' = 0
     /\ UNCHANGED entries
     /\ ParseGoesOn

\* parse_pax and apply_pax_value: later records win, other keys are skipped;
\* "owner" is uname or gname, which is held against the limit of a name.
PaxLast(cells, key, none) ==
  LET places == {i \in DOMAIN cells : cells[i].k = "pax" /\ cells[i].key = key} IN
  IF places = {} THEN none ELSE cells[Max(places)].v
PaxValues(cells, base) ==
  [path |-> PaxLast(cells, "path", base.path),
   link |-> PaxLast(cells, "link", base.link),
   size |-> PaxLast(cells, "size", <<base.size>>)[1]]
PaxResult(cells, i) ==
  LET named == IF cells[i].k = "pax" THEN cells[i].key \in {"path", "link", "owner"} ELSE FALSE IN
  FirstFailure(<< <<acc.properties + i <= limits.properties, "limit">>,
                  <<IF cells[i].k = "pax" THEN cells[i].good ELSE FALSE, "format">>,
                  <<named => Len(cells[i].v) <= limits.name, "limit">> >>)
PaxChecks(cells) ==
  LET each == FirstOf([i \in DOMAIN cells |-> PaxResult(cells, i)]) IN
  << <<each = "ok", each>> >>

\* parse_long_value: without the NULs and newlines at its end.
LongValue(cells) ==
  LET end == Max({0} \cup {i \in DOMAIN cells : cells[i] \notin {Zero, Newline}}) IN
  [i \in 1 .. end |-> Value(cells[i])]

TarExtensionChecks(h) ==
  LET data == TarData(h.size) IN
  << <<h.size <= limits.header, "limit">>,
     <<acc.header + TarBlock + h.size <= limits.header, "limit">>,
     <<offset + TarBlock + h.size <= Len(Tar), "format">> >>
  \o (IF h.type \in {"g", "x"} THEN PaxChecks(data)
      ELSE << <<\A i \in DOMAIN LongValue(data) : LongValue(data)[i] # 0, "format">>,
              <<Len(LongValue(data)) <= limits.name, "limit">> >>)

TarExtension(h) ==
  LET data == TarData(h.size)
      counted == [acc EXCEPT !.header = @ + TarBlock + h.size,
                             !.properties = @ + (IF h.type \in {"g", "x"} THEN h.size ELSE 0)] IN
  /\ acc' = CASE h.type = "g" -> [counted EXCEPT !.global = PaxValues(data, @)]
              [] h.type = "x" -> [counted EXCEPT !.local = <<PaxValues(data, PaxNone)>>]
              [] h.type = "L" -> [counted EXCEPT !.longName = LongValue(data)]
              [] h.type = "K" -> [counted EXCEPT !.longLink = LongValue(data)]
  /\ offset' = TarNext(h.size)
  /\ UNCHANGED entries
  /\ ParseGoesOn

\* The first of the overrides that is there.
OneOf(values, none, otherwise) ==
  LET there == {i \in DOMAIN values : values[i] # none} IN
  IF there = {} THEN otherwise ELSE values[Min(there)]

\* A member's name, link and size: local pax, global pax, GNU long, header.
TarMember(h) ==
  LET local == IF acc.local = << >> THEN PaxNone ELSE acc.local[1] IN
  [name |-> OneOf(<<local.path, acc.global.path, acc.longName>>, NoName, h.name),
   link |-> OneOf(<<local.link, acc.global.link, acc.longLink>>, NoName, h.link),
   size |-> OneOf(<<local.size, acc.global.size>>, NoSize, h.size)]

\* header_path holds the name of a header against the limit only where it is
\* put together from prefix and name, and whether or not it is overridden.
TarMemberChecks(h) ==
  LET m == TarMember(h) IN
  << <<h.prefixed => Len(h.name) <= limits.name, "limit">>,
     <<m.name # << >>, "format">>,
     <<Len(m.name) <= limits.name, "limit">>,
     <<acc.names + Len(m.name) <= limits.names, "limit">>,
     <<Len(m.link) <= limits.name, "limit">>,
     <<m.size <= limits.entry, "limit">>,
     <<offset + TarBlock + m.size <= Len(Tar), "format">>,
     <<Len(acc.members) + Len(entries) + 1 <= limits.files, "limit">>,
     <<h.fields, "format">> >>

DebEntry(h) ==
  LET m == TarMember(h) IN
  [name |-> m.name, link |-> m.link, size |-> m.size, type |-> h.type,
   section |-> acc.format, start |-> offset + TarBlock,
   end |-> offset + TarBlock + m.size, checked |-> FALSE]

TarTakes(h) ==
  /\ entries' = Append(entries, DebEntry(h))
  /\ acc' = [acc EXCEPT !.header = @ + TarBlock, !.names = @ + Len(TarMember(h).name),
                        !.local = << >>, !.longName = NoName, !.longLink = NoName]
  /\ offset' = TarNext(TarMember(h).size)
  /\ ParseGoesOn

DebTar ==
  /\ Is("deb") /\ op = "open" /\ acc.format \in {"control", "data"}
  /\ LET h == TarHere
         extension == h.type \in {"g", "x", "L", "K"}
         result == FirstFailure(TarBlockChecks \o TarHeaderChecks(h)
                     \o (IF extension THEN TarExtensionChecks(h) ELSE TarMemberChecks(h))) IN
     \/ /\ offset >= Len(Tar)
        /\ ParseFails("format")
     \/ /\ offset < Len(Tar) /\ TarIsZero(offset)
        /\ TarEnd
     \/ /\ offset < Len(Tar) /\ ~ TarIsZero(offset)
        /\ result # "ok"
        /\ ParseFails(result)
     \/ /\ offset < Len(Tar) /\ ~ TarIsZero(offset)
        /\ result = "ok" /\ extension
        /\ TarExtension(h)
     \/ /\ offset < Len(Tar) /\ ~ TarIsZero(offset)
        /\ result = "ok" /\ ~ extension
        /\ TarTakes(h)
-----------------------------------------------------------------------------
DebReadPath == Is("deb") /\ (StatPath \/ ReadPath)
DebOpenBytes == Is("deb") /\ StartOpen

\* entry_data
DebSection(e) == IF e.section = "control" THEN acc.control ELSE acc.data
DebEntryData(e) == Slice(DebSection(e), e.start, e.end - e.start)
DebInRange(e) == << <<e.start <= e.end /\ e.end <= Len(DebSection(e)), "format">> >>

DebVerify ==
  /\ Is("deb")
  /\ \/ /\ at \in DOMAIN entries
        /\ VerifyEntry(FirstFailure(WithinOutput(entries[at].size) \o DebInRange(entries[at])),
                       entries[at].size)
     \/ VerifyDone

DebExtractEntries ==
  /\ Is("deb")
  /\ \/ /\ at \in DOMAIN entries
        /\ BeginEntry(FirstFailure(WithinOutput(entries[at].size) \o DebInRange(entries[at])),
                      entries[at].size, DebEntryData(entries[at]))
     \/ ExtractDone

DebAlone(i) ==
  IF i \notin DOMAIN entries THEN "format"
  ELSE FirstFailure(<< <<entries[i].size <= limits.entry, "limit">> >> \o DebInRange(entries[i]))

DebExtractEntry ==
  /\ Is("deb")
  /\ \E i \in 1 .. Len(entries) + 1 :
       BeginAlone(i, DebAlone(i),
                  IF i \in DOMAIN entries THEN DebEntryData(entries[i]) ELSE << >>)

\* extract_member_to: the stored bytes of an outer member.
DebMemberAlone(i) ==
  IF i \notin DOMAIN acc.members THEN "format"
  ELSE IF acc.members[i].size > limits.entry THEN "limit" ELSE "ok"

DebExtractMember ==
  /\ Is("deb") /\ op = "extract" /\ ~ sink
  /\ \E i \in 1 .. Len(acc.members) + 1 :
       \/ ExtractReturns(DebMemberAlone(i))
       \/ DebMemberAlone(i) = "ok" /\ ExtractReturns("sink")
  /\ UNCHANGED loopVars

DebWrite == Is("deb") /\ (WriteChunk \/ FinishEntry)

DebNext ==
  \/ DebReadPath \/ DebOpenBytes \/ DebStart \/ DebArMember \/ DebMembers
  \/ DebTar \/ DebVerify \/ DebExtractEntries \/ DebExtractEntry
  \/ DebExtractMember \/ DebWrite
=============================================================================
