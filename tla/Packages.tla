------------------------------- MODULE Packages -------------------------------
(***************************************************************************)
(* The five package readers together, and what they promise.                *)
(***************************************************************************)
EXTENDS Zip, Rpm, Deb, Arj

\* A sequence, as a function.
IsVector(s) == Len(s) \in Nat /\ s = [i \in 1 .. Len(s) |-> s[i]]

\* The fields of a record that the code reads into unsigned integers.
Unsigned(c) ==
  CASE c.k = "cpio"                   -> {"name", "size"}
    [] c.k = "ar"                     -> {"size", "length"}
    [] c.k \in {"tar", "arjext"}      -> {"size"}
    [] c.k = "arj"                    -> {"csize", "usize"}
    [] c.k \in {"central", "local"}   -> {"csize", "usize", "offset", "disk"}
    [] c.k \in {"eocd", "eocd64"}     -> {"size", "offset", "comment"}
    [] c.k = "locator"                -> {"offset"}
    [] c.k = "xzblock"                -> {"size"}
    [] OTHER                          -> {}
RecordOK(c) ==
  /\ \A f \in Unsigned(c) : c[f] \in Nat
  /\ c.k \in {"tar", "arj", "central", "local"} => IsVector(c.name)
  /\ c.k = "xzblock" => IsVector(c.filters)
  /\ c.k = "gzip" => c.extra \in Nat \cup {NoSize}
  /\ c.k = "pax" => IsVector(c.v) /\ (c.key = "size" => c.v[1] \in Nat)
  /\ c.k \in {"central", "local"} =>
       /\ IsVector(c.extra.zip64)
       /\ \A i \in DOMAIN c.extra.zip64 :
            /\ IsVector(c.extra.zip64[i])
            /\ \A j \in DOMAIN c.extra.zip64[i] : c.extra.zip64[i][j] \in Nat
RecordsOK(s) == IsVector(s) /\ \A i \in 1 .. Len(s) : RecordOK(s[i])

\* An operation and a chunk of an LZMA2 stream: what its bits can say.
OperationOK(o) ==
  /\ {"kind", "byte", "length"} \subseteq DOMAIN o /\ o = [f \in DOMAIN o |-> o[f]]
  /\ o.kind \in {"literal", "match", "end", "rep", "short"}
  /\ RecordOK(o.byte)
  /\ o.length \in Nat
  /\ o.kind \in {"match", "end"} => o.distance \in Nat \ {0}
  /\ o.kind = "rep" => o.which \in 1 .. 4
ChunkOK(chunk) ==
  /\ chunk.control \in Compressed => chunk.size \in Nat
  /\ IsVector(chunk.operations)
  /\ \A i \in DOMAIN chunk.operations : OperationOK(chunk.operations[i])
  /\ RecordsOK(chunk.bytes)

\* A cell of a file: what is decoded of it are records again.
CellOK(c) ==
  /\ RecordOK(c)
  /\ c.k = "packed" => c = [f \in DOMAIN c |-> c[f]] /\ {"k", "out", "sound"} \subseteq DOMAIN c
  /\ c.k = "packed" => RecordsOK(c.out)
  /\ c.k = "lzma2" => IsVector(c.chunks) /\ \A i \in DOMAIN c.chunks : ChunkOK(c.chunks[i])
  /\ c.k = "xzindex" =>
       /\ IsVector(c.records)
       /\ \A i \in DOMAIN c.records : c.records[i][1] \in Nat /\ c.records[i][2] \in Nat
  /\ c.k = "tokens" => /\ IsVector(c.tokens)
                       /\ \A i \in DOMAIN c.tokens : c.tokens[i].length \in Nat
CellsOK(s) == IsVector(s) /\ \A i \in 1 .. Len(s) : CellOK(s[i])

\* The Limits are unsigned integers, but for the permission to derive keys.
LimitsOK(l) ==
  \A f \in {"input", "header", "files", "names", "name", "entry", "total", "depth", "sfx",
           "dictionary", "properties"} : l[f] \in Nat

ASSUME CasesAssumption ==
  /\ IoChunk \in Nat \ {0}
  /\ \A c \in Cases : /\ c.input.format \in {"cpio", "zip", "rpm", "deb", "arj"}
                      /\ CellsOK(c.input.cells)
                      /\ LimitsOK(c.limits)

Next ==
  \/ CpioNext \/ ZipNext \/ RpmNext \/ DebNext \/ ArjNext
  \/ Interrupt \/ Returned

Spec == Init /\ [][Next]_vars
-----------------------------------------------------------------------------
Listed == opened = "ok"

\* How a packed name or link is listed: as it was packed, newlines at its end
\* included, whether a header or a pax record holds it; only the GNU extension
\* for long values loses those newlines, which are part of the name.
AsListed(value, long) ==
  IF ~ long THEN value
  ELSE SubSeq(value, 1, Max({0} \cup {i \in DOMAIN value : value[i] # Newline.v}))
NamesAsPacked ==
  /\ DOMAIN entries = DOMAIN input.truth
  /\ \A i \in DOMAIN entries :
       LET packed == input.truth[i] IN
       /\ entries[i].name = AsListed(packed.name, "name" \in packed.long)
       /\ input.format = "deb" => entries[i].link = AsListed(packed.link, "link" \in packed.long)

\* An archive as its archiver wrote it, under Limits it does not exceed, is
\* opened, lists the names and links that were packed, verifies, and every
\* entry that is finished has the bytes that were packed: whichever of the
\* optional forms (descriptor with or without signature, ZIP64, Unicode
\* names, SFX stub, pax and GNU extensions, checks of an XZ stream) it uses.
\* The one exception is in AsListed.
ReadsWhatWasPacked ==
  input.fault = "none" /\ limits = Ample =>
    /\ opened \in {"none", "ok", "interrupted", "io"}
    /\ Listed => NamesAsPacked
    /\ verified \in {"none", "ok", "interrupted"}
    /\ \A i \in DOMAIN finished : got[finished[i]] = input.truth[finished[i]].data

\* "Supported with reset/chunk/EOS validation": an undamaged entry verifies,
\* however many dictionary resets its LZMA2 stream has.
DictionaryResetsDecode ==
  input.fault = "none" /\ limits = Ample => verified \in {"none", "ok", "interrupted"}

\* One change to something the archive holds a second copy or a checksum of
\* (a field of one of a ZIP entry's two headers or of its descriptor, an XZ
\* Index record, a CRC, a digest, the bytes under one), and a password that
\* is missing or wrong, never passes both open and verify; what passes of an
\* archive that was cut short or has more behind it is all of its entries.
DamageIsNoticed ==
  /\ input.fault \in {"covered", "password"} => verified # "ok"
  /\ input.fault \in {"cut", "tail"} /\ verified = "ok" => NamesAsPacked

\* ... and no sink is told that an entry is complete whose bytes are not
\* those of an entry that was packed.
NoSilentCorruption ==
  input.fault \in {"none", "covered", "password", "cut", "tail"} =>
    \A i \in DOMAIN finished :
      \E j \in DOMAIN input.truth : input.truth[j].data = got[finished[i]]

\* Damage passes neither verify nor, entry by entry, the sink.
DamageNeverPasses == DamageIsNoticed /\ NoSilentCorruption

\* The bytes behind an opened archive's entries: the input or what of it was
\* decoded.
Retained(e) ==
  CASE input.format = "rpm" -> acc.payload
    [] input.format = "deb" -> DebSection(e)
    [] OTHER                -> Cells

\* The entries of an archive that was opened lie inside the bytes it keeps
\* and share none of them, for any input: what one entry's limits admit is
\* not admitted again under another name.
EntriesAreDisjoint ==
  Listed => \A i, j \in DOMAIN entries :
    LET a == entries[i]
        b == entries[j] IN
    /\ a.end <= Len(Retained(a))
    /\ i # j /\ (input.format = "deb" => a.section = b.section) =>
         a.end <= b.start \/ b.end <= a.start

\* A Debian or RPM package is decoded while it is opened: once open has
\* accepted it, no limit can stop verify or the extraction of all entries.
OpenedIsAdmitted ==
  input.format \in {"deb", "rpm"} =>
    /\ verified # "limit"
    /\ sink => extracted # "limit"

\* What verify accepted can be extracted: only the sink or an interruption
\* stops extract_entries_to afterwards.
VerifiedExtracts ==
  verified = "ok" /\ sink => extracted \in {"none", "ok", "sink", "interrupted"}

\* An entry that extract_entries_to finished can be extracted alone.
AloneResult(i) ==
  CASE input.format = "cpio" -> CpioAlone(i)
    [] input.format = "zip"  -> ZipAlone(i)
    [] input.format = "rpm"  -> RpmAlone(i)
    [] input.format = "deb"  -> DebAlone(i)
    [] input.format = "arj"  -> ArjAlone(i)
FinishedIsExtractable ==
  \A i \in DOMAIN finished : AloneResult(finished[i]) = "ok"

\* verify, extract_entries_to and extract_entry_to of each reader judge an
\* archive and its entries alike.
OperationsAgree == VerifiedExtracts /\ FinishedIsExtractable

\* The limits count a name as it is stored: a ZIP entry may be shown under
\* the longer one of its Unicode path field.
EncodedName(e) == IF input.format = "zip" THEN e.encoded ELSE Len(e.name)

\* The Limits hold whatever the input is: of what was read, of the listing,
\* of what is kept decoded, and of what reaches the caller.  (One entry of a
\* CPIO or ARJ archive that is extracted alone is held against the limit of
\* an entry only.)
WithinLimits ==
  /\ op = "read" => offset <= limits.input
  /\ Listed =>
       /\ Len(entries) <= limits.files
       /\ SumFunction([i \in DOMAIN entries |-> EncodedName(entries[i])]) <= limits.names
       /\ input.format = "deb" => Len(acc.control) + Len(acc.data) <= limits.total
  /\ \A i \in DOMAIN got : Len(got[i]) <= limits.entry
  /\ sink \/ input.format \in {"zip", "rpm", "deb"} =>
       SumFunction([i \in DOMAIN got |-> Len(got[i])]) <= limits.total

\* The limits hold, and where open has charged for everything they are not
\* charged again.
LimitsHold == OpenedIsAdmitted /\ WithinLimits

\* Every reader's extract_entries_to keeps the promise of EntrySink.
Sink == INSTANCE EntrySink WITH
  current <- IF sink /\ op = "chunks" THEN at ELSE 0,
  missing <- IF sink /\ op = "chunks" THEN Len(content) - cursor ELSE 0,
  complete <- Len(finished),
  over <- op = "done"
ImplementsSink == Sink!SinkSpec

\* The operations in the order in which they come, the stages of a parser in
\* theirs.
OpOrder == [stat |-> 0, read |-> 1, start |-> 2, open |-> 3, verify |-> 4,
            extract |-> 5, chunks |-> 5, done |-> 6]
Stage(a) ==
  CASE a.format = "none" -> 0
    [] a.format \in {"zip", "ar", "main", "headers", "member"} -> 1
    [] a.format = "data" -> 3
    [] OTHER -> 2
RoundGoesForward ==
  \/ OpOrder[op'] > OpOrder[op]
  \/ /\ op' = op /\ op \in {"read", "open"}
     /\ \/ Stage(acc') > Stage(acc)
        \/ Stage(acc') = Stage(acc) /\ offset' > offset
  \/ /\ OpOrder[op'] = OpOrder[op] /\ op \in {"verify", "extract", "chunks"}
     /\ \/ at' > at
        \/ op = "extract" /\ op' = "chunks"
        \/ op = "chunks" /\ op' = "chunks" /\ cursor' > cursor

\* Every step brings the end nearer, whatever the fields say that it read: a
\* round of a parser that is not the last of its stage goes forward in the
\* bytes of the stage, a round of verify or extraction in the listing.  With
\* the absence of deadlock, open, verify and extraction return.
RoundsAdvance == [][RoundGoesForward]_vars
=============================================================================
