------------------------------ MODULE Extraction ------------------------------
(***************************************************************************)
(* archive.rs: Archive::verify and then Archive::extract_entries_to on one *)
(* open archive, and what Archive::extract_entry would return for a member.*)
(* The archive is immutable, so one pass of each is enough to compare them.*)
(*                                                                         *)
(* Coders are deterministic: a folder record says what they will produce   *)
(* (actual bytes, or damage that makes them fail) and whether each CRC     *)
(* will match.  The sink is the caller's: each of its methods may fail.    *)
(* ValidatedArchive hands the archive over, built by header validation.    *)
(***************************************************************************)
EXTENDS ArchiveModel

CONSTANT IoChunk    \* IO_CHUNK_SIZE

VARIABLES
  archive, limits,
  stage,       \* the operation and loop under way
  verified,    \* the result of verify, "none" before it returns
  extracted,   \* the result of extract_entries_to
  at,          \* the folder (verify) or member (extract) of the loop
  total,       \* total_output, total_folder_output
  folder,      \* current_folder, 0 for None
  next,        \* next_substream, counted from 1
  offset,      \* folder_offset
  end,         \* end of the current member's range
  cursor,      \* start of the next chunk of the current member
  delivered,   \* delivered
  decodes,     \* history: how often extraction decoded each folder
  begun,       \* history: members the sink was given begin_entry for
  got,         \* history: folder byte ranges written for each member
  finished     \* history: members the sink accepted finish_entry for

sinkVars == <<begun, got, finished>>
loopVars == <<folder, next, offset, end, cursor, delivered, decodes>>
vars == <<archive, limits, stage, verified, extracted, at, total, loopVars,
          sinkVars>>

Verdicts == {"absent", "match", "mismatch"}

\* What the program may hold open: header validation passed (ArchiveModel),
\* a known root size is exactly what the coders produce, and one CRC of one
\* range has one verdict.
FolderOK(f) ==
  /\ f.root \in Sizes
  /\ f.crc \in Verdicts
  /\ f.subs \in Seq([size : Sizes, crc : Verdicts])
  /\ FolderCovered(f, "absent")
  /\ f.actual \in Nat
  /\ f.root # Unknown => f.actual = f.root
  /\ f.damaged \in BOOLEAN
  /\ f.encrypted \in BOOLEAN

OpenArchive(a) ==
  /\ \A i \in DOMAIN a.folders : FolderOK(a.folders[i])
  /\ \A i \in DOMAIN a.additional : FolderOK(a.additional[i])
  /\ a.hasFiles => MembersCover(a.members, a.folders)
  /\ ~ a.hasFiles => a.members = << >>

Errors == {"limit", "unsupported", "format", "checksum", "password",
           "internal", "interrupted"}

TypeOK ==
  /\ stage \in {"closed", "additional", "verify", "members", "chunks", "done"}
  /\ verified \in {"none", "ok"} \cup Errors
  /\ extracted \in {"none", "ok", "sink"} \cup Errors
  /\ at \in Nat \ {0}
  /\ total \in 0 .. limits.total
  /\ folder \in 0 .. Len(archive.folders)
  /\ next \in Nat \ {0}
  /\ folder # 0 => /\ next \in 1 .. Len(archive.folders[folder].subs) + 1
                   /\ 0 <= offset /\ offset <= cursor
                   /\ cursor <= end
                   /\ end <= archive.folders[folder].actual
-----------------------------------------------------------------------------
(***************************************************************************)
(* Decoding one folder                                                     *)
(***************************************************************************)

Smaller(a, b) == IF a <= b THEN a ELSE b

\* map_encrypted_error, and the checksum results of an encrypted folder.
Damage(f, r) == IF f.encrypted THEN "password" ELSE r

\* execute.rs decode_folder and decode_coder, by their result.
DecodeResult(f, maximum) ==
  CASE f.root # Unknown /\ f.root > maximum                  -> "limit"
    [] ~ (f.root # Unknown /\ f.root > maximum) /\ f.damaged -> Damage(f, "format")
    [] ~ f.damaged /\ f.actual > maximum                     -> "limit"
    [] ~ f.damaged /\ f.actual <= maximum                    -> "ok"

\* The substreams folder_decode_maximum turns away: larger than an entry may
\* be, or of unknown size and not the last.
Refused(f, k) ==
  IF f.subs[k].size = Unknown THEN k # Len(f.subs)
                              ELSE f.subs[k].size > limits.entry

\* What all substreams together may come to.
Permitted(f) ==
  SumFunction([k \in DOMAIN f.subs |-> IF f.subs[k].size = Unknown
                                       THEN limits.entry ELSE f.subs[k].size])

UnknownFinal(f) == \E k \in DOMAIN f.subs : f.subs[k].size = Unknown

\* folder_decode_maximum, its errors.
MaximumResult(f, remaining) ==
  LET refused == {k \in DOMAIN f.subs : Refused(f, k)} IN
  IF f.root # Unknown /\ f.root > remaining THEN "limit"
  ELSE IF refused # {} THEN (IF f.subs[Min(refused)].size = Unknown
                             THEN "unsupported" ELSE "limit")
  ELSE IF f.subs # << >> /\ ~ UnknownFinal(f) /\ f.root # Permitted(f)
       THEN "internal"
  ELSE "ok"

\* folder_decode_maximum, its value.
MaximumOutput(f, remaining) ==
  IF f.subs = << >> THEN remaining ELSE Smaller(Permitted(f), remaining)

\* Both, as every caller runs them.
FolderResult(f, remaining) ==
  IF MaximumResult(f, remaining) # "ok" THEN MaximumResult(f, remaining)
  ELSE DecodeResult(f, MaximumOutput(f, remaining))

\* The same, and the check of the running total that follows in verify and
\* in extract_entries_to.
AccountedResult(f) ==
  LET decoded == FolderResult(f, limits.total - total) IN
  IF decoded = "ok" /\ total + f.actual > limits.total THEN "limit" ELSE decoded

\* The end of substream k of decoded folder f that starts at start.
SubEnd(f, k, start) ==
  IF f.subs[k].size = Unknown THEN f.actual ELSE start + f.subs[k].size

\* All substreams before k have a known size.
SubStart(f, k) == Offset(f.subs, k - 1)

Mismatch(crc) == crc = "mismatch"
-----------------------------------------------------------------------------
NoArchive == [folders |-> << >>, members |-> << >>, additional |-> << >>,
              hasFiles |-> FALSE]

\* Before Archive::open has returned.
Init ==
  /\ archive = NoArchive
  /\ limits = [entry |-> 0, total |-> 0, header |-> 0]
  /\ stage = "closed"
  /\ verified = "none"
  /\ extracted = "none"
  /\ at = 1
  /\ total = 0
  /\ folder = 0
  /\ next = 1
  /\ offset = 0
  /\ end = 0
  /\ cursor = 0
  /\ delivered = 0
  /\ decodes = << >>
  /\ begun = << >>
  /\ got = << >>
  /\ finished = << >>

\* Archive::open returned archive a with limits l, and the caller verifies it.
Open(a, l) ==
  /\ stage = "closed"
  /\ archive' = a
  /\ limits' = l
  /\ stage' = "additional"
  /\ decodes' = [f \in DOMAIN a.folders |-> 0]
  /\ got' = [m \in DOMAIN a.members |-> << >>]
  /\ UNCHANGED <<verified, extracted, at, total, folder, next, offset, end,
                 cursor, delivered, begun, finished>>

(***************************************************************************)
(* Archive::verify                                                         *)
(***************************************************************************)

\* verify returns, and the caller starts extract_entries_to.
VerifyReturns(r) ==
  /\ verified' = r
  /\ stage' = "members"
  /\ at' = 1
  /\ total' = 0
  /\ UNCHANGED <<archive, limits, extracted, loopVars, sinkVars>>

\* verify_decoded_additional_folder: the folder CRC, then every range and CRC,
\* then nothing left over.
AdditionalVerdict(f) ==
  LET n == Len(f.subs)
      unknown(k) == f.subs[k].size = Unknown /\ k # n
      outside(k) == SubEnd(f, k, SubStart(f, k)) > f.actual
      first == Min({k \in 1 .. n : \/ unknown(k)
                                  \/ outside(k)
                                  \/ Mismatch(f.subs[k].crc)} \cup {n + 1}) IN
  IF Mismatch(f.crc) THEN Damage(f, "checksum")
  ELSE IF first <= n
       THEN CASE unknown(first) -> "unsupported"
              [] ~ unknown(first) /\ outside(first) -> "format"
              [] ~ unknown(first) /\ ~ outside(first) -> Damage(f, "checksum")
  ELSE IF (IF n = 0 THEN 0 ELSE SubEnd(f, n, SubStart(f, n))) # f.actual
       THEN "format"
  ELSE "ok"

\* process_additional_streams: one additional folder.
VerifyAdditional ==
  /\ stage = "additional"
  /\ at \in DOMAIN archive.additional
  /\ LET f == archive.additional[at]
         maximum == Smaller(limits.header - total, limits.total - total)
         decoded == DecodeResult(f, maximum)
         verdict == IF decoded = "ok" THEN AdditionalVerdict(f) ELSE decoded IN
     \/ /\ verdict = "ok"
        /\ total' = total + f.actual
        /\ at' = at + 1
        /\ UNCHANGED <<archive, limits, stage, verified, extracted, loopVars,
                       sinkVars>>
     \/ /\ verdict # "ok"
        /\ VerifyReturns(verdict)

AdditionalDone ==
  /\ stage = "additional"
  /\ at \notin DOMAIN archive.additional
  /\ stage' = "verify"
  /\ at' = 1
  /\ UNCHANGED <<archive, limits, verified, extracted, total, loopVars,
                 sinkVars>>

\* The number of substreams of each folder.
SubCounts == [j \in DOMAIN archive.folders |-> Len(archive.folders[j].subs)]

\* How many streamed members the iterator of verify has yielded with m.
Yielded(m) == Cardinality({j \in Streamed(archive.members) : j <= m})

\* The place of the member that it yields for substream k of folder i,
\* <<0, 0>> when it has run out.
IteratorPlace(i, k) ==
  LET rank == SumFunctionOnSet(SubCounts, 1 .. i - 1) + k
      nth == {m \in Streamed(archive.members) : Yielded(m) = rank} IN
  IF nth = {} THEN <<0, 0>> ELSE Place(archive.members[Min(nth)])

\* verify_folder_members: the first substream with a problem decides, then
\* the folder CRC.
MembersVerdict(i) ==
  LET f == archive.folders[i]
      bad == {k \in DOMAIN f.subs :
                \/ IteratorPlace(i, k) # <<i, k>>
                \/ SubEnd(f, k, SubStart(f, k)) > f.actual
                \/ Mismatch(f.subs[k].crc)}
      k == Min(bad) IN
  IF bad = {} THEN (IF Mismatch(f.crc) THEN Damage(f, "checksum") ELSE "ok")
  ELSE IF IteratorPlace(i, k) # <<i, k>>
       THEN (IF archive.hasFiles THEN "internal" ELSE "format")
  ELSE IF SubEnd(f, k, SubStart(f, k)) > f.actual THEN "format"
  ELSE Damage(f, "checksum")

VerifyFolder ==
  /\ stage = "verify"
  /\ at \in DOMAIN archive.folders
  /\ LET f == archive.folders[at]
         decoded == AccountedResult(f)
         verdict == IF decoded = "ok" THEN MembersVerdict(at) ELSE decoded IN
     \/ /\ verdict = "ok"
        /\ total' = total + f.actual
        /\ at' = at + 1
        /\ UNCHANGED <<archive, limits, stage, verified, extracted, loopVars,
                       sinkVars>>
     \/ /\ verdict # "ok"
        /\ VerifyReturns(verdict)

\* No streamed member may be left in the iterator.
VerifyDone ==
  /\ stage = "verify"
  /\ at \notin DOMAIN archive.folders
  /\ VerifyReturns(
       IF Cardinality(Streamed(archive.members)) = SumFunction(SubCounts)
       THEN "ok" ELSE "internal")
-----------------------------------------------------------------------------
(***************************************************************************)
(* Archive::extract_entries_to                                             *)
(***************************************************************************)
Return(r) ==
  /\ extracted' = r
  /\ stage' = "done"
  /\ UNCHANGED <<archive, limits, verified, at>>

Member == archive.members[at]
Current == archive.folders[Member.folder]

\* Mutant: the loop does not move past a skipped member.
SkipMember_Stuck ==
  /\ stage = "members"
  /\ at \in DOMAIN archive.members
  /\ Member.kind \in {"dir", "anti"}
  /\ UNCHANGED vars

\* A directory or an anti-item: no sink event.
SkipMember ==
  /\ stage = "members"
  /\ at \in DOMAIN archive.members
  /\ Member.kind \in {"dir", "anti"}
  /\ at' = at + 1
  /\ UNCHANGED <<archive, limits, stage, verified, extracted, total, loopVars,
                 sinkVars>>

\* An empty file: begin_entry and finish_entry, each of which may fail.
EmptyFile ==
  /\ stage = "members"
  /\ at \in DOMAIN archive.members
  /\ Member.kind = "empty"
  /\ \/ /\ begun' = Append(begun, at)
        /\ finished' = Append(finished, at)
        /\ at' = at + 1
        /\ UNCHANGED <<archive, limits, stage, verified, extracted>>
     \/ /\ begun' \in {begun, Append(begun, at)}
        /\ Return("sink")
        /\ UNCHANGED finished
  /\ UNCHANGED <<total, loopVars, got>>

\* Some substream of the folder just left has no member.
LeftUnmapped ==
  folder # 0 /\ next # Len(archive.folders[folder].subs) + 1

\* Mutant: a folder's CRC is not checked before its members are handed out.
EnterFolder_NoCrc ==
  /\ stage = "members"
  /\ at \in DOMAIN archive.members
  /\ Member.kind = "stream"
  /\ folder # Member.folder
  /\ LET decoded == AccountedResult(Current) IN
     \/ /\ decoded = "ok"
        /\ total' = total + Current.actual
        /\ decodes' = [decodes EXCEPT ![Member.folder] = @ + 1]
        /\ folder' = Member.folder
        /\ next' = 1
        /\ offset' = 0
        /\ end' = 0
        /\ cursor' = 0
        /\ UNCHANGED <<archive, limits, stage, verified, extracted, at, delivered>>
     \/ /\ decoded # "ok"
        /\ Return(decoded)
        /\ UNCHANGED <<total, loopVars>>
  /\ UNCHANGED sinkVars

\* The first member of a folder: the folder is decoded and its CRC checked.
EnterFolder ==
  /\ stage = "members"
  /\ at \in DOMAIN archive.members
  /\ Member.kind = "stream"
  /\ folder # Member.folder
  /\ LET decoded == AccountedResult(Current)
         verdict == IF LeftUnmapped THEN "internal"
                    ELSE IF decoded = "ok" /\ Mismatch(Current.crc)
                         THEN Damage(Current, "checksum")
                    ELSE decoded IN
     \/ /\ verdict = "ok"
        /\ total' = total + Current.actual
        /\ decodes' = [decodes EXCEPT ![Member.folder] = @ + 1]
        /\ folder' = Member.folder
        /\ next' = 1
        /\ offset' = 0
        /\ end' = 0
        /\ cursor' = 0
        /\ UNCHANGED <<archive, limits, stage, verified, extracted, at,
                       delivered>>
     \/ /\ verdict # "ok"
        /\ Return(verdict)
        /\ UNCHANGED <<total, loopVars>>
  /\ UNCHANGED sinkVars

\* The checks on the member's range, in order.
RangeResult ==
  LET stop == SubEnd(Current, next, offset) IN
  IF Member.sub # next THEN "internal"
  ELSE IF Current.subs[next].size = Unknown /\ next # Len(Current.subs)
       THEN "unsupported"
  ELSE IF stop > Current.actual THEN "format"
  ELSE IF stop - offset > limits.entry THEN "limit"
  ELSE "ok"

\* A member of the folder already decoded: begin_entry.
BeginMember ==
  /\ stage = "members"
  /\ at \in DOMAIN archive.members
  /\ Member.kind = "stream"
  /\ folder = Member.folder
  /\ \/ /\ RangeResult = "ok"
        /\ begun' = Append(begun, at)
        /\ end' = SubEnd(Current, next, offset)
        /\ cursor' = offset
        /\ stage' = "chunks"
        /\ UNCHANGED <<archive, limits, verified, extracted, at>>
     \/ /\ RangeResult = "ok"
        /\ begun' \in {begun, Append(begun, at)}
        /\ Return("sink")
        /\ UNCHANGED <<end, cursor>>
     \/ /\ RangeResult # "ok"
        /\ Return(RangeResult)
        /\ UNCHANGED <<begun, end, cursor>>
  /\ UNCHANGED <<total, folder, next, offset, delivered, decodes, got,
                 finished>>

\* Mutant: every chunk has the full chunk size's distance to the next.
ChunkEnd_Whole == cursor + IoChunk

ChunkEnd == Smaller(cursor + IoChunk, end)

\* write_entry for one chunk.
WriteChunk ==
  /\ stage = "chunks"
  /\ cursor < end
  /\ got' = [got EXCEPT ![at] = Append(@, <<cursor, ChunkEnd>>)]
  /\ \/ /\ cursor' = ChunkEnd
        /\ UNCHANGED <<archive, limits, stage, verified, extracted, at>>
     \/ /\ Return("sink")
        /\ UNCHANGED cursor
  /\ UNCHANGED <<total, folder, next, offset, end, delivered, decodes, begun,
                 finished>>

\* Mutant: a member without bytes is not finalized.
FinishMember_SkipEmpty ==
  /\ stage = "chunks"
  /\ cursor = end
  /\ ~ Mismatch(Current.subs[next].crc)
  /\ finished' = IF end = offset THEN finished ELSE Append(finished, at)
  /\ delivered' = delivered + (end - offset)
  /\ offset' = end
  /\ next' = next + 1
  /\ at' = at + 1
  /\ stage' = "members"
  /\ UNCHANGED <<archive, limits, verified, extracted>>
  /\ UNCHANGED <<total, folder, end, cursor, decodes, begun, got>>

\* The member CRC, then finish_entry.
FinishMember ==
  /\ stage = "chunks"
  /\ cursor = end
  /\ \/ /\ ~ Mismatch(Current.subs[next].crc)
        /\ finished' = Append(finished, at)
        /\ delivered' = delivered + (end - offset)
        /\ offset' = end
        /\ next' = next + 1
        /\ at' = at + 1
        /\ stage' = "members"
        /\ UNCHANGED <<archive, limits, verified, extracted>>
     \/ /\ ~ Mismatch(Current.subs[next].crc)
        /\ Return("sink")
        /\ UNCHANGED <<finished, delivered, offset, next>>
     \/ /\ Mismatch(Current.subs[next].crc)
        /\ Return(Damage(Current, "checksum"))
        /\ UNCHANGED <<finished, delivered, offset, next>>
  /\ UNCHANGED <<total, folder, end, cursor, decodes, begun, got>>

ExtractDone ==
  /\ stage = "members"
  /\ at \notin DOMAIN archive.members
  /\ Return(IF LeftUnmapped THEN "internal" ELSE "ok")
  /\ UNCHANGED <<total, loopVars, sinkVars>>

\* A checkpoint fails: each folder of verify, each member and each chunk of
\* extraction has one.
Interrupt ==
  \/ /\ \/ stage = "additional" /\ at \in DOMAIN archive.additional
        \/ stage = "verify" /\ at \in DOMAIN archive.folders
     /\ VerifyReturns("interrupted")
  \/ /\ \/ stage = "members" /\ at \in DOMAIN archive.members
        \/ stage = "chunks" /\ cursor < end
     /\ Return("interrupted")
     /\ UNCHANGED <<total, loopVars, sinkVars>>

Step ==
  \/ VerifyAdditional \/ AdditionalDone \/ VerifyFolder \/ VerifyDone
  \/ SkipMember \/ EmptyFile \/ EnterFolder \/ BeginMember \/ WriteChunk
  \/ FinishMember \/ ExtractDone

Next == Step \/ Interrupt
-----------------------------------------------------------------------------
(***************************************************************************)
(* extract_entry: open_member, then finish with nothing in the way         *)
(***************************************************************************)

\* member_bounds and the length checks after it: the sizes before the member
\* must be known, its range must lie in the folder and not run backwards.
BoundsResult(f, k) ==
  IF \E j \in 1 .. k - 1 : f.subs[j].size = Unknown THEN "unsupported"
  ELSE IF f.subs[k].size = Unknown /\ k # Len(f.subs) THEN "unsupported"
  ELSE IF \/ SubEnd(f, k, SubStart(f, k)) > f.actual
          \/ SubEnd(f, k, SubStart(f, k)) < SubStart(f, k) THEN "format"
  ELSE IF SubEnd(f, k, SubStart(f, k)) - SubStart(f, k) > limits.entry
       THEN "limit"
  ELSE "ok"

\* Mutant: random access decodes with the allowance of one entry.
ExtractEntry_EntryAllowance(m) ==
  LET member == archive.members[m]
      f == archive.folders[member.folder]
      decoded == FolderResult(f, Smaller(limits.entry, limits.total)) IN
  IF member.kind = "empty" THEN "ok"
  ELSE IF member.kind # "stream" THEN "unsupported"
  ELSE IF decoded # "ok" THEN decoded
  ELSE IF BoundsResult(f, member.sub) # "ok" THEN BoundsResult(f, member.sub)
  ELSE IF Mismatch(f.subs[member.sub].crc) \/ Mismatch(f.crc)
       THEN Damage(f, "checksum")
  ELSE "ok"

ExtractEntry(m) ==
  LET member == archive.members[m]
      f == archive.folders[member.folder]
      size == f.subs[member.sub].size
      decoded == FolderResult(f, limits.total) IN
  IF member.kind = "empty" THEN "ok"
  ELSE IF member.kind # "stream" THEN "unsupported"
  ELSE IF size # Unknown /\ size > limits.entry THEN "limit"
  ELSE IF decoded # "ok" THEN decoded
  ELSE IF BoundsResult(f, member.sub) # "ok" THEN BoundsResult(f, member.sub)
  ELSE IF Mismatch(f.subs[member.sub].crc) \/ Mismatch(f.crc)
       THEN Damage(f, "checksum")
  ELSE "ok"
-----------------------------------------------------------------------------
FinishedSet == {finished[i] : i \in DOMAIN finished}

\* The file members, which produce sink events.
Files == {m \in DOMAIN archive.members :
            archive.members[m].kind \in {"stream", "empty"}}

\* The range of a member, from the declared sizes alone.
RangeOf(m) ==
  LET f == archive.folders[archive.members[m].folder]
      k == archive.members[m].sub IN
  <<SubStart(f, k), SubEnd(f, k, SubStart(f, k))>>

\* Consecutive chunks that cover a range exactly.
Covers(chunks, range) ==
  IF chunks = << >> THEN range[1] = range[2]
  ELSE /\ chunks[1][1] = range[1]
       /\ chunks[Len(chunks)][2] = range[2]
       /\ \A i \in 1 .. Len(chunks) - 1 : chunks[i][2] = chunks[i + 1][1]

\* "On error, no later member is started and the current member is not
\* finalized": the sink sees members in order, each finished before the next
\* begins, and a failed extraction leaves the last one open.
SinkSeesBrackets ==
  /\ \A i, j \in DOMAIN begun : i < j => begun[i] < begun[j]
  /\ \A i \in DOMAIN finished : finished[i] = begun[i]
  /\ Len(begun) \in {Len(finished), Len(finished) + 1}
  /\ Len(begun) # Len(finished) =>
       stage = "chunks" \/ extracted \notin {"none", "ok"}

\* A successful extraction finished every file, and the count it returns is
\* the number of bytes in their ranges.
OkIsComplete ==
  extracted = "ok" =>
    /\ FinishedSet = Files
    /\ delivered = SumFunction([m \in Streamed(archive.members) |->
                                  RangeOf(m)[2] - RangeOf(m)[1]])

\* Each folder is decoded at most once, and what the sink is given stays
\* within the limits, per entry and in total.
OutputWithinLimits ==
  /\ \A f \in DOMAIN decodes : decodes[f] <= 1
  /\ \A m \in DOMAIN got :
        got[m] # << >> =>
          got[m][Len(got[m])][2] - got[m][1][1] <= limits.entry
  /\ SumFunction([m \in DOMAIN got |->
                    IF got[m] = << >> THEN 0
                    ELSE got[m][Len(got[m])][2] - got[m][1][1]]) <= limits.total

\* The mapping errors of both operations ("out of order", "left folder
\* substreams unmapped", "folder substream has no mapped member", "do not
\* equal its root output size") never fire on a validated archive.
NoInternalError == verified # "internal" /\ extracted # "internal"

\* What extract_entries_to promises its sink: brackets in order, success only
\* for all files, and no failure that the validated archive cannot cause.
SinkIsServed == SinkSeesBrackets /\ OkIsComplete /\ NoInternalError

\* The slices of a member and the counters stay inside the decoded folder,
\* and the output inside the limits.
OutputIsBounded == TypeOK /\ OutputWithinLimits

\* An archive that verifies extracts: only the sink, or a cancellation or
\* work limit, can still make it fail.
VerifiedExtracts ==
  verified = "ok" => extracted \in {"none", "ok", "sink", "interrupted"}

\* A member that was finished in natural order can also be extracted alone.
FinishedIsExtractable == \A m \in FinishedSet : ExtractEntry(m) = "ok"

\* verify, extract_entries_to and extract_entry, three pieces of code, judge
\* an archive and its members alike.
OperationsAgree == VerifiedExtracts /\ FinishedIsExtractable
=============================================================================
