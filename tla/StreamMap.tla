------------------------------ MODULE StreamMap ------------------------------
(***************************************************************************)
(* From the raw SubStreamsInfo and FilesInfo to the validated model.       *)
(*                                                                         *)
(*   raw.rs       parse_substreams_info  how many sizes and digests the    *)
(*                                       file holds (RawStreams)           *)
(*   validate.rs  validate_streams       the packed streams of both        *)
(*                                       sections (PackRanges)             *)
(*                build_substreams       one step per folder, two cursors  *)
(*                                       into the shared vectors           *)
(*                collect_stream_mappings                                  *)
(*                validate_files         one step per file, two cursors    *)
(*                                                                         *)
(* The parser counts the sizes and digests of all folders in one way, the  *)
(* validator consumes them folder by folder in another.  A CRC is the name *)
(* of the place it was read from.                                          *)
(***************************************************************************)
EXTENDS PackRanges

CONSTANT RawArchives    \* the raw headers the parser may hand over

VARIABLES
  raw,            \* the raw header under way
  phase,
  result,
  spans,          \* ranges: what the packed data of the sections covers
  packRanges,     \* the range of each packed stream, by section
  firstPacks,     \* first_pack_stream of each folder, by section
  at,             \* the folder or file of the current loop
  sizeCursor,     \* size_cursor: sizes consumed
  crcCursor,      \* crc_cursor: digests consumed
  folders,        \* the folders built so far
  mappings,       \* collect_stream_mappings
  emptyCursor,    \* empty_cursor: EmptyFile and Anti bits consumed
  streamCursor,   \* stream_cursor: mappings consumed
  members         \* the files built so far

packVars == <<spans, packRanges, firstPacks>>

mapVars == <<raw, phase, result, packVars, at, sizeCursor, crcCursor, folders,
             mappings, emptyCursor, streamCursor, members>>

\* additional_streams and main_streams, in the order of their validation.
Sections == {"additional", "main"}

NoCrc        == <<"none", 0>>
FolderCrc(i) == <<"folder", i>>
Digest(i)    == <<"digest", i>>

\* Without NumUnpackStream every folder has one substream.
Count(r, i) == IF r.counts = << >> THEN 1 ELSE r.counts[i]

\* parse_substreams_info: all sizes but each folder's last are stored.
ExplicitSizes(r) ==
  [i \in DOMAIN r.folders |-> IF Count(r, i) = 0 THEN 0 ELSE Count(r, i) - 1]

ExplicitSizeCount(r) == SumFunction(ExplicitSizes(r))

\* parse_substreams_info: a single substream with a folder CRC has no digest
\* of its own.
OwnDigests(r) ==
  [i \in DOMAIN r.folders |-> IF Count(r, i) # 1 \/ ~ r.folders[i].hasCrc
                              THEN Count(r, i) ELSE 0]

DigestCount(r) == SumFunction(OwnDigests(r))

\* What the parser returns.  counts is empty when there is no SubStreamsInfo;
\* sizes and digests may be absent, otherwise they have the counted length.
RawStreams(r) ==
  /\ r.folders \in Seq([root : Sizes, hasCrc : BOOLEAN])
  /\ r.counts \in Seq(Nat)
  /\ Len(r.counts) \in {0, Len(r.folders)}
  /\ r.sizes \in Seq(Sizes)
  /\ r.hasSizes \in BOOLEAN
  /\ Len(r.sizes) = IF r.hasSizes THEN ExplicitSizeCount(r) ELSE 0
  /\ r.digests \in Seq(BOOLEAN)
  /\ r.hasDigests \in BOOLEAN
  /\ Len(r.digests) = IF r.hasDigests THEN DigestCount(r) ELSE 0
  /\ r.counts = << >> => ~ r.hasSizes /\ ~ r.hasDigests
  /\ r.header \in Nat
  /\ \A s \in Sections : SectionOK(r.pack[s])
  /\ Len(r.pack["main"].packs) = Len(r.folders)
  /\ r.hasFiles \in BOOLEAN
  /\ r.emptyStream \in Seq(BOOLEAN)

\* EmptyFile and Anti have one bit per empty stream, or are absent, which
\* reads as all false.
RawFiles(r) ==
  LET empty == Cardinality({i \in DOMAIN r.emptyStream : r.emptyStream[i]}) IN
  /\ r.emptyFile \in [1 .. empty -> BOOLEAN]
  /\ r.anti \in [1 .. empty -> BOOLEAN]

ASSUME RawArchivesAssumption ==
  \A r \in RawArchives : RawStreams(r) /\ RawFiles(r)

\* raw keeps the value RawArchivesAssumption is about.
MapTypeOK ==
  /\ phase \in Sections \cup {"build", "map", "files", "done"}
  /\ result \in {"none", "ok", "format", "unsupported", "overlap",
                 "interrupted", "internal"}
  /\ at \in 1 .. Len(raw.folders) + Len(raw.emptyStream) + 1
  /\ sizeCursor \in 0 .. Len(raw.sizes)
  /\ crcCursor \in 0 .. Len(raw.digests)
  /\ Len(folders) <= Len(raw.folders)
  /\ streamCursor \in 0 .. Len(mappings)
  /\ emptyCursor \in 0 .. Len(raw.emptyFile)
  /\ Len(members) <= Len(raw.emptyStream)
-----------------------------------------------------------------------------
MapInit ==
  /\ raw \in RawArchives
  /\ phase = "additional"
  /\ result = "none"
  /\ spans = << >>
  /\ packRanges = [s \in Sections |-> << >>]
  /\ firstPacks = [s \in Sections |-> << >>]
  /\ at = 1
  /\ sizeCursor = 0
  /\ crcCursor = 0
  /\ folders = << >>
  /\ mappings = << >>
  /\ emptyCursor = 0
  /\ streamCursor = 0
  /\ members = << >>

Return(r) == phase' = "done" /\ result' = r

Goto(p, k) == phase' = p /\ at' = k /\ UNCHANGED result

\* validate_streams up to the folders' drafts, for one section.  A section
\* without PackInfo and UnpackInfo has no packed streams.
AssignPacks(s, next) ==
  /\ phase = s
  /\ LET pack == raw.pack[s] IN
     \/ /\ ~ Paired(pack)
        /\ Return("format")
        /\ UNCHANGED <<at, packVars>>
     \/ /\ Paired(pack) /\ pack.streams = 0
        /\ Goto(next, 1)
        /\ UNCHANGED packVars
     \/ /\ Paired(pack) /\ pack.streams > 0
        /\ SectionVerdict(pack, raw.header) # "ok"
        /\ Return(SectionVerdict(pack, raw.header))
        /\ UNCHANGED <<at, packVars>>
     \/ /\ Paired(pack) /\ pack.streams > 0
        /\ SectionVerdict(pack, raw.header) = "ok"
        /\ spans' = WithSection(spans, pack)
        /\ packRanges' = [packRanges EXCEPT ![s] = Ranges(pack)]
        /\ firstPacks' = [firstPacks EXCEPT ![s] = FirstPacks(pack.packs)]
        /\ \/ AllAssigned(pack) /\ Goto(next, 1)
           \/ ~ AllAssigned(pack) /\ Return("format") /\ UNCHANGED at
  /\ UNCHANGED <<raw, sizeCursor, crcCursor, folders, mappings, emptyCursor,
                 streamCursor, members>>

\* The sizes build_substreams reads for folder i: all but the last.
StoredSizes(i) ==
  [k \in 1 .. Count(raw, i) - 1 |->
     IF raw.hasSizes THEN raw.sizes[sizeCursor + k] ELSE Unknown]

Total(sizes) == SumFunction(sizes)

AllKnown(sizes) == \A k \in DOMAIN sizes : sizes[k] # Unknown

\* The last size is what is left of the root, when all of it is known.
FinalSize(i, stored) ==
  IF raw.folders[i].root # Unknown /\ raw.hasSizes /\ AllKnown(stored)
  THEN raw.folders[i].root - Total(stored)
  ELSE Unknown

SubstreamSizes(i) ==
  CASE Count(raw, i) = 0 -> << >>
    [] Count(raw, i) = 1 -> <<raw.folders[i].root>>
    [] Count(raw, i) > 1 -> Append(StoredSizes(i), FinalSize(i, StoredSizes(i)))

Inherits(i) == Count(raw, i) = 1 /\ raw.folders[i].hasCrc

\* Mutant: the cursor moves once per folder, every substream gets the first
\* digest.
SubstreamCrc_First(i, k) ==
  CASE Inherits(i) -> FolderCrc(i)
    [] ~ Inherits(i) /\ raw.hasDigests ->
         IF raw.digests[crcCursor + 1] THEN Digest(crcCursor + 1) ELSE NoCrc
    [] ~ Inherits(i) /\ ~ raw.hasDigests -> NoCrc

\* The digest vector's entry for the k-th substream of the folder under way.
SubstreamCrc(i, k) ==
  CASE Inherits(i) -> FolderCrc(i)
    [] ~ Inherits(i) /\ raw.hasDigests ->
         IF raw.digests[crcCursor + k] THEN Digest(crcCursor + k) ELSE NoCrc
    [] ~ Inherits(i) /\ ~ raw.hasDigests -> NoCrc

\* The vectors are too short for the folder: an error the parser's counts
\* should rule out.
VectorsTooShort(i) ==
  \/ /\ raw.hasSizes /\ Count(raw, i) > 1
     /\ sizeCursor + Count(raw, i) - 1 > Len(raw.sizes)
  \/ /\ raw.hasDigests /\ ~ Inherits(i)
     /\ crcCursor + Count(raw, i) > Len(raw.digests)

\* Stored sizes that exceed the folder.
SizesExceedFolder(i) ==
  /\ Count(raw, i) > 1 /\ raw.hasSizes /\ raw.folders[i].root # Unknown
  /\ AllKnown(StoredSizes(i))
  /\ Total(StoredSizes(i)) > raw.folders[i].root

\* An inherited CRC takes no digest.
CrcCursorAfter(i) ==
  IF raw.hasDigests /\ ~ Inherits(i) THEN crcCursor + Count(raw, i)
  ELSE crcCursor

SizeCursorAfter(i) ==
  IF raw.hasSizes /\ Count(raw, i) > 1 THEN sizeCursor + Count(raw, i) - 1
  ELSE sizeCursor

\* validate_streams: one folder, its substreams built by build_substreams.
BuildFolder ==
  /\ phase = "build"
  /\ at \in DOMAIN raw.folders
  /\ \/ /\ VectorsTooShort(at)
        /\ Return("internal")
        /\ UNCHANGED <<at, sizeCursor, crcCursor, folders>>
     \/ /\ ~ VectorsTooShort(at)
        /\ SizesExceedFolder(at)
        /\ Return("format")
        /\ UNCHANGED <<at, sizeCursor, crcCursor, folders>>
     \/ /\ ~ VectorsTooShort(at)
        /\ ~ SizesExceedFolder(at)
        /\ folders' = Append(folders,
             [root |-> raw.folders[at].root,
              crc  |-> IF raw.folders[at].hasCrc THEN FolderCrc(at) ELSE NoCrc,
              subs |-> [k \in 1 .. Count(raw, at) |->
                          [size |-> SubstreamSizes(at)[k],
                           crc  |-> SubstreamCrc(at, k)]]])
        /\ sizeCursor' = SizeCursorAfter(at)
        /\ crcCursor' = CrcCursorAfter(at)
        /\ Goto("build", at + 1)
  /\ UNCHANGED <<raw, packVars, mappings, emptyCursor, streamCursor, members>>

\* Both vectors must be used up.  validate_plain_header goes on to compare the
\* two sections; without FilesInfo there is nothing to map.
BuildDone ==
  /\ phase = "build"
  /\ at \notin DOMAIN raw.folders
  /\ \/ /\ sizeCursor = Len(raw.sizes) /\ crcCursor = Len(raw.digests)
        /\ \/ Overlapping(spans) /\ Return("overlap") /\ UNCHANGED at
           \/ ~ Overlapping(spans) /\ raw.hasFiles /\ Goto("map", 1)
           \/ /\ ~ Overlapping(spans) /\ ~ raw.hasFiles
              /\ Return("ok")
              /\ UNCHANGED at
     \/ /\ ~ (sizeCursor = Len(raw.sizes) /\ crcCursor = Len(raw.digests))
        /\ Return("internal")
        /\ UNCHANGED at
  /\ UNCHANGED <<raw, packVars, sizeCursor, crcCursor, folders, mappings,
                 emptyCursor, streamCursor, members>>

\* collect_stream_mappings, and the comparison with the files that have a
\* stream.
CollectMappings ==
  /\ phase = "map"
  /\ mappings' = FlattenSeq([f \in DOMAIN folders |->
                    [k \in DOMAIN folders[f].subs |-> <<f, k>>]])
  /\ \/ /\ Len(mappings') = Cardinality({i \in DOMAIN raw.emptyStream :
                                           ~ raw.emptyStream[i]})
        /\ Goto("files", 1)
     \/ /\ Len(mappings') # Cardinality({i \in DOMAIN raw.emptyStream :
                                           ~ raw.emptyStream[i]})
        /\ Return("format")
        /\ UNCHANGED at
  /\ UNCHANGED <<raw, packVars, sizeCursor, crcCursor, folders, emptyCursor,
                 streamCursor, members>>

EmptyKind(j) ==
  CASE raw.anti[j] -> "anti"
    [] ~ raw.anti[j] /\ raw.emptyFile[j] -> "empty"
    [] ~ raw.anti[j] /\ ~ raw.emptyFile[j] -> "dir"

\* validate_files: one file takes the next empty-stream bits or the next
\* mapping.
AddFile ==
  /\ phase = "files"
  /\ at \in DOMAIN raw.emptyStream
  /\ \/ /\ raw.emptyStream[at]
        /\ members' = Append(members, [kind |-> EmptyKind(emptyCursor + 1),
                                       folder |-> 0, sub |-> 0])
        /\ emptyCursor' = emptyCursor + 1
        /\ UNCHANGED streamCursor
     \/ /\ ~ raw.emptyStream[at]
        /\ members' = Append(members,
             [kind |-> "stream",
              folder |-> mappings[streamCursor + 1][1],
              sub |-> mappings[streamCursor + 1][2]])
        /\ streamCursor' = streamCursor + 1
        /\ UNCHANGED emptyCursor
  /\ Goto("files", at + 1)
  /\ UNCHANGED <<raw, packVars, sizeCursor, crcCursor, folders, mappings>>

FilesDone ==
  /\ phase = "files"
  /\ at \notin DOMAIN raw.emptyStream
  /\ Return(IF emptyCursor = Len(raw.emptyFile) /\ streamCursor = Len(mappings)
            THEN "ok" ELSE "internal")
  /\ UNCHANGED <<raw, packVars, at, sizeCursor, crcCursor, folders, mappings,
                 emptyCursor, streamCursor, members>>

\* A failed checkpoint: the packed streams of a section, each folder, the
\* mappings and each file have one.
MapInterrupt ==
  /\ \/ phase \in Sections /\ raw.pack[phase].streams > 0 /\ Paired(raw.pack[phase])
     \/ phase = "build" /\ at \in DOMAIN raw.folders
     \/ phase = "map"
     \/ phase = "files" /\ at \in DOMAIN raw.emptyStream
  /\ Return("interrupted")
  /\ UNCHANGED <<raw, packVars, at, sizeCursor, crcCursor, folders, mappings,
                 emptyCursor, streamCursor, members>>

MapStep ==
  \/ AssignPacks("additional", "main") \/ AssignPacks("main", "build")
  \/ BuildFolder \/ BuildDone \/ CollectMappings \/ AddFile \/ FilesDone

MapNext == MapStep \/ MapInterrupt
-----------------------------------------------------------------------------
\* The digest of the k-th substream of folder i, by counting the digests that
\* precede it in the file.
DeclaredCrc(i, k) ==
  LET owns(j) == ~ (Count(raw, j) = 1 /\ raw.folders[j].hasCrc)
      before  == SumFunctionOnSet([j \in DOMAIN raw.folders |->
                                     IF owns(j) THEN Count(raw, j) ELSE 0],
                                  1 .. i - 1) IN
  IF ~ owns(i) THEN FolderCrc(i)
  ELSE IF raw.hasDigests /\ raw.digests[before + k] THEN Digest(before + k)
  ELSE NoCrc

\* A header that passes is the model extraction relies on: the substreams of
\* each folder cover its output, and the members with a stream are the
\* substreams in natural order.
ValidatedIsCovered ==
  result = "ok" =>
    /\ Len(folders) = Len(raw.folders)
    /\ \A f \in DOMAIN folders : FolderCovered(folders[f], NoCrc)
    /\ raw.hasFiles => /\ Len(members) = Len(raw.emptyStream)
                       /\ MembersCover(members, folders)

\* Each substream is checked against its own digest: the cursor of
\* build_substreams skips what parse_substreams_info did not store.
CrcIsItsOwn ==
  \A f \in DOMAIN folders : \A k \in DOMAIN folders[f].subs :
    folders[f].subs[k].crc = DeclaredCrc(f, k)

\* The count errors of the validator ("vector is too short", "vector has
\* unused values", "file property vectors have unused values") never fire on
\* what the parser counted.
CountsAgree == result # "internal"

\* The packed inputs that execution loads: folder and input of a section.
PackedInputs ==
  UNION {{s} \X (DOMAIN firstPacks[s]) \X (1 .. raw.pack[s].streams) : s \in Sections}
LoadedInputs ==
  {x \in PackedInputs : x[3] <= raw.pack[x[1]].packs[x[2]]}
LoadedRange(x) == Loaded(packRanges[x[1]], firstPacks[x[1]][x[2]], x[3])

\* Once validation is past the comparison of the sections, each byte of packed
\* data is read by at most one input of one folder, no input reads the stored
\* header, and no packed stream is left unread; a header refused for its
\* overlap does have two sections that share a byte.
PackedBytesHaveOneOwner ==
  /\ phase \in {"map", "files"} \/ result = "ok" =>
       /\ \A x, y \in LoadedInputs :
            x # y => Bytes(LoadedRange(x)) \cap Bytes(LoadedRange(y)) = {}
       /\ \A x \in LoadedInputs :
            /\ LoadedRange(x)[1] <= LoadedRange(x)[2]
            /\ LoadedRange(x)[2] <= raw.header
       /\ \A s \in Sections : \A k \in DOMAIN packRanges[s] :
            \E x \in LoadedInputs : x[1] = s /\ firstPacks[s][x[2]] + x[3] = k
  /\ result = "overlap" =>
       \E j \in DOMAIN packRanges["additional"], k \in DOMAIN packRanges["main"] :
         Bytes(packRanges["additional"][j]) \cap Bytes(packRanges["main"][k]) # {}

\* The parser's counts and the validator's cursors agree at every step: the
\* cursors stay inside what was parsed, no digest is lost or left over, and
\* each one lands on its own substream.
CursorsAgree == MapTypeOK /\ CrcIsItsOwn /\ CountsAgree
=============================================================================
