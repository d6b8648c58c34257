# A TLA+ verification of unpackio

unpackio reads 7z, ZIP, RPM, CPIO, Debian and ARJ archives and LZ4, Zstandard
and Unix compress streams, under explicit limits, a work budget and a
cancellation token, and hands the output to a caller who chooses where it goes.
It never trusts a declared size, checks every checksum it is given, and reports
errors in a small set of classes. This directory holds TLA+ models of its core
logic and of its Python binding, TLC configurations that check them on small
instances, and TLAPS proofs for all instances. Paths below are relative to
`src/crates/unpackio/src` unless they begin with `bindings/`.

## 1. Inventory

| Part | State it keeps | Operations | What makes it correct |
|---|---|---|---|
| Coder graph (`raw.rs`, `graph.rs`, `execute.rs`) | ports in use, indegrees, Kahn's queue, port contents | `parse_folder`, `validate_folder_graph`, `topological_order`, `decode_folder` | exactly the well-formed acyclic graphs are accepted; an accepted one runs as wired |
| Member reader (`archive.rs`) | position, slice, running checksum, budget | `read_chunk`, `finish`, `into_bytes` | the verdict is about the whole member, whatever failed before |
| Stream and file mapping (`raw.rs`, `validate.rs`) | ranges of packed streams; cursors over sizes, digests, mappings, empty-stream bits | `validate_pack_ranges`, `parse_substreams_info`, `build_substreams`, `collect_stream_mappings`, `validate_files` | parser and validator count alike; each packed byte has one reader, each member its own bytes and CRC |
| Verification and extraction (`archive.rs`) | current folder, offset, next substream, output totals | `verify`, `extract_entries_to`, `extract_entry` | `finish_entry` only for intact members; limits hold; the three agree |
| Volume assembly (`volume.rs`) | bytes so far, volume number | `read_sequential_volumes`, `read_single_volume` | nothing beyond the limits is read; a short read is an error |
| Opening (`archive.rs`, `parser.rs`, `metadata.rs`) | candidate, layer, decoded total | SFX scan, declared-bytes probe, header layers | what opens is complete; truncation is named; layers are bounded |
| LZ4 and Zstandard streams (`stream/`) | frame table; input consumed and charged, output, frame | `open_bytes`, `extract_to`, `pump_reader`, `ControlledInput::read` | the frames found are those written; success means every frame is intact; work is paid before it is delivered; cancellation ends it |
| Unix compress (`stream/unix_compress.rs`) | code table, width, bit buffer, group position | the LZW loop | table and width stay in step with the encoder's |
| ZIP (`zip/`) | directory cursor, entry table | open, `verify`, `extract_entry_to`, `extract_entries_to` | redundant copies of a field agree before one is used; entries do not overlap |
| CPIO, RPM (`cpio.rs`, `rpm/`) | record cursor, totals, header tags | the same | records end where they say; digests are checked before data is used |
| Debian (`deb/`) | ar cursor, tar cursor, pending overrides, output used | the same, and members | an override belongs to one entry; one output limit for both archives |
| ARJ (`arj/`) | scan position, header chain | the same | what verifies also extracts |
| Codecs (`decode/`) | windows, models, range coders, chunk state | decode | output equals what the encoder read |
| Cancellation, budget, limits (`cancel.rs`, `limits.rs`) | a shared flag, a counter | `check`, `charge`, `cancel` | every loop looks at both |
| Paths (`path.rs`) | none | `validate_safe_path` and its UTF-16 twin | a safe path stays below its directory on every platform |
| Python binding (`bindings/python/src`) | interpreter lock, callback error, snapshots | every exported function and method | error identity, cancellation from a callback, faithful snapshots |

The parts interact by calls in the caller's thread. The volume provider, the
reader, the writer and the sinks are the caller's and may fail at every call.
Only the cancellation token is shared with other threads. Nothing is persisted,
so that there is no crash recovery to model. The hard behaviours are:

* a failed checkpoint, sink call or provider call between any two steps of a
  loop, and the state it leaves for a retry;
* two passes over the same data in different code (parser and validator,
  `verify` and `extract_entries_to`, probe and scan, central and local record)
  that have to agree;
* counts, sizes and cursors at zero, at one, at the last element, and unknown;
* state that one record, chunk or folder leaves for the next;
* a token that changes between a look at it and the use of what was seen;
* a Python callback that raises, refuses, writes short or cancels;
* budgets and limits shared by several steps.

`PROJECT.json` lists each at its line under "hazards".

## 2. Modules

| Module | Models | Uses |
|---|---|---|
| `FolderGraph`, `FolderGraphProofs` | a raw folder through validation, ordering and execution; its theorems | |
| `MemberReader` | the pull reader of one member (its theorems are in `ArchiveOpenProofs`) | |
| `ArchiveModel` | the validated 7z archive, and what validation promises of it | |
| `PackRanges` | the packed streams of a section: their ranges, the folders that read them, overlap | `ArchiveModel` |
| `StreamMap` | from the raw header to that archive | `PackRanges` |
| `Extraction` | `verify`, then `extract_entries_to`, on that archive (its theorems are in `ValidatedArchiveProofs`) | `ArchiveModel` |
| `ValidatedArchive`, `ValidatedArchiveProofs` | both, composed: from the raw header to the sink; the theorem on the handover | `StreamMap`, an instance of `Extraction` |
| `VolumeSet` | a provider's volumes put together | |
| `ArchiveOpen`, `ArchiveOpenProofs` | from the volumes to an open archive; its theorems, and those of the reader | `VolumeSet`; the proofs also `MemberReader` |
| `StreamFrames` | `detect_format` and the frame parsers of LZ4 and Zstandard | |
| `StreamPump`, `StreamPumpProofs` | opening and `extract_to` of a standalone stream, its decoder and its input; theorems | `StreamFrames` |
| `Lzw` | LZW over whole strings, an abstract specification | |
| `UnixCompress`, `UnixCompressProofs` | `decode_lzw` with its code reader and output buffer; implements `Lzw` | `Lzw` |
| `CompressEncoder` | what compress(1) writes (external) | |
| `EntrySink` | what a sink may rely on, an abstract specification | |
| `Package` | what the five package readers share: open by path or bytes, the record loop, the extraction loop and the sink | |
| `Codec` | payload codecs by their result; gzip framing | `Package` |
| `Lzma2`, `Xz` | LZMA operations in LZMA2 chunks; XZ framing, blocks and index | `Codec` |
| `Cpio`, `Rpm`, `Deb`, `Arj`, `Zip` | one reader each | `Codec`, `Xz`; `Rpm` also `Cpio` |
| `Packages`, `PackagesProofs` | the five readers together, and their properties; theorems | all of them, an instance of `EntrySink` |
| `Lzma2Encoder` | what the encoders of the format write (external) | `Lzma2` |
| `SafePath` | the path policy, and what it means to leave a directory | |
| `PythonObjects` | the snapshots, headers, stream information and limits Python sees | `SafePath` |
| `PythonApi` | the exported calls: arguments, callbacks and what the core does in each | `PythonObjects` |
| `PythonBridge`, `PythonBridgeProofs` | Python threads in those calls; its theorems | `PythonApi` |
| `NaturalLemmas` | facts about naturals, finite sets, counting and sums that several proofs need | |
| `MC*` | the instances for TLC | |

`ArchiveModel` is the contract between `StreamMap` and `Extraction`.
`ValidatedArchive` runs the one and then the other on the same archive, so that
the contract is a property of the composition (`HandoverIsSound`) and not an
assumption of the second part. `ArchiveOpen` extends `VolumeSet`: what the first
assembles is what the second scans. `Packages` refines `EntrySink`
(`ImplementsSink`), `UnixCompress` refines `Lzw` (`ImplementsLzw`).

### How state and actions correspond to the code

* **Control is kept, data is abstracted.** Each loop of the code is an action
  and an index; each early return is a value of `result`. A checkpoint that
  fails is `Interrupt`, enabled wherever the code has one. `MemberReader`,
  `StreamPump` and `PythonBridge` have the token as state, the first two also the
  budget, for there they interact with the rest.
* **Decoders are deterministic.** What a coder produces, whether a CRC will
  match and whether a folder is damaged are fixed once for an archive (`facts` in
  `ValidatedArchive`). In `FolderGraph` a stream is named by where it came from
  (`Packed(j)`, `Output(c)`), so that "decoded as wired" is about identity. A CRC
  in `StreamMap` is the name of the place it was read from; it matches only the
  substream it was stored for.
* **Sizes are small numbers**, and `Unknown` is the `None` of an optional size.
  Sums that overflow in the code return an error; where that matters
  (the end of a header range) the model has an `Overflow` value.
* In `decode_folder` an output is `take`n for its consumer. `FolderGraph` gives
  the output to the port `BoundTo` it; that the port is free is `NoInternalError`.
* **Packages are sequences of cells.** A cell is a byte of data, a zero, or a
  whole record (a tar header, a central record) with the fields the reader looks
  at; its width in cells stands for its width in bytes, so that offsets, padding,
  truncation and overlap are about positions as in the code. A reader parses
  what `MCPackages` packed; `input.packed` is what was packed, and the readers
  never look at it.
* **LZMA.** The range coder is adaptive: a symbol is decoded correctly exactly
  when the decoder has seen the same symbols in its context as the encoder. An
  operation carries what its encoder had seen there (`seen`), and `Lzma2` compares
  that with its own history. `CodedAs`, the symbols of an operation and their
  contexts, is common to both sides, so that the runs test what the chunks do to
  the contexts, not the contexts themselves; a matched literal has contexts of
  its own.
* The library decoders of `StreamPump` are external. A frame record says what a
  decoder will produce, how much input it leaves and how it fails. It asks for
  input by `Read::read`, which passes an error on, or by `Read::read_exact`,
  which asks again after `Interrupted`; both are ordinary uses of a `Read`.
* `UnixCompress` has the size of a byte as a constant. All other sizes of the
  format follow from it as in the code: `2^ByteBits` literals, codes of
  `ByteBits + 1` to `2 * ByteBits` bits, groups of `ByteBits` codes. The payload
  is its sequence of bits. It implements `Lzw` under this mapping: the string of
  a code is the chain of its prefixes, and a code counts as decoded once its
  expansion is complete, although it is copied to the writer in pieces and enters
  the table after that (`AbstractTable`, `AbstractLast`).
* **Python.** A thread of `PythonBridge` is in one call of `PythonApi`: it checks
  its arguments, releases the interpreter lock, runs the core, which asks for
  callbacks according to the call's plan, and takes the lock back for each of
  them and at the end. The core is external here; that it may fail anywhere, and
  that it stops at the first error of a callback, is what the other modules show.
* Indices start at 1. History variables (`begun`, `got`, `finished`, `decodes`
  in `Extraction`, `history` in `PythonBridge`) record what the sink or the caller
  saw and influence nothing.

The definitions named `X_Variant`, each below a comment "Mutant", are wrong
versions of `X`. No specification uses them. With `X` replaced by one of them,
TLC finds the property violated that `PROJECT.json` names: the property depends
on what the code does.

## 3. Runs

| Run | Instance | States | Shows |
|---|---|---|---|
| `folder_graph` | every raw folder with up to 3 coders, 4 inputs, 3 outputs | 461,379 | acceptance is exactly well-formedness; execution follows the wiring and ends |
| `member_reader` | members to 6 units, budgets to 9, chunks of 2 in slices of 4 | 317,796 | verdicts are true after failures and retries; calls return |
| `validated_archive` | raw headers with up to 2 folders of up to 2 substreams, with every wrong CRC, damage, encryption and limit, and every layout of up to 2 packed streams beside an additional section | 286,284 | from the header to the sink: each file its bytes and its checksum, the limits, agreement of the three operations |
| `archive_open` | all cuts into up to 3 volumes, SFX with a decoy, header chains | 327,479 | completeness, truncation, bounds on input and metadata |
| `stream_pump` | streams of 1 to 3 frames, cut anywhere; all damages, 4 settings of budget and limits | 513,668 | frames are found where they were written; integrity, honest blame, paid work, termination |
| `unix_compress` | bytes of 2 bits; compressed texts, and every payload of 2 or 6 bytes | 313,375 | no internal error, round trip, refinement of `Lzw` |
| `packages` | CPIO, RPM, Debian, ARJ and ZIP packages, each whole, cut, extended, changed in one place, or under one tight limit | 214,290 | what was packed is read, damage does not pass, limits hold, refinement of `EntrySink` |
| `python` | every method while another thread cancels, pairs of calls with one token, names to 4 characters, RPM headers to 3 tags; writes of at most 2 bytes | 258,363 | what Python sees is what happened; calls return |
| `open_decoys` | as `archive_open` | | violated: finding 1 |
| `open_encrypted` | as `archive_open` | | violated: finding 2 |
| `pump_cancel` | as `stream_pump` | | violated: finding 3 |
| `lzma2_resets` | one XZ entry with two dictionary resets | | violated: finding 4 |

**The properties.** A property that is a conjunction of named parts is one
property of its run; its parts are named in parentheses.

* `folder_graph`. `AcceptedIsWellFormed` and `RejectedIsMalformed` compare the
  outcome with a definition that does not mention Kahn's algorithm: ports are
  used at most once and a rank function orders the coders. `DecodedAsWired`
  says that each coder received the streams that bind pairs and packed indices
  name, in port order. `NoInternalError` makes the "cannot happen" errors
  unreachable.
* `member_reader`. `VerdictIsTrue`: `finish` returns success only for intact
  data and a checksum error only for damaged data, although a read that failed
  inside a slice has fed bytes that the position does not count.
  `FailedReaderNeverJudges` is the reason: such a reader cannot reach a verdict.
* `validated_archive`. `HandoverIsSound`: the validator never runs out of what the
  parser stored (`CountsAgree`), no substream is checked against a
  neighbour's CRC (`CrcIsItsOwn`), and what validation accepts
  satisfies the contract of `ArchiveModel` (`ValidatedIsCovered`).
  `PackedBytesHaveOneOwner`: in an accepted header each byte of packed data is
  loaded by at most one input of one folder, main or additional, never from the
  stored header, and each packed stream by some input; a header refused for overlap
  has two sections that share a byte. `ChecksumsDecide`: an entry is
  finished only if the checksums the raw header gave it match
  (`FinishedIsIntact`), and an entry or folder is blamed only if one does not
  (`BlameIsTrue`). `SinkIsServed`: `begin_entry` and `finish_entry` alternate,
  success means that every entry was finished, and no internal error is reached
  (`SinkSeesBrackets`, `OkIsComplete`, `NoInternalError`). `OutputIsBounded`: the
  limits hold over several folders. `OperationsAgree`: `verify`, the batch and the
  single-member call agree (`VerifiedExtracts`, `FinishedIsExtractable`).
* `archive_open`. `OpenedIsComplete`; `FailureNamesItsCause` (`TruncationIsNamed`,
  `EncodedHeaderFailureIsAmbiguous`); `OpenIsBounded` for input and metadata.
* `stream_pump`. `OpenedIsWhatWasWritten`: a stream that opens has the frames
  that were written, at their offsets, with look-alike magic numbers inside
  skippable frames and cuts at every place. `OkIsIntact` is the promise in
  `extract_to`'s documentation; `BlamedFrameIsBad` says that cancellation or
  accounting never appears as a damaged frame; `PumpIsBounded` that input and
  output are charged before they are delivered (`WorkIsPaid`) and that neither a
  limit nor a declared size is passed (`OutputIsBounded`).
* `unix_compress`. `DecodesInBounds`: what compress wrote is never called malformed
  and comes back (`RoundTrips`), which fails as soon as one side widens, drops the
  rest of a group or resets one code earlier than the other. `ImplementsLzw` holds
  for arbitrary payloads as well, with `NoInternalError` for the errors of the
  traversal (a cycle, an unavailable prefix).
* `packages`. `ReadsWhatWasPacked`: a well-formed package under ample limits lists
  the names (of DEB also the links) and yields the bytes that were packed, whichever
  optional forms it uses, with one exception that the property states (`AsListed`): a
  name or link in a GNU long value loses the newlines at its end. The cases have
  names and links that end in newlines, hold one in the middle or end in none, in
  headers, pax records and long values.
  `DamageNeverPasses`: one change to anything the package holds a second copy or a
  checksum of fails open or verify (`DamageIsNoticed`) and never reaches a sink as
  a finished entry (`NoSilentCorruption`). `EntriesAreDisjoint` and `LimitsHold`
  (`WithinLimits`, `OpenedIsAdmitted`) are about every input, also those put
  together against the rules. `OperationsAgree` as above. `ImplementsSink`: the five
  loops implement the one protocol of `EntrySink`. `RoundsAdvance`: no record,
  whatever its fields say, leaves a parser where it was.
* `python`. `RaisedIsTruthful`: an exception is the one the callback raised, or the
  class of the core's error, and a cancellation is raised only if somebody
  cancelled; `OkIsComplete`: a call returns normally only after all callbacks it
  owed returned normally; `SnapshotsAreFaithful`: names, safety verdicts, header
  tags, stream information and limits that Python sees are those of the core;
  `CallsReturn`: no order of locks and callbacks keeps a call from returning.

**Why the bounds suffice.** Three coders are the fewest with a chain in which an
inner coder has both a producer and a consumer, and with cycles of length two and
three; four inputs allow a coder with several. Two folders and two substreams
give first, middle and last positions and a reset between folders; with one
folder everything that may be wrong is tried, with two one thing at a time, for
folders share only the totals and the cursors. Two packed streams of sizes from
zero to beyond the header, at three positions, lie in front of, behind and across
an additional section. Chunks are
smaller than slices and slices smaller than members, so that the last of each is
short, or empty. Limits and budgets are chosen below, at and above what the
instance needs. Two header layers with a depth limit of one and three, and a
layer that decodes to itself, reach the limit and the total. Bytes of two bits
give codes of three and four bits and tables of 8 and 16 codes: texts of 24
symbols fill both, widen in mid-group, and go on with a full table; CLEAR comes
at the first code, in mid-group and twice in a row. Six bytes of arbitrary bits
reach the code that is not in the table yet, before and after CLEAR. A package has
one to three entries: an entry with a neighbour on each side, an override in
front of the entry it belongs to and one behind it. Each package is changed in
every cell once; two changes at once may cancel out, as they may in the code.
Two threads suffice for the binding: the token and the lock are all they share.

**Fairness.** `WF_vars(Step)` (`Work` in `MemberReader`, one for each thread in
`PythonBridge`): the caller's thread keeps running and every call it makes to a
provider, writer, sink or decoder returns. Nobody has to call, retry or cancel.
`Packages` states no fairness: `RoundsAdvance` gives a measure that every step
decreases, deadlock is checked, and `Returned` is the only step that repeats.
`UnixCompress` is checked for safety only: each code takes bits from a finite
payload. Where deadlock checking is off, `Terminates`, `CallsReturn` and
`RunsToTheEnd` say that an operation ends where it should.

**Findings.**

1. `open_volumes_inner` runs `archive_declares_more_bytes` before the scan. An
   error of that probe on a decoy's start header is returned at once, and a decoy
   that declares more bytes turns a later failure into a missing volume, although
   the scan would have passed over the decoy. `THREAT_MODEL.md:298` says a decoy
   does not mask a later archive.
2. `verify_decoded_additional_folder` reports a short output of an encrypted
   folder of undeclared size as a format error. `SECURITY.md:372` classifies such
   failures as `WrongPasswordOrCorrupt`, and the encoded header is handled so.
3. `ControlledInput::read` reports cancellation as `ErrorKind::Interrupted`, which
   `Read::read_exact` retries. If the token is cancelled while a decoder is in
   `read_exact`, the call never returns and no work is charged. `RunsToTheEnd`
   holds as long as nobody cancels; `CancelledReturns` does not.
4. `Output::previous_byte` of the LZMA decoder returns the last byte of the whole
   output even if the dictionary has just been reset. The encoders code the first
   literal behind a reset with a previous byte of zero, so that the two sides
   train different contexts and a later literal comes out wrong.
   `COMPATIBILITY.md:206` says LZMA2 is supported with resets.

**Observations**, about which no document says the opposite plainly enough for a
finding:

* `extract_entry_to` of CPIO and ARJ holds an entry against the limit of one entry
  only; `limits.rs:153` calls `max_total_output_bytes` the "maximum decoded bytes
  across an operation", and ZIP applies it. `WithinLimits` is stated accordingly.
* The names of ZIP Unicode path fields are not held against the name limits;
  `WithinLimits` counts a name as it is encoded.
* A legacy LZ4 frame cut between two blocks opens as a shorter stream: the format
  has no end mark.
* `parse_long_value` cuts NULs and newlines off the end of a GNU long value
  (`deb/tar.rs:544`), so that a name that ends in a newline, which may be packed, is
  listed without it; one of newlines only makes `open` fail. Headers and pax
  records keep such names. `deb/mod.rs:210` documents `raw_name` as "the
  byte-preserving tar path", and `README.md:141` speaks of "byte-preserving tar
  entries".
* LZMA in a ZIP entry without the end mark is decoded up to the declared size;
  neither what the stream codes after that nor bytes behind it are looked at
  (`decode_zip_lzma`). `ReadsWhatWasPacked` and the limits are checked for such
  entries; `DamageNeverPasses` tries no covered change on them.
* A Python writer that returns `True` is taken to have written one byte, and
  `stream.rs` of the binding labels its errors "7z".

## 4. Proofs

The theorems hold for every value of the constants, and so for every coder graph,
every member, every raw header and every set of volumes, not only those of the
runs. Each invariant below was first checked by TLC on the instance of its run.

**`NaturalLemmas`** has the inductions the other modules need. The prover cannot
instantiate an induction rule that takes a predicate, so each induction is stated
about a set: a set of naturals that contains 0 and is closed under successor has
all of them (`SetInduction`), a nonempty one has a least element
(`LeastElement`), a family of finite sets closed under adding an element has all
of them. From these follow how to number a finite set, and how
`SumFunctionOnSet`, defined by a fold with a choice, behaves on disjoint unions,
on pointwise larger functions and on a member taken out.

**`FolderGraphProofs`**, from `FoldersAssumption` (a folder is what `parse_folder`
returns): `GraphTypeOK`, `GraphAccepted`, `GraphNoInternalError` and
`GraphDecodedAsWired`. None of these is inductive. The invariant `IInv` follows
the phases of the code:

* `PairsInv` and `PackedInv`: the used ports are those of the pairs and packed
  streams handled so far, each once;
* `SeedInv`, `KahnInv`: the indegree of a coder is the number of its unmet
  dependencies, `Cardinality(Unmet(c))`; a coder is queued exactly when it
  has none; the queue has no repetitions;
* `OrderInv`: when the queue has as many entries as there are coders, it is a
  permutation of them in which producers come first. The position in it is the
  rank that `WellFormed` asks for (`OrderIsComplete`, `OrderIsRank`);
* `PortsEmpty`, `LoadInv`, `RunInv`, `FinishInv`: a port holds the stream
  wired to it from the step of its producer to the step of its consumer.

`GraphRejected` is the converse of `GraphAccepted`: a folder that is turned away
has no rank function. If Kahn's queue ends early, some coder of the others has the
least rank among them (`LeastElement`); its dependencies are all in the queue, so
its indegree is 0 and it was queued. The errors before that follow from a port
used twice or, where the count of packed streams is wrong, from counting the ports
(`NumberedSet`).

**`UnixCompressProofs`**, from `ByteAssumption`, `InputsAssumption` and
`PowersAssumption`: `DecoderNoInternalError`, for bytes of any size, so also of
eight bits, and every payload. `IInv` says that a prefix is a smaller code than
its entry (`PrefixesInv`), that an accepted code is at most the next entry
(`AcceptedInv`), and that during a traversal `traversed + code` stays below
`nextCode` (`ChainInv`). The hard case is the full table: there the next entry
cannot become available, and no code reaches it, for a code has at most
`maxBits` bits (`WidthBound`). `PowersAssumption` is the monotony of `2^n`,
which would need an induction; TLC evaluates it in the run.

`DecoderImplementsLzw` is the refinement, again for every payload, with
`ChunksAssumption` besides. `Chain` is recursive, but no induction over it is needed:
there is such a function (`ChainExists`, counting up to the table's size), a
counterexample to what is said of the strings would have a smallest code, and its
prefix is smaller (`ChainType`, `ChainFrame`). `MeaningInv` says what the parts of the
decoder mean: while a chain is traversed, the string of the code it has come to
and the expansion backwards are together `StringOf` the code that was read, and
between two codes `firstChar` is the first symbol of the previous string. It is what
makes the code that the table lacks come out right: the expansion starts with the
first symbol of the previous string, and the traversal ends at the same symbol
(`EndMeaning`). `BufferInv` keeps room in the buffer. Then `EndChain` and an accepted
`FirstLiteral` are `Decode`, `Clear` is `Reset`, and every other step leaves LZW where it is:
`AddEntry` enters what counted as learned before (`EntryStutters`), copying and
flushing move symbols within the text (`TextMoves`).

**`ArchiveOpenProofs`**, from `VolumeAssumption` and `RequestAssumption`:
`OpenBounded`, `OpenedComplete` and `FailureNamed`, for any volumes, candidates,
header layers and limits. `CopyInv`: the volume being copied was admitted by both
limits and ends where the provider said, also while it is read in pieces.
`DecodeInv`: the folders decoded so far fit into the allowance of the layer, and
the layers together into the limit. `ChosenInv`: the candidate was accepted with the
bytes that are still there, and no encoded header is taken for the archive.
`NeedsInv` relates `needs_more`, computed before the archive is opened, to the
bytes it was computed from: a later failure is named after it.

The same module holds the proofs about `MemberReader`, from `SizesAssumption`:
`ReaderTyped`, `ReaderVerdict` and `ReaderFailure`. `ReaderIInv` adds what is true between calls (`NoSliceBetweenCalls`) and that a
reader that gave up inside a slice has lost for good what a verdict needs (`Doomed`):
the token stays cancelled, and the budget stays below what the rest of the member
costs.

**`PythonBridgeProofs`**, from `BridgeAssumption`: `RaisedTruthful`, for any number
of threads, whatever they call and whoever shares a token with whom. `ThreadInv`
says of a thread what will be true of its exception (`Truth`) already of the
error the core returned and, for an entry sink, of the answer that
`finish_callback` has yet to look at (`AnswerInv`). A step of one thread touches
nothing of another but the tokens, and those only grow (`Local`), so that the
proof is about one thread at a time. `OkComplete`, for any number of members of
any size: `PlanOK` says what the plan of a call hands out, begins and finishes
from its first callback to its last (for `extract_entries_to` by the sums
`SizeBefore` and `CallsBefore` of the entries in front); `ProgressInv`, that Python has
been given exactly what the callbacks in front of the current one give (`Start`,
`Begun`, `Ended`), and of the current one the part that `write_all` has placed.
`SnapshotsFaithful` rests on lemmas about the operators: the walk along a path
without a parent component never leaves the directory it starts from
(`LevelsFound`, `NoParentNoClimb`), and the characters that lossy decoding
replaces decide no verdict (`LossyVerdict`), so that the name and the raw name escape
together; a dict made of the items of a header one after the other has for
each key the value at its last place (`DictLemma`), which is where `value()` looks,
and naming the tags keeps the places apart (`NamedIsDict`); the fold of the builder's methods is
the limits it was given and the defaults (`LimitsLemma`). `SnapshotInv` ties them to
the calls: a thread has been told only of entries of its own call, and its result is a
snapshot only if it asked for one.

**`ValidatedArchiveProofs`**, from `RawArchivesAssumption` (what the parser
returns), `FactsAssumption` and `ChunkAssumption`: `HandoverSound`, for headers with
any number of folders, substreams and files. The parser and the validator walk
over the same folders in different code, one to count and one to take:

* `FoldersInv`, `BuildInv`: the cursors into sizes and digests are the
  sums of what the parser stored for the folders before (`PrefixSum`,
  `SizesStored`, `DigestsStored`), so that none runs out or takes a neighbour's;
  a folder built so far is covered by its substreams (`NewFolderBuilt`);
* `MappingInv`: the mappings list folder and substream pairs in order, each at the
  position that the sums of the counts give it (`FlattenPairs`);
* `FilesInv`, `PlacesInv`: the streamed files seen so far hold the first
  mappings, by their rank among the files; at the end none is left over, which is
  what `MembersCover` says (`MembersAreCovered`);
* `OpenInv`: the archive of the operations stays the one that was opened.

`PackedOwned` adds `PackInv`: `ranges` has one span for each section that was
assigned and has bytes, and the packed streams of such a section lie one behind the
other in its span, as many as the folders' inputs (`RangesApart`; `PackInputs`,
which counts the inputs in front of each folder). With two spans sorting and comparing
neighbours is comparing the sections (`OverlappingTwo`, `SpansCompared`), so that two
inputs that share a byte would be of one section and the same place in it.

The second half of the module is about extraction, from the same assumptions: `ExtractionBounded`,
`SinkServed`, `OperationsConsistent` and `ChecksumsHold`, for archives of any size,
any limits, any damage of the data and a sink that may fail at every call. `IInv` above gives the archive; on it stand `BoundInv`,

* `OrderInv`: the loop over the members has passed exactly those whose place lies
  before `<<current_folder, next_substream>>`. With the one-to-one mapping of the
  handover it follows that the member that comes up is the next of its folder and
  that a folder that is left has none unmapped (`NextIsUp`, `NothingUnmapped`):
  the internal errors cannot fire;
* `PositionInv`, `ChunkInv`: `folder_offset` is the sum of the sizes passed, and the
  slice being written ends where its substream ends, inside the decoded folder;
* `WrittenInv`: what was written to all members and what the decoded folder still
  holds ahead come to at most `total_output` (`SumChange`), which the accounting
  keeps within the limit; each member alone stays within the limit of an entry;

`ServedInv`: `BracketInv` (what the sink has seen is what was finished, with at
most one member open), `CountInv` (finished are the files before the loop, and
`delivered` is the sum of their ranges) and `IteratorInv` (the iterator of `verify`,
which runs over the members, yields for each substream the member that has it;
`OpenIterator` proves it from the ranks of `PlacesInv` when the archive opens). That
`folder_decode_maximum` never sees substreams that do not add up to the root is
`KnownFolder`;

and `AgreeInv`: `verify` has accounted for all folders up to its own and found
nothing wrong with them (`Passes`), extraction only for those it entered, so that
its running total is never ahead. A folder that decodes within an allowance decodes
within a larger one (`ResultGrows`), and the last substream, when its size is
unknown, gets no more than an entry may have (`FinalSlice`): what `verify` accepted is
accepted again, and so is by `extract_entry` what extraction has finished.

`ChecksumsHold` goes back to the raw header. `LinkInv`: what is open is what
validation built, and the data it was opened with. `CoverInv`: the chunks of a member
follow each other, and those of a finished one cover its range. `BlameInv`: a
checksum or password result has a folder that does not decode or a CRC that does not
match. A finished member can be extracted alone (above), so its folder decodes and its
CRCs match; counting in the header finds its substream (`DeclaredPlaceIs`, from the
ranks of `PlacesInv` and the order of the mappings) and the range of that
(`DeclaredRangeIs`, from the stored sizes that `Built` keeps).

**`StreamPumpProofs`**, for every input whose fields are not negative (`CellOK`: they are
read from unsigned bits), all budgets, limits and chunk sizes, decoders that produce,
leave and fail as they please, and a token cancelled between any two steps:
`PumpBounded`, `OkIntact` and `BlamedBad`. `PumpInv` is:

* `TableInv`: each row of the frame table is well formed. That `Parse` returns no other
  is proved from the parsers (`ParseType`): each is a scan that at every place stops
  or goes on further behind, so that the recursion has a solution (`ScanExists`) and
  what every place preserves holds at the front (`ScanInduction`, on the distance to
  the end);
* `PlaceInv`, `FinishedInv`: the loop of `extract` stands at a frame of the table, all
  frames in front of it are intact, and `checksums` is the number of those that have
  one;
* `OutputInv`: `start` is the sum of the outputs of the frames in front, and what is
  written and in the buffer since then is what the decoder produced;
* `InputInv`, `PaidInv`: what the decoder was given is charged up to the `delta` of the
  bytes in the buffer, and `spent` covers the input and output of all frames in front,
  the input charged and the output written or paid ahead. The first chunk of a
  buffer carries the charge for its input, so that the two differ between
  `ReadOutput` and the first `ChargeChunk`;
* `LimitInv`: a buffer about to be written fits;
* `ResultInv`: `OkIsIntact` and `BlamedFrameIsBad` themselves. That the last check of
  `extract_to`, of the declared against the written size, never blames a frame is
  `DonePump`: the declared sizes of intact frames add up to what was written.

**`PackagesProofs`**, for the five package readers, from `CasesAssumption`: an input is
any sequence of cells in any of the five formats, well formed or not, with any limits. All
that is assumed of a cell is that the fields the code reads into unsigned integers hold
naturals, that names, pax values and filter lists are sequences, and that a stream inside
it decodes to cells again. One inductive invariant, `Inv`, serves three theorems, and with
`Limited` a fourth:

* `EntriesLieApart`: the entries of an opened archive lie inside the bytes that it keeps
  and share none. In CPIO, RPM, ARJ and tar it is because the parser only goes forward:
  each entry ends at the place of the parser or before it (`BehindEachOther`), and starts
  there when it is listed. In Debian it holds for each section (`DebEntryOK`). In ZIP, whose fields
  say where an entry is, it is the last check of `open` (`ZipNonOverlapping`) with
  `ZipEntryOK`, which ties the place and end that are compared to the range that is
  read: the local header is in front of the data, the descriptor behind it, and the
  directory ends inside the input (`ZipDirectoryHolds`);
* `RoundsGoForward`: each round that does not end its stage goes forward, in the input, in the
  section that is being parsed, in the listing or in the entry being written. What is added
  to an offset is a natural and, for a record, not zero;
* `SinkKept`: `extract_entries_to` of each reader implements `EntrySink`. `ControlOK`
  has what the mapping needs: `finished` counts the entries in front of `at`, and
  `cursor` stays inside `content`, which is a sequence. That the latter holds of what
  any codec returns takes a good part of the module;
* `LimitsKept`: the limits hold of what is read, listed, kept decoded and
  written, and in RPM and Debian, which are decoded while they are opened, what `open` has
  charged for once stops neither verify nor an extraction again. `Limited` is in five parts.
  `ListWithin` counts the names of the listing against what was charged for them, which is
  more, since names that are dropped again were charged as well. `ParserWithin` has what
  each format keeps decoded, and that in Debian the entries of the control section come
  first, so that an entry of the data section has all of the control section in front.
  `ReadWithin` says where the operations start. `ChargedOnce` is the
  reason that `open` charges for everything: the total of verify or of an extraction is
  at most what the entries passed reach in the decoded bytes (`Reached`), because they
  lie behind each other, by `Inv`. `GotWithin` ties the bytes
  written, and those of the entry under way that were not, to the total that the checks
  compared with the limit. Under it are what a decoder returns within the maximum it was
  given (`Codec`, `Lzma2`, `Xz`, `Zip`, tokens of ARJ), and that the checks are made before
  the bytes are kept.

Sequences that come from an unknown input are handled as vectors (`IsVector`), for nothing is
known of what they hold. The folds by which the models of LZMA2 chunks, of their
operations and of ARJ tokens are defined are turned into rows of states, each made of
the one in front (`OperationsFold`, `ChunksFold`, `TokensFold`, by counting up);
then what one operation keeps the stream keeps (`DecodedStep` to `DecodedLzma2`).
A check that a round relies on is read back from the list of checks that all
held (`AllHold`).

Only model-checked: all liveness, which is beyond the prover; the round trips
(`DecodesInBounds` of `UnixCompress`, `OpenedIsWhatWasWritten` of `StreamPump`,
`ReadsWhatWasPacked` and `DamageNeverPasses` of `Packages`), which are inductions over
what an encoder writes; and of `Packages` also `OperationsAgree`, which needs that every
decoder returns the same under a larger maximum, LZMA2 and XZ included.

## 5. Not modelled

* The byte grammar of headers: syntax without state. Models start from parsed
  records and enumerate those the parser can produce.
* The rest of 7z header validation: names, times and attributes,
  external properties, and the properties of coders. Each is a check of one field
  or of one list against a count.
* The entropy decoders (PPMd, Deflate64, WavPack, WinZip JPEG), BCJ2 and
  the other filters, and cryptography: numeric code over large state, for which
  oracles are the better test. In `Codec` and `Zip` a stream says what it decodes
  to and how it fails, and a password is right or wrong. LZMA and LZMA2 are
  modelled with an abstract range coder; a Block of an XZ stream holds stored
  chunks except in the cases made for `Lzma2`, and an LZMA stream of a ZIP entry
  that is cut at a declared size is one of literals.
* The tables of code page 437.
* `decode_reader` of `decode/codecs.rs`, the same reader as in `StreamPump`.
* Memory of intermediate coder outputs: every coder gets the whole remaining
  output allowance (`execute.rs:513`), so that a chain may hold several times the
  limit; the documents bound the output of a folder, not what its coders hold.
* The dictionary limit and the charge for the payload in
  `UnixCompressLayout::extract`: checks before the first step of the model.
* Error texts, password storage, documentation and type stubs of the binding.

## 6. Plan

Proofs: `OperationsAgree` of `Packages` on the invariants that are there; the type invariant of `UnixCompress`, which needs the arithmetic of code groups.

Modelling: the name and external vectors in `StreamMap`; the PPMd
allocator; `decode_reader`.
