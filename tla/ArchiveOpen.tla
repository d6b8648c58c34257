----------------------------- MODULE ArchiveOpen -----------------------------
(***************************************************************************)
(* archive.rs open_volumes_inner and open_bytes_inner: from the assembled  *)
(* bytes to an Archive.                                                    *)
(*                                                                         *)
(*   parser.rs    archive_declares_more_bytes   stage needs                *)
(*                parse_archive                 stage scan                 *)
(*   archive.rs   the loop over header layers   stages layer, decode       *)
(*   metadata.rs  process_additional_streams    stage decode               *)
(*                                                                         *)
(* The bytes hold candidates: places where the 7z signature appears, each  *)
(* with a fixed header that declares a next header.  A next header is a    *)
(* layer: a plain header (perhaps with file properties stored in           *)
(* additional streams), a header whose folder definitions are in an        *)
(* additional stream (pending), or an encoded header, whose decoded bytes  *)
(* are the layer next.  A layer may decode to itself.  Sizes are in small  *)
(* units; a signature takes one and a fixed header FixedSize of them.      *)
(***************************************************************************)
EXTENDS VolumeSet

CONSTANT FixedSize

\* The None of a checked_add on offsets.
Overflow == -1

VARIABLES
  needsMore,   \* needs_more
  candidate,   \* the candidate parse_archive selected, 0 before
  layer,       \* the layer under way
  depth,
  decoded,     \* decoded_header_bytes
  at,          \* the metadata folder the decode loop is at
  spent        \* what the current decode loop has produced

layerVars == <<candidate, layer, depth, decoded, at, spent>>
vars == <<request, stage, result, volumeVars, needsMore, layerVars>>

\* One folder whose output is metadata.  data is what decoding and checking it
\* finds; only a folder of undeclared size can end before its substreams do.
MetadataFolder(f) ==
  /\ f.size \in Nat
  /\ f.declared \in BOOLEAN         \* its unpack size is in the header
  /\ f.encrypted \in BOOLEAN
  /\ f.data \in {"ok", "format", "checksum", "range"}
  /\ f.data = "range" => ~ f.declared

\* ref: the folder that holds the folder definitions of a pending header, and
\* defs whether they parse; props: the folder that holds file properties, or
\* 0, and applies whether they parse.
LayerOK(l, count) ==
  /\ l.kind \in {"header", "encoded", "pending"}
  /\ l.valid \in BOOLEAN            \* its syntax and model validate
  /\ \A k \in DOMAIN l.folders : MetadataFolder(l.folders[k])
  /\ l.kind = "encoded" => l.next \in 1 .. count
  /\ l.kind = "pending" => l.ref \in DOMAIN l.folders /\ l.defs \in BOOLEAN
  /\ l.kind # "encoded" => l.props \in DOMAIN l.folders \cup {0}
                           /\ l.applies \in BOOLEAN

\* What a vector is: a function of the indices 1 to its length.
IsVector(s) == Len(s) \in Nat /\ s = [i \in 1 .. Len(s) |-> s[i]]

CandidateOK(c) ==
  /\ c.at \in Nat
  /\ c.start \in BOOLEAN            \* start header CRC matches
  /\ c.major \in BOOLEAN            \* major version 0
  /\ c.size \in Nat                 \* next header size
  /\ c.end \in Nat \cup {Overflow}
  /\ c.end = Overflow \/ c.end >= c.at + FixedSize + c.size
  /\ c.crc \in BOOLEAN              \* next header CRC matches
  /\ IsVector(c.layers) /\ c.layers # << >>
  /\ \A k \in DOMAIN c.layers : LayerOK(c.layers[k], Len(c.layers))

ASSUME RequestAssumption ==
  /\ FixedSize \in Nat \ {0}
  /\ \A r \in Requests :
       /\ r.password \in BOOLEAN
       /\ {r.maxHeader, r.maxTotal, r.maxDepth, r.scanLimit} \subseteq Nat
       /\ IsVector(r.candidates)
       /\ \A i \in DOMAIN r.candidates : CandidateOK(r.candidates[i])
       /\ \A i, j \in DOMAIN r.candidates :
             i < j => r.candidates[i].at < r.candidates[j].at

Results == {"none", "ok", "format", "checksum", "unsupported", "limit",
            "password", "ambiguous", "missing", "volumes", "input", "io",
            "interrupted"}

TypeOK ==
  /\ VolumeTypeOK
  /\ stage \in {"volumes", "copy", "needs", "scan", "layer", "decode"}
  /\ result \in Results
  /\ needsMore \in BOOLEAN
  /\ candidate \in 0 .. Len(request.candidates)
  /\ candidate # 0 => layer \in DOMAIN request.candidates[candidate].layers
  /\ depth \in Nat
  /\ decoded \in Nat
  /\ spent \in Nat
-----------------------------------------------------------------------------
Init ==
  /\ VolumeInit
  /\ needsMore = FALSE
  /\ candidate = 0
  /\ layer = 1
  /\ depth = 0
  /\ decoded = 0
  /\ at = 1
  /\ spent = 0

(***************************************************************************)
(* Signatures in the bytes.  One at offset 0 makes the archive regular:    *)
(* nothing else is looked at.                                              *)
(***************************************************************************)
Candidates == request.candidates

Regular == Candidates # << >> /\ Candidates[1].at = 0

Visible ==
  {i \in DOMAIN Candidates :
     /\ Candidates[i].at + 1 <= bytes
     /\ IF Regular THEN i = 1 ELSE Candidates[i].at <= request.scanLimit}

\* candidate_declares_more_bytes.
Declares(c) ==
  IF c.at + FixedSize > bytes THEN "more"
  ELSE IF ~ c.start THEN "nothing"
  ELSE IF c.size > request.maxHeader THEN "limit"
  ELSE IF c.end = Overflow THEN "format"
  ELSE IF c.end > bytes THEN "more" ELSE "enough"

\* archive_declares_more_bytes: the first candidate that says anything.
ArchiveDeclares ==
  LET saying == {i \in Visible : Declares(Candidates[i]) # "nothing"} IN
  IF saying = {} THEN "enough" ELSE Declares(Candidates[Min(saying)])

\* Mutant: every failed sequence is called incomplete.
NeedsMore_Always ==
  /\ stage = "needs"
  /\ needsMore' = TRUE
  /\ stage' = "scan"
  /\ UNCHANGED <<request, result, volumeVars, layerVars>>

\* open_volumes_inner decides beforehand what a failure will mean.
NeedsMore ==
  /\ stage = "needs"
  /\ LET says == IF bytes = 0 THEN "more" ELSE ArchiveDeclares IN
     \/ /\ says \in {"more", "enough"}
        /\ needsMore' = (says = "more")
        /\ stage' = "scan"
        /\ UNCHANGED result
     \/ /\ says \in {"limit", "format"}
        /\ result' = says
        /\ UNCHANGED <<stage, needsMore>>
  /\ UNCHANGED <<request, volumeVars, layerVars>>

\* What open_bytes_inner returns, as open_volumes_inner reports it.
Reported(r) ==
  IF r = "ok" \/ ~ needsMore THEN r
  ELSE IF termination = "missing" THEN "missing" ELSE "volumes"

OpenReturns(r) ==
  /\ result' = Reported(r)
  /\ UNCHANGED <<request, stage, volumeVars, needsMore>>
-----------------------------------------------------------------------------
(***************************************************************************)
(* parse_archive                                                           *)
(***************************************************************************)

\* Mutant: the declared range is not compared with the input.
CandidateResult_NoRange(c) ==
  IF c.at + FixedSize > bytes THEN "format"
  ELSE IF ~ c.start THEN "checksum"
  ELSE IF ~ c.major THEN "unsupported"
  ELSE IF c.size > request.maxHeader THEN "limit"
  ELSE IF ~ c.crc THEN "checksum"
  ELSE IF request.maxDepth = 0 THEN "limit"
  ELSE IF ~ c.layers[1].valid THEN "format"
  ELSE "ok"

\* validated_candidate: parse_candidate, then the syntax and the model of the
\* next header.
CandidateResult(c) ==
  IF c.at + FixedSize > bytes THEN "format"
  ELSE IF ~ c.start THEN "checksum"
  ELSE IF ~ c.major THEN "unsupported"
  ELSE IF c.size > request.maxHeader THEN "limit"
  ELSE IF c.end = Overflow \/ c.end > bytes THEN "format"
  ELSE IF ~ c.crc THEN "checksum"
  ELSE IF request.maxDepth = 0 THEN "limit"
  ELSE IF ~ c.layers[1].valid THEN "format"
  ELSE "ok"

\* The first candidate that validates; else the first error.
Scan ==
  /\ stage = "scan"
  /\ LET valid == {i \in Visible : CandidateResult(Candidates[i]) = "ok"} IN
     \/ /\ valid # {}
        /\ candidate' = Min(valid)
        /\ stage' = "layer"
        /\ UNCHANGED <<request, result, volumeVars, needsMore>>
     \/ /\ valid = {}
        /\ Visible # {}
        /\ OpenReturns(CandidateResult(Candidates[Min(Visible)]))
        /\ UNCHANGED candidate
     \/ /\ Visible = {}
        /\ OpenReturns("format")
        /\ UNCHANGED candidate
  /\ UNCHANGED <<layer, depth, decoded, at, spent>>
-----------------------------------------------------------------------------
(***************************************************************************)
(* The loop over header layers                                             *)
(***************************************************************************)
Layer == Candidates[candidate].layers[layer]

\* map_encrypted_error.
Mapped(r, encrypted) ==
  IF encrypted /\ r \in {"format", "checksum"} THEN "ambiguous" ELSE r

AnyEncrypted == \E k \in DOMAIN Layer.folders : Layer.folders[k].encrypted

\* Mutant: earlier layers do not count.
Allowance_Fresh == Smaller(request.maxHeader, request.maxTotal)

\* What the folders of this layer may still produce together.
Allowance == Smaller(request.maxHeader, request.maxTotal - decoded)

DeclaredTotal ==
  MapThenSumSet(LAMBDA k : Layer.folders[k].size,
                {k \in DOMAIN Layer.folders : Layer.folders[k].declared})

\* A plain header without external properties opens the archive; the others
\* are decoded first, within the recursion limit.
EnterLayer ==
  /\ stage = "layer"
  /\ \/ /\ Layer.kind = "header" /\ Layer.props = 0
        /\ OpenReturns("ok")
        /\ UNCHANGED <<depth, at, spent>>
     \/ /\ Layer.kind = "header" /\ Layer.props # 0
        /\ stage' = "decode" /\ at' = 1 /\ spent' = 0
        /\ UNCHANGED <<depth, request, result, volumeVars, needsMore>>
     \/ /\ Layer.kind # "header"
        /\ depth + 1 > request.maxDepth
        /\ OpenReturns("limit")
        /\ UNCHANGED <<depth, at, spent>>
     \/ /\ Layer.kind = "encoded"
        /\ depth + 1 <= request.maxDepth
        /\ Layer.folders = << >> \/ DeclaredTotal > Allowance
        /\ OpenReturns(IF Layer.folders = << >> THEN "format" ELSE "limit")
        /\ depth' = depth + 1
        /\ UNCHANGED <<at, spent>>
     \/ /\ Layer.kind # "header"
        /\ depth + 1 <= request.maxDepth
        /\ Layer.kind = "encoded" =>
             Layer.folders # << >> /\ DeclaredTotal <= Allowance
        /\ depth' = depth + 1
        /\ stage' = "decode" /\ at' = 1 /\ spent' = 0
        /\ UNCHANGED <<request, result, volumeVars, needsMore>>
  /\ UNCHANGED <<candidate, layer, decoded>>

\* decode_folder, the CRC of the folder and the ranges and CRCs of its
\* substreams.
FolderResult(f) ==
  IF f.declared /\ f.size > Allowance - spent THEN "limit"
  ELSE IF f.encrypted /\ ~ request.password THEN "password"
  ELSE IF f.size > Allowance - spent THEN "limit"
  ELSE f.data

\* The error as the caller sees it.  For an encoded header any encrypted
\* folder makes it ambiguous; for additional streams the folder itself does,
\* and a substream range outside the output stays a format error.
FolderError(f) ==
  LET r == FolderResult(f)
      plain == IF r = "range" THEN "format" ELSE r IN
  IF Layer.kind = "encoded" THEN Mapped(plain, AnyEncrypted)
  ELSE IF r = "range" THEN plain ELSE Mapped(plain, f.encrypted)

\* One folder of decode_encoded_header or process_additional_streams.
DecodeFolder ==
  /\ stage = "decode"
  /\ at \in DOMAIN Layer.folders
  /\ LET f == Layer.folders[at] IN
     \/ /\ FolderResult(f) = "ok"
        /\ spent' = spent + f.size
        /\ at' = at + 1
        /\ UNCHANGED <<request, stage, result, volumeVars, needsMore>>
     \/ /\ FolderResult(f) # "ok"
        /\ OpenReturns(FolderError(f))
        /\ UNCHANGED <<at, spent>>
  /\ UNCHANGED <<candidate, layer, depth, decoded>>

\* apply_external_properties.
Applied ==
  IF Layer.props = 0 \/ Layer.applies THEN "ok"
  ELSE Mapped("format", Layer.folders[Layer.props].encrypted)

\* What the decoded bytes are for: the next layer, the folder definitions of
\* a pending header, or file properties.
UseDecoded ==
  /\ stage = "decode"
  /\ at \notin DOMAIN Layer.folders
  /\ decoded' = decoded + spent
  /\ \/ /\ decoded' > request.maxTotal
        /\ OpenReturns("limit")
        /\ UNCHANGED layer
     \/ /\ decoded' <= request.maxTotal
        /\ Layer.kind = "encoded"
        /\ LET l == Candidates[candidate].layers[Layer.next] IN
           \/ /\ l.valid
              /\ layer' = Layer.next
              /\ stage' = "layer"
              /\ UNCHANGED <<request, result, volumeVars, needsMore>>
           \/ /\ ~ l.valid
              /\ OpenReturns(Mapped("format", AnyEncrypted))
              /\ UNCHANGED layer
     \/ /\ decoded' <= request.maxTotal
        /\ Layer.kind # "encoded"
        /\ OpenReturns(IF Layer.kind = "pending" /\ ~ Layer.defs
                       THEN Mapped("format", Layer.folders[Layer.ref].encrypted)
                       ELSE Applied)
        /\ UNCHANGED layer
  /\ UNCHANGED <<candidate, depth, at, spent>>

\* The token or the work budget stops the call.  Inside open_bytes_inner this
\* is an error like any other to open_volumes_inner.
Interrupt ==
  /\ stage \in {"needs", "scan", "layer", "decode"}
  /\ bytes # 0
  /\ result' = IF stage = "needs" THEN "interrupted" ELSE Reported("interrupted")
  /\ UNCHANGED <<request, stage, volumeVars, needsMore, layerVars>>

Running == result = "none"

Step ==
  \/ Running /\ VolumeLimit /\ UNCHANGED <<needsMore, layerVars>>
  \/ Running /\ OpenVolume /\ UNCHANGED <<needsMore, layerVars>>
  \/ Running /\ ReadVolume /\ UNCHANGED <<needsMore, layerVars>>
  \/ Running /\ CloseVolume /\ UNCHANGED <<needsMore, layerVars>>
  \/ Running /\ NeedsMore
  \/ Running /\ Scan
  \/ Running /\ EnterLayer
  \/ Running /\ DecodeFolder
  \/ Running /\ UseDecoded

Stop ==
  \/ Running /\ VolumeInterrupt /\ UNCHANGED <<needsMore, layerVars>>
  \/ Running /\ Interrupt

Next == Step \/ Stop

\* The calling thread keeps running; provider calls return.
Spec == Init /\ [][Next]_vars /\ WF_vars(Step)
-----------------------------------------------------------------------------
\* "A terminal absent part is accepted only after the complete logical archive
\* bounds validate": an archive is opened only when its fixed header, next
\* header and both CRCs are in the bytes that were read, whichever volume was
\* the last one and however many decoys precede it.
OpenedIsComplete ==
  result = "ok" =>
    LET c == Candidates[candidate] IN
    /\ c.start /\ c.crc
    /\ c.end # Overflow /\ c.end <= bytes
    /\ bytes = EndOf(index)
    /\ Layer.valid /\ Layer.kind # "encoded"

\* The bytes read do not hold what the regular archive declares.
Truncated ==
  \/ bytes < Candidates[1].at + FixedSize
  \/ Candidates[1].start /\ bytes < Candidates[1].end

\* A sequence that lacks a part of a regular archive is reported as that, with
\* the name of the first absent part, or as a limit, but never with the error
\* its truncated bytes give; a complete one never is.
TruncationIsNamed ==
  Regular /\ request.mode = "sequence" =>
    /\ result = "missing" =>
         index = Len(request.ends) /\ (bytes = 0 \/ Truncated)
    /\ result \in {"ok", "format", "checksum", "unsupported", "password",
                   "ambiguous"} => ~ Truncated

\* Every byte of decoded metadata is within max_total_output_bytes, those of
\* one layer within max_header_bytes, and the layers within the recursion
\* limit, also while a layer is being decoded.
MetadataWithinLimits ==
  /\ depth <= request.maxDepth
  /\ spent <= request.maxHeader
  /\ stage = "decode" /\ Running => decoded + spent <= request.maxTotal
  /\ decoded <= request.maxTotal

\* "encrypted structural, size, or CRC failures are deliberately classified as
\* WrongPasswordOrCorrupt": no format or checksum error comes out of an
\* encoded header that has an encrypted folder.
EncodedHeaderFailureIsAmbiguous ==
  candidate # 0 /\ stage = "decode" /\ Layer.kind = "encoded" /\ AnyEncrypted =>
    result \notin {"format", "checksum"}

\* A failed open names its cause: the part that is missing, not the damage
\* its absence looks like, and the password, not the damage a wrong one does.
FailureNamesItsCause == TruncationIsNamed /\ EncodedHeaderFailureIsAmbiguous

\* Opening stays within every limit at every step, of the volumes it copies
\* and of the metadata it decodes.
OpenIsBounded == TypeOK /\ InputWithinLimits /\ MetadataWithinLimits

\* The same claim for every metadata folder, additional streams included.
EncryptedFailureIsAmbiguous ==
  candidate # 0 /\ stage = "decode" /\ at \in DOMAIN Layer.folders
    /\ Layer.folders[at].encrypted =>
      result \notin {"format", "checksum"}

\* "A CRC-correct nested decoy does not mask a later real archive": when a
\* candidate in the scan range is a valid archive, an open fails only for a
\* reason of that archive, the input, the provider or the caller, and no part
\* is called missing.
DecoysMaskNothing ==
  (\E i \in Visible : CandidateResult(Candidates[i]) = "ok") =>
    /\ result # "missing"
    /\ candidate = 0 =>
         result \in {"none", "volumes", "input", "io", "interrupted"}

\* Opening returns, also for an encoded header that decodes to itself and a
\* provider that never runs out of empty volumes.
Terminates == <>(result # "none")
=============================================================================
