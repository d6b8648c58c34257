-------------------------- MODULE ArchiveOpenProofs --------------------------
(***************************************************************************)
(* Opening an archive, for any volumes, candidates, header layers and      *)
(* limits: it stays within its limits (OpenIsBounded), what it opens is    *)
(* complete (OpenedIsComplete), and a failure names its cause              *)
(* (FailureNamesItsCause).                                                 *)
(*                                                                         *)
(* None of the three is inductive.  The bounds need what the loops have    *)
(* already checked: CopyInv for the volume being copied, DecodeInv for the *)
(* allowance of the layer being decoded.  Completeness needs ChosenInv,    *)
(* that the candidate was accepted with the bytes that are still there.    *)
(* The cause needs NeedsInv, which relates needs_more, computed before the *)
(* archive is opened, to the bytes that it was computed from.              *)
(*                                                                         *)
(* At the end, the verdict of the reader of one of its members             *)
(* (MemberReader).                                                         *)
(***************************************************************************)
EXTENDS ArchiveOpen, MemberReader, NaturalLemmas

\* The volume being copied was admitted by both limits and ends where the
\* provider said; between volumes the bytes are whole volumes.
CopyInv ==
  /\ stage = "copy" => /\ index + 1 \in DOMAIN request.ends
                       /\ index + 1 <= request.maxVolumes
                       /\ bytes + remaining = EndOf(index + 1)
  /\ stage # "copy" => remaining = 0 /\ bytes = EndOf(index)
  /\ index <= request.maxVolumes
  /\ bytes + remaining <= request.maxInput

\* The folders decoded so far fit into what the layer may produce.
DecodeInv ==
  /\ stage = "decode" /\ Running => spent <= Allowance
  /\ MetadataWithinLimits

\* The candidate was accepted, the layer under way validated, and no encoded
\* header is taken for the archive.
ChosenInv ==
  /\ stage \notin {"layer", "decode"} => layer = 1
  /\ stage \in {"layer", "decode"} =>
       /\ candidate \in Visible
       /\ CandidateResult(Candidates[candidate]) = "ok"
       /\ Layer.valid
  /\ result = "ok" => stage \in {"layer", "decode"} /\ Layer.kind # "encoded"

\* What needs_more was computed from.
Incomplete == bytes = 0 \/ ArchiveDeclares = "more"

\* The termination of a sequence, and needs_more, are about the bytes that the
\* call still has.
NeedsInv ==
  /\ stage \in {"volumes", "copy"} => termination = "none"
  /\ request.mode = "sequence" =>
    /\ stage \in {"needs", "scan", "layer", "decode"} =>
         termination \in {"missing", "limit"}
    /\ termination = "missing" => index = Len(request.ends)
    /\ stage \in {"scan", "layer", "decode"} =>
         IF needsMore THEN Incomplete ELSE bytes # 0 /\ ArchiveDeclares = "enough"

IInv ==
  /\ TypeOK
  /\ request \in Requests
  /\ CopyInv
  /\ DecodeInv
  /\ ChosenInv
  /\ NeedsInv
  /\ FailureNamesItsCause
-----------------------------------------------------------------------------
(***************************************************************************)
(* Requests                                                                *)
(***************************************************************************)

\* Min picks the least element of a nonempty set of naturals.
LEMMA MinLemma ==
  ASSUME NEW S \in SUBSET Nat, S # {}
  PROVE  Min(S) \in S /\ \A y \in S : Min(S) <= y
  BY LeastElement DEF Min

\* What the assumptions on constants say of the request under way.
LEMMA RequestType ==
  ASSUME request \in Requests
  PROVE  /\ request.mode \in {"sequence", "single"}
         /\ request.ends \in Seq(Nat)
         /\ request.maxVolumes \in Nat
         /\ request.maxInput \in Nat
         /\ request.maxHeader \in Nat
         /\ request.maxTotal \in Nat
         /\ request.maxDepth \in Nat
         /\ Len(Candidates) \in Nat
         /\ DOMAIN Candidates = 1 .. Len(Candidates)
         /\ Candidates # << >> => 1 \in DOMAIN Candidates
         /\ \A i \in DOMAIN Candidates : CandidateOK(Candidates[i])
  <1>1. /\ IsVector(Candidates)
        /\ \A i \in DOMAIN Candidates : CandidateOK(Candidates[i])
    BY RequestAssumption DEF Candidates
  <1>2. Len(Candidates) \in Nat /\ DOMAIN Candidates = 1 .. Len(Candidates)
    BY <1>1 DEF IsVector
  <1>3. Candidates # << >> => 1 \in DOMAIN Candidates
    <2> DEFINE n == Len(Candidates)
    <2>1. n = 0 => Candidates = << >>
      <3>1. n = 0 => 1 .. n = {}
        BY <1>2
      <3>2. Candidates = [i \in 1 .. n |-> Candidates[i]]
        BY <1>1 DEF IsVector
      <3> QED
        BY <3>1, <3>2
    <2> QED
      BY <1>2, <2>1
  <1>4. /\ request.mode \in {"sequence", "single"}
        /\ request.ends \in Seq(Nat)
        /\ request.maxVolumes \in Nat
        /\ request.maxInput \in Nat
    BY VolumeAssumption
  <1>5. {request.maxHeader, request.maxTotal, request.maxDepth} \subseteq Nat
    BY RequestAssumption
  <1> QED
    BY <1>1, <1>2, <1>3, <1>4, <1>5

\* Volumes follow each other: a length is what the end moves by.
LEMMA EndOfLemma ==
  ASSUME request \in Requests, NEW k \in 0 .. Len(request.ends)
  PROVE  /\ EndOf(k) \in Nat
         /\ k + 1 \in DOMAIN request.ends => /\ Length(k + 1) \in Nat
                                             /\ EndOf(k) + Length(k + 1) = EndOf(k + 1)
  <1>1. request.ends \in Seq(Nat) /\ DOMAIN request.ends = 1 .. Len(request.ends)
    BY VolumeAssumption
  <1>2. \A i, j \in DOMAIN request.ends : i <= j => request.ends[i] <= request.ends[j]
    BY VolumeAssumption
  <1>3. EndOf(k) \in Nat
    BY <1>1 DEF EndOf
  <1>4. ASSUME k + 1 \in DOMAIN request.ends
        PROVE  /\ Length(k + 1) \in Nat
               /\ EndOf(k) + Length(k + 1) = EndOf(k + 1)
    <2>1. EndOf(k + 1) \in Nat /\ EndOf(k) <= EndOf(k + 1)
      BY <1>1, <1>2, <1>4, SMTT(40) DEF EndOf
    <2>2. Length(k + 1) = EndOf(k + 1) - EndOf(k)
      BY <1>1 DEF Length
    <2> QED
      BY <1>3, <2>1, <2>2
  <1> QED
    BY <1>3, <1>4

\* The candidates of a request and their layers.
LEMMA LayerType ==
  ASSUME request \in Requests, candidate \in DOMAIN Candidates,
         layer \in DOMAIN Candidates[candidate].layers
  PROVE  /\ CandidateOK(Candidates[candidate])
         /\ LayerOK(Layer, Len(Candidates[candidate].layers))
         /\ DOMAIN Candidates[candidate].layers = 1 .. Len(Candidates[candidate].layers)
         /\ Layer.kind \in {"header", "encoded", "pending"}
         /\ \A k \in DOMAIN Layer.folders : MetadataFolder(Layer.folders[k])
  BY RequestType DEF CandidateOK, LayerOK, Layer, IsVector

\* What is read off the request and the bytes stays while both do.
LEMMA SameBytes ==
  ASSUME UNCHANGED <<request, bytes>>
  PROVE  /\ Candidates' = Candidates
         /\ Regular' = Regular
         /\ Visible' = Visible
         /\ ArchiveDeclares' = ArchiveDeclares
         /\ Incomplete' = Incomplete
         /\ Truncated' = Truncated
         /\ \A c : CandidateResult(c)' = CandidateResult(c)
  <1>1. Candidates' = Candidates /\ Regular' = Regular
    BY DEF Candidates, Regular
  <1>2. Visible' = Visible
    BY <1>1 DEF Visible
  <1>3. \A c : Declares(c)' = Declares(c)
    BY DEF Declares
  <1>4. ArchiveDeclares' = ArchiveDeclares
    BY <1>1, <1>2, <1>3 DEF ArchiveDeclares
  <1> QED
    BY <1>1, <1>2, <1>4 DEF Incomplete, Truncated, CandidateResult

\* A regular archive: what its one candidate declares is whether the bytes
\* end before it does.
LEMMA RegularDeclares ==
  ASSUME request \in Requests, Regular, bytes \in Nat, bytes # 0
  PROVE  /\ Visible = {1}
         /\ ArchiveDeclares = "more" => Truncated
         /\ ArchiveDeclares \in {"enough", "format"} => ~ Truncated
         /\ CandidateResult(Candidates[1]) = "ok" => ~ Truncated
  <1> DEFINE c == Candidates[1]
  <1>1. 1 \in DOMAIN Candidates /\ c.at = 0 /\ CandidateOK(c)
    <2>1. Candidates # << >> /\ c.at = 0
      BY DEF Regular
    <2>2. 1 \in DOMAIN Candidates
      BY <2>1, RequestType
    <2>3. CandidateOK(c)
      BY <2>2, RequestType
    <2> QED
      BY <2>1, <2>2, <2>3
  <1>2. Visible = {1}
    BY <1>1 DEF Visible
  <1>3. FixedSize \in Nat \ {0} /\ c.size \in Nat /\ c.start \in BOOLEAN
    BY <1>1, RequestAssumption DEF CandidateOK
  <1>4. c.end = Overflow \/ c.end >= FixedSize + c.size
    BY <1>1, <1>3 DEF CandidateOK
  <1>5. Min({1}) = 1
    BY MinLemma
  <1>6. ArchiveDeclares = IF Declares(c) = "nothing" THEN "enough" ELSE Declares(c)
    <2>1. CASE Declares(c) = "nothing"
      BY <1>2, <2>1 DEF ArchiveDeclares
    <2>2. CASE Declares(c) # "nothing"
      <3>1. {i \in Visible : Declares(Candidates[i]) # "nothing"} = {1}
        BY <1>2, <2>2
      <3> QED
        BY <3>1, <1>5, <2>2 DEF ArchiveDeclares
    <2> QED
      BY <2>1, <2>2
  <1> QED
    BY <1>1, <1>2, <1>3, <1>4, <1>6
    DEF Declares, Truncated, CandidateResult, Overflow

\* An error that open_bytes_inner returns, or its success, as the caller sees
\* it.
LEMMA ReportedLemma ==
  ASSUME NEW r
  PROVE  /\ Reported(r) \in {r, "missing", "volumes"}
         /\ r = "ok" => Reported(r) = "ok"
         /\ r \notin {"ok", "missing"} /\ Reported(r) = "missing" =>
              needsMore /\ termination = "missing"
         /\ r \notin {"ok", "missing", "volumes"}
              /\ Reported(r) \notin {"missing", "volumes"} => ~ needsMore
  BY DEF Reported

\* Returning from the scan or the layers keeps the invariant, if the counters
\* stay within the limits, only a header that is not encoded is a success, and
\* an encrypted encoded header does not fail with its plain error.
LEMMA ReturnStep ==
  ASSUME IInv, Running, stage \in {"scan", "layer", "decode"},
         NEW r \in Results \ {"none", "missing", "volumes", "input", "io"},
         result' = Reported(r),
         UNCHANGED <<request, stage, volumeVars, needsMore, candidate, layer>>,
         depth' \in Nat, decoded' \in Nat, spent' \in Nat, MetadataWithinLimits',
         r = "ok" => stage # "scan" /\ Layer.kind # "encoded",
         stage = "decode" /\ Layer.kind = "encoded" /\ AnyEncrypted =>
           r \notin {"format", "checksum"}
  PROVE  IInv'
  <1> USE DEF volumeVars
  <1>1. /\ request \in Requests /\ request' = request
        /\ bytes \in Nat /\ bytes' = bytes
    BY DEF IInv, TypeOK, VolumeTypeOK
  <1>2. /\ result' \in Results \ {"none"}
        /\ result' = "ok" <=> r = "ok"
    BY ReportedLemma DEF Results
  <1>3. TypeOK'
    BY <1>2 DEF IInv, TypeOK, VolumeTypeOK, Candidates
  <1>4. CopyInv'
    BY DEF IInv, CopyInv, EndOf
  <1>5. DecodeInv'
    BY <1>2 DEF DecodeInv, Running
  <1>6. Layer' = Layer /\ Candidates' = Candidates
    BY DEF Layer, Candidates
  <1>7. ChosenInv'
    BY <1>1, <1>2, <1>6, SameBytes DEF IInv, ChosenInv
  <1>8. NeedsInv'
    BY <1>1, SameBytes DEF IInv, NeedsInv
  <1>9. EncodedHeaderFailureIsAmbiguous'
    <2>1. AnyEncrypted' = AnyEncrypted
      BY <1>6 DEF AnyEncrypted
    <2>2. SUFFICES ASSUME stage = "decode", Layer.kind = "encoded", AnyEncrypted
                   PROVE  result' \notin {"format", "checksum"}
      BY <1>6, <2>1 DEF EncodedHeaderFailureIsAmbiguous
    <2> QED
      BY <2>2, ReportedLemma
  <1>10. TruncationIsNamed'
    <2>1. SUFFICES ASSUME Regular, request.mode = "sequence"
                   PROVE  /\ result' = "missing" =>
                               index = Len(request.ends) /\ (bytes = 0 \/ Truncated)
                          /\ result' \in {"ok", "format", "checksum", "unsupported",
                                          "password", "ambiguous"} => ~ Truncated
      BY <1>1, SameBytes DEF TruncationIsNamed
    <2>2. ASSUME result' = "missing"
          PROVE  index = Len(request.ends) /\ (bytes = 0 \/ Truncated)
      <3>1. needsMore /\ termination = "missing"
        BY <2>2, <1>2, ReportedLemma
      <3> QED
        BY <3>1, <2>1, <1>1, RegularDeclares DEF IInv, NeedsInv, Incomplete
    <2>3. ASSUME result' = "ok" PROVE ~ Truncated
      <3>1. r = "ok" /\ stage \in {"layer", "decode"}
        BY <2>3, <1>2
      <3>2. candidate \in Visible /\ CandidateResult(Candidates[candidate]) = "ok"
        BY <3>1 DEF IInv, ChosenInv
      <3>3. bytes # 0 /\ candidate = 1
        <4>1. candidate = 1 /\ Candidates[1].at = 0 /\ Candidates[1].at + 1 <= bytes
          BY <2>1, <3>2 DEF Visible, Regular
        <4> QED
          BY <4>1, <1>1
      <3> QED
        BY <3>2, <3>3, <2>1, <1>1, RegularDeclares
    <2>4. ASSUME result' \in {"format", "checksum", "unsupported", "password",
                              "ambiguous"}
          PROVE  ~ Truncated
      <3>1. ~ needsMore
        BY <2>4, <1>2, ReportedLemma
      <3> QED
        BY <3>1, <2>1, <1>1, RegularDeclares DEF IInv, NeedsInv
    <2> QED
      BY <2>2, <2>3, <2>4
  <1> QED
    BY <1>1, <1>3, <1>4, <1>5, <1>7, <1>8, <1>9, <1>10
    DEF IInv, FailureNamesItsCause
-----------------------------------------------------------------------------
(***************************************************************************)
(* The steps that fetch the volumes                                        *)
(***************************************************************************)

\* The first states.
LEMMA InitIInv == Init => IInv
  <1> SUFFICES ASSUME Init PROVE IInv
    OBVIOUS
  <1> USE DEF Init, VolumeInit
  <1>1. request \in Requests /\ request.ends \in Seq(Nat) /\ Len(Candidates) \in Nat
    BY RequestType
  <1>2. TypeOK
    <2>1. VolumeTypeOK
      BY <1>1 DEF VolumeTypeOK
    <2>2. needsMore \in BOOLEAN /\ result \in Results
      BY DEF Results
    <2>3. candidate \in 0 .. Len(request.candidates)
      BY <1>1 DEF Candidates
    <2> QED
      BY <2>1, <2>2, <2>3 DEF TypeOK
  <1>3. CopyInv
    BY RequestType DEF CopyInv, EndOf
  <1>4. DecodeInv
    BY RequestType DEF DecodeInv, MetadataWithinLimits
  <1>5. ChosenInv /\ NeedsInv
    BY DEF ChosenInv, NeedsInv
  <1>6. FailureNamesItsCause
    BY DEF FailureNamesItsCause, TruncationIsNamed, EncodedHeaderFailureIsAmbiguous
  <1> QED
    BY <1>1, <1>2, <1>3, <1>4, <1>5, <1>6 DEF IInv

\* While the call runs there is no failure to name.
LEMMA NoFailureYet ==
  ASSUME result' = "none"
  PROVE  FailureNamesItsCause'
  BY DEF FailureNamesItsCause, TruncationIsNamed, EncodedHeaderFailureIsAmbiguous

\* The volume stages leave what comes later alone.
LEMMA LayersUntouched ==
  ASSUME IInv, UNCHANGED <<request, layerVars>>,
         stage \in {"volumes", "copy", "needs"},
         stage' \in {"volumes", "copy", "needs", "scan"}, result' # "ok"
  PROVE  DecodeInv' /\ ChosenInv'
  BY DEF IInv, DecodeInv, MetadataWithinLimits, ChosenInv, layerVars

\* Returning while the volumes are being fetched.
LEMMA VolumeReturnsStep ==
  ASSUME IInv, Running, stage \in {"volumes", "copy"},
         NEW r \in {"volumes", "missing", "input", "io", "interrupted"},
         r = "missing" => request.mode = "single",
         VolumeReturns(r), UNCHANGED <<needsMore, layerVars>>
  PROVE  IInv'
  <1> USE DEF VolumeReturns, volumeVars, layerVars
  <1>1. TypeOK'
    BY DEF IInv, TypeOK, VolumeTypeOK, Results
  <1>2. CopyInv' /\ request' \in Requests
    BY DEF IInv, CopyInv, EndOf
  <1>3. DecodeInv' /\ ChosenInv'
    BY LayersUntouched
  <1>4. NeedsInv'
    BY DEF IInv, NeedsInv
  <1>5. FailureNamesItsCause'
    BY DEF FailureNamesItsCause, TruncationIsNamed, EncodedHeaderFailureIsAmbiguous
  <1> QED
    BY <1>1, <1>2, <1>3, <1>4, <1>5 DEF IInv

\* The sequence is over; when a part was absent, all that exist were read.
LEMMA AssembledStep ==
  ASSUME IInv, Running, stage = "volumes",
         NEW why \in {"missing", "limit"},
         why = "missing" => ~ Exists(index + 1),
         Assembled(why), UNCHANGED <<needsMore, layerVars>>
  PROVE  IInv'
  <1> USE DEF Assembled, layerVars
  <1>0. request \in Requests /\ request.ends \in Seq(Nat)
    BY RequestType DEF IInv
  <1>1. TypeOK'
    BY DEF IInv, TypeOK, VolumeTypeOK, Results
  <1>2. CopyInv' /\ request' \in Requests
    BY DEF IInv, CopyInv, EndOf
  <1>3. DecodeInv' /\ ChosenInv'
    BY LayersUntouched DEF Running
  <1>4. why = "missing" => index = Len(request.ends)
    BY <1>0 DEF Exists, IInv, TypeOK, VolumeTypeOK
  <1>5. NeedsInv'
    BY <1>4 DEF IInv, NeedsInv
  <1>6. FailureNamesItsCause'
    BY NoFailureYet DEF Running
  <1> QED
    BY <1>1, <1>2, <1>3, <1>5, <1>6 DEF IInv

\* The volume limit.
LEMMA VolumeLimitStep ==
  ASSUME IInv, Running, VolumeLimit, UNCHANGED <<needsMore, layerVars>>
  PROVE  IInv'
  BY VolumeReturnsStep, AssembledStep DEF VolumeLimit

\* Asking for a volume.
LEMMA OpenVolumeStep ==
  ASSUME IInv, Running, OpenVolume, UNCHANGED <<needsMore, layerVars>>
  PROVE  IInv'
  <1>1. stage = "volumes" /\ index + 1 <= request.maxVolumes /\ request \in Requests
    BY DEF OpenVolume, IInv
  <1>2. CASE ~ Exists(index + 1) /\ Assembled("missing")
    BY <1>1, <1>2, AssembledStep
  <1>3. CASE request.mode = "single" /\ VolumeReturns("missing")
    BY <1>1, <1>3, VolumeReturnsStep
  <1>4. CASE VolumeReturns("input")
    BY <1>1, <1>4, VolumeReturnsStep
  <1>5. CASE VolumeReturns("io")
    BY <1>1, <1>5, VolumeReturnsStep
  <1>6. CASE /\ Exists(index + 1)
             /\ ~ TooMuchInput(Length(index + 1))
             /\ remaining' = Length(index + 1)
             /\ stage' = "copy"
             /\ UNCHANGED <<request, result, index, bytes, termination>>
    <2> USE <1>6
    <2>1. index \in 0 .. Len(request.ends) /\ bytes = EndOf(index)
      BY <1>1 DEF IInv, TypeOK, VolumeTypeOK, CopyInv
    <2>2. /\ EndOf(index) \in Nat
          /\ Length(index + 1) \in Nat
          /\ EndOf(index) + Length(index + 1) = EndOf(index + 1)
      BY <1>1, <2>1, EndOfLemma DEF Exists
    <2>3. TypeOK'
      BY <2>2 DEF IInv, TypeOK, VolumeTypeOK, layerVars
    <2>4. CopyInv' /\ request' \in Requests
      <3>1. bytes + Length(index + 1) <= request.maxInput
        BY <1>1, <2>1, <2>2, RequestType DEF TooMuchInput
      <3>2. EndOf(index + 1)' = EndOf(index + 1)
        BY DEF EndOf
      <3> QED
        BY <1>1, <2>1, <2>2, <3>1, <3>2 DEF IInv, CopyInv, Exists
    <2>5. DecodeInv' /\ ChosenInv'
      BY <1>1, LayersUntouched DEF Running
    <2>6. NeedsInv'
      BY <1>1 DEF IInv, NeedsInv
    <2>7. FailureNamesItsCause'
      BY NoFailureYet DEF Running
    <2> QED
      BY <2>3, <2>4, <2>5, <2>6, <2>7 DEF IInv
  <1> QED
    BY <1>2, <1>3, <1>4, <1>5, <1>6 DEF OpenVolume

\* One read.
LEMMA ReadVolumeStep ==
  ASSUME IInv, Running, ReadVolume, UNCHANGED <<needsMore, layerVars>>
  PROVE  IInv'
  <1>1. stage = "copy" /\ request \in Requests
    BY DEF ReadVolume, IInv
  <1>2. CASE VolumeReturns("io")
    BY <1>1, <1>2, VolumeReturnsStep
  <1>3. ASSUME NEW n \in ReadSizes,
               bytes' = bytes + n, remaining' = remaining - n,
               UNCHANGED <<request, stage, result, index, termination>>
        PROVE  IInv'
    <2> USE <1>3
    <2>1. /\ bytes \in Nat /\ remaining \in Nat
          /\ n \in Nat /\ n <= remaining
      BY VolumeAssumption DEF ReadSizes, Smaller, IInv, TypeOK, VolumeTypeOK
    <2>2. bytes' \in Nat /\ remaining' \in Nat /\ bytes' + remaining' = bytes + remaining
      BY <2>1
    <2>3. TypeOK'
      BY <2>2 DEF IInv, TypeOK, VolumeTypeOK, layerVars
    <2>4. CopyInv' /\ request' \in Requests
      BY <1>1, <2>2 DEF IInv, CopyInv, EndOf
    <2>5. DecodeInv' /\ ChosenInv'
      BY <1>1, LayersUntouched DEF Running
    <2>6. NeedsInv'
      BY <1>1 DEF IInv, NeedsInv
    <2>7. FailureNamesItsCause'
      BY NoFailureYet DEF Running
    <2> QED
      BY <2>3, <2>4, <2>5, <2>6, <2>7 DEF IInv
  <1> QED
    BY <1>2, <1>3 DEF ReadVolume

\* A volume was read completely.
LEMMA CloseVolumeStep ==
  ASSUME IInv, Running, CloseVolume, UNCHANGED <<needsMore, layerVars>>
  PROVE  IInv'
  <1> USE DEF CloseVolume
  <1>1. request \in Requests /\ request.ends \in Seq(Nat) /\ index \in 0 .. Len(request.ends)
    BY RequestType DEF IInv, TypeOK, VolumeTypeOK
  <1>2. TypeOK'
    BY <1>1 DEF IInv, TypeOK, VolumeTypeOK, CopyInv, layerVars
  <1>3. CopyInv' /\ request' \in Requests
    <2>1. bytes \in Nat /\ remaining = 0 /\ bytes + remaining = EndOf(index + 1)
      BY DEF IInv, CopyInv, TypeOK, VolumeTypeOK
    <2>2. EndOf(index)' = EndOf(index + 1)
      BY DEF EndOf
    <2> QED
      BY <2>1, <2>2 DEF IInv, CopyInv
  <1>4. DecodeInv' /\ ChosenInv'
    BY LayersUntouched DEF Running
  <1>5. NeedsInv'
    BY <1>1 DEF IInv, NeedsInv
  <1>6. FailureNamesItsCause'
    BY NoFailureYet DEF Running
  <1> QED
    BY <1>2, <1>3, <1>4, <1>5, <1>6 DEF IInv

\* A checkpoint of the volume loop fails.
LEMMA VolumeInterruptStep ==
  ASSUME IInv, Running, VolumeInterrupt, UNCHANGED <<needsMore, layerVars>>
  PROVE  IInv'
  BY VolumeReturnsStep DEF VolumeInterrupt

-----------------------------------------------------------------------------
(***************************************************************************)
(* The steps that open the bytes                                           *)
(***************************************************************************)

\* needs_more is computed.  A limit or a format error here is returned as it
\* is, the latter only when the fixed header is there and the offsets overflow.
LEMMA NeedsMoreStep ==
  ASSUME IInv, Running, NeedsMore
  PROVE  IInv'
  <1> DEFINE says == IF bytes = 0 THEN "more" ELSE ArchiveDeclares
  <1> USE DEF NeedsMore, volumeVars, layerVars
  <1>1. /\ stage = "needs" /\ request \in Requests /\ request' = request
        /\ bytes \in Nat /\ bytes' = bytes
    BY DEF IInv, TypeOK, VolumeTypeOK
  <1>2. CopyInv' /\ request' \in Requests
    BY DEF IInv, CopyInv, EndOf
  <1>3. stage' \in {"needs", "scan"} /\ result' # "ok" /\ UNCHANGED <<request, layerVars>>
    BY DEF Running
  <1>4. DecodeInv' /\ ChosenInv'
    BY <1>1, <1>3, LayersUntouched
  <1>5. CASE says \in {"more", "enough"} /\ needsMore' = (says = "more")
             /\ stage' = "scan" /\ UNCHANGED result
    <2>1. TypeOK'
      <3>1. needsMore' \in BOOLEAN
        BY <1>5
      <3> QED
        BY <3>1, <1>5 DEF IInv, TypeOK, VolumeTypeOK
    <2>2. IF needsMore' THEN Incomplete ELSE bytes # 0 /\ ArchiveDeclares = "enough"
      BY <1>5 DEF Incomplete
    <2>3. NeedsInv'
      BY <1>1, <1>5, <2>2, SameBytes DEF IInv, NeedsInv
    <2>4. FailureNamesItsCause'
      BY <1>5, NoFailureYet DEF Running
    <2> QED
      BY <1>2, <1>4, <2>1, <2>3, <2>4 DEF IInv
  <1>6. CASE says \in {"limit", "format"} /\ result' = says
             /\ UNCHANGED <<stage, needsMore>>
    <2>1. TypeOK'
      BY <1>6 DEF IInv, TypeOK, VolumeTypeOK, Results
    <2>2. NeedsInv'
      BY <1>1, <1>6 DEF IInv, NeedsInv
    <2>3. TruncationIsNamed'
      <3>1. bytes # 0 /\ result' = ArchiveDeclares /\ result' \in {"limit", "format"}
        BY <1>6
      <3> QED
        BY <3>1, <1>1, SameBytes, RegularDeclares DEF TruncationIsNamed
    <2>4. EncodedHeaderFailureIsAmbiguous'
      BY <1>1, <1>6 DEF EncodedHeaderFailureIsAmbiguous
    <2> QED
      BY <1>2, <1>4, <2>1, <2>2, <2>3, <2>4 DEF IInv, FailureNamesItsCause
  <1> QED
    BY <1>5, <1>6

\* What a candidate is refused with.
LEMMA CandidateResultType ==
  ASSUME NEW c
  PROVE  CandidateResult(c) \in {"ok", "format", "checksum", "unsupported", "limit"}
  BY DEF CandidateResult

\* parse_archive.
LEMMA ScanStep ==
  ASSUME IInv, Running, Scan
  PROVE  IInv'
  <1> DEFINE valid == {i \in Visible : CandidateResult(Candidates[i]) = "ok"}
  <1> USE DEF volumeVars
  <1>1. /\ stage = "scan" /\ request \in Requests /\ bytes \in Nat
        /\ UNCHANGED <<request, bytes, layer, depth, decoded, at, spent>>
        /\ depth \in Nat /\ decoded \in Nat /\ spent \in Nat
    BY DEF Scan, OpenReturns, IInv, TypeOK, VolumeTypeOK
  <1>2. ASSUME NEW r \in {"format", "checksum", "unsupported", "limit"},
               OpenReturns(r), UNCHANGED candidate
        PROVE  IInv'
    <2>1. r \in Results \ {"none", "missing", "volumes", "input", "io"} /\ r # "ok"
      BY DEF Results
    <2>2. MetadataWithinLimits'
      BY <1>1, <1>2 DEF IInv, DecodeInv, MetadataWithinLimits, OpenReturns
    <2> QED
      BY <1>1, <1>2, <2>1, <2>2, ReturnStep DEF OpenReturns
  <1>3. CASE valid = {} /\ Visible # {}
             /\ OpenReturns(CandidateResult(Candidates[Min(Visible)]))
             /\ UNCHANGED candidate
    <2>1. Visible \in SUBSET Nat
      BY <1>1, RequestType DEF Visible
    <2>2. Min(Visible) \in Visible
      BY <2>1, <1>3, MinLemma
    <2>3. CandidateResult(Candidates[Min(Visible)])
            \in {"format", "checksum", "unsupported", "limit"}
      BY <2>2, <1>3, CandidateResultType
    <2> QED
      BY <1>2, <1>3, <2>3
  <1>4. CASE OpenReturns("format") /\ UNCHANGED candidate
    BY <1>2, <1>4
  <1>5. CASE valid # {} /\ candidate' = Min(valid) /\ stage' = "layer"
             /\ UNCHANGED <<request, result, volumeVars, needsMore>>
    <2>1. valid \in SUBSET Nat /\ valid # {}
      BY <1>1, <1>5, RequestType, SMTT(40) DEF Visible
    <2>2. candidate' \in valid
      BY <2>1, <1>5, MinLemma
    <2>3. candidate' \in DOMAIN Candidates
      BY <2>2 DEF Visible
    <2>4. layer = 1 /\ result = "none"
      BY <1>1 DEF IInv, ChosenInv, Running
    <2>5. CandidateOK(Candidates[candidate'])
      BY <1>1, <2>3, RequestType
    <2>6. 1 \in DOMAIN Candidates[candidate'].layers /\ Candidates[candidate'].layers[1].valid
      <3>1. Candidates[candidate'].layers # << >> /\ IsVector(Candidates[candidate'].layers)
        BY <2>5 DEF CandidateOK
      <3>2. CandidateResult(Candidates[candidate']) = "ok"
        BY <2>2
      <3>3. Candidates[candidate'].layers[1].valid
        BY <3>2 DEF CandidateResult
      <3>4. DOMAIN Candidates[candidate'].layers # {}
        BY <3>1 DEF IsVector
      <3> QED
        BY <3>1, <3>3, <3>4 DEF IsVector
    <2>7. Candidates' = Candidates /\ Layer' = Candidates[candidate'].layers[1]
      BY <1>1, <2>4 DEF Layer, Candidates
    <2>8. TypeOK'
      <3>1. candidate' \in 0 .. Len(request.candidates)
        BY <1>1, <2>3, RequestType DEF Candidates
      <3>2. layer' \in DOMAIN request'.candidates[candidate'].layers
        BY <1>1, <2>4, <2>6 DEF Candidates
      <3> QED
        BY <1>1, <1>5, <3>1, <3>2 DEF IInv, TypeOK, VolumeTypeOK
    <2>9. CopyInv' /\ request' \in Requests
      BY <1>1, <1>5 DEF IInv, CopyInv, EndOf
    <2>10. DecodeInv'
      BY <1>1, <1>5 DEF IInv, DecodeInv, MetadataWithinLimits
    <2>11. ChosenInv'
      BY <1>1, <1>5, <2>2, <2>4, <2>6, <2>7, SameBytes DEF ChosenInv
    <2>12. NeedsInv'
      BY <1>1, <1>5, SameBytes DEF IInv, NeedsInv
    <2>13. FailureNamesItsCause'
      BY <1>5, <2>4, NoFailureYet
    <2> QED
      BY <2>8, <2>9, <2>10, <2>11, <2>12, <2>13 DEF IInv
  <1> QED
    BY <1>3, <1>4, <1>5 DEF Scan


\* In the layers, the candidate and the layer under way are what they seem.
LEMMA InLayer ==
  ASSUME IInv, stage \in {"layer", "decode"}
  PROVE  /\ request \in Requests
         /\ candidate \in DOMAIN Candidates
         /\ layer \in DOMAIN Candidates[candidate].layers
         /\ bytes \in Nat /\ depth \in Nat /\ decoded \in Nat /\ spent \in Nat
         /\ decoded <= request.maxTotal
  <1>1. candidate \in DOMAIN Candidates /\ request \in Requests
    BY DEF IInv, ChosenInv, Visible
  <1>2. candidate # 0
    BY <1>1, RequestType
  <1> QED
    BY <1>1, <1>2
    DEF IInv, TypeOK, VolumeTypeOK, DecodeInv, MetadataWithinLimits, Candidates

\* A step within the layers that does not return.
LEMMA LayerStep ==
  ASSUME IInv, Running, stage \in {"layer", "decode"},
         stage' \in {"layer", "decode"},
         UNCHANGED <<request, result, volumeVars, needsMore, candidate>>,
         layer' \in DOMAIN Candidates[candidate].layers,
         Candidates[candidate].layers[layer'].valid,
         depth' \in Nat, decoded' \in Nat, spent' \in Nat,
         DecodeInv'
  PROVE  IInv'
  <1> USE DEF volumeVars
  <1>1. /\ request \in Requests /\ request' = request /\ bytes' = bytes
        /\ candidate \in DOMAIN Candidates
    BY InLayer
  <1>2. Candidates' = Candidates /\ Layer' = Candidates[candidate].layers[layer']
    BY DEF Candidates, Layer
  <1>3. TypeOK'
    BY DEF IInv, TypeOK, VolumeTypeOK, Candidates
  <1>4. CopyInv' /\ request' \in Requests
    BY DEF IInv, CopyInv, EndOf
  <1>5. ChosenInv'
    BY <1>1, <1>2, SameBytes DEF IInv, ChosenInv, Running
  <1>6. NeedsInv'
    BY <1>1, SameBytes DEF IInv, NeedsInv
  <1>7. FailureNamesItsCause'
    BY NoFailureYet DEF Running
  <1> QED
    BY <1>3, <1>4, <1>5, <1>6, <1>7 DEF IInv

\* What a layer may produce is within both limits.
LEMMA AllowanceLemma ==
  ASSUME IInv, stage \in {"layer", "decode"}
  PROVE  /\ Allowance \in Nat
         /\ Allowance <= request.maxHeader
         /\ Allowance + decoded <= request.maxTotal
  <1>1. /\ request.maxHeader \in Nat /\ request.maxTotal \in Nat
        /\ decoded \in Nat /\ decoded <= request.maxTotal
    BY InLayer, RequestType
  <1> QED
    BY <1>1 DEF Allowance, Smaller

\* A layer is entered.
LEMMA EnterLayerStep ==
  ASSUME IInv, Running, EnterLayer
  PROVE  IInv'
  <1> USE DEF volumeVars
  <1>1. /\ stage = "layer" /\ request' = request
        /\ UNCHANGED <<candidate, layer, decoded>>
    BY DEF EnterLayer, OpenReturns
  <1>2. /\ request \in Requests /\ candidate \in DOMAIN Candidates
        /\ layer \in DOMAIN Candidates[candidate].layers /\ Layer.valid
        /\ depth \in Nat /\ decoded \in Nat /\ spent \in Nat /\ request.maxDepth \in Nat
        /\ request.maxHeader \in Nat /\ request.maxTotal \in Nat
    BY <1>1, InLayer, RequestType DEF IInv, ChosenInv
  <1>3. /\ depth <= request.maxDepth /\ spent <= request.maxHeader
        /\ decoded <= request.maxTotal
    BY DEF IInv, DecodeInv, MetadataWithinLimits
  <1>4. ASSUME NEW r \in {"ok", "limit", "format"}, OpenReturns(r),
               r = "ok" => Layer.kind # "encoded",
               depth' \in Nat, depth' <= request.maxDepth, UNCHANGED <<at, spent>>
        PROVE  IInv'
    <2>1. r \in Results \ {"none", "missing", "volumes", "input", "io"}
      BY DEF Results
    <2>2. MetadataWithinLimits'
      BY <1>1, <1>3, <1>4 DEF MetadataWithinLimits, OpenReturns
    <2> QED
      BY <1>1, <1>2, <1>4, <2>1, <2>2, ReturnStep DEF OpenReturns
  <1>5. ASSUME depth' \in Nat, depth' <= request.maxDepth,
               stage' = "decode", at' = 1, spent' = 0,
               UNCHANGED <<result, volumeVars, needsMore>>
        PROVE  IInv'
    <2>1. Allowance' \in Nat
      <3>1. Allowance' = Allowance
        BY <1>1 DEF Allowance, Smaller
      <3> QED
        BY <3>1, <1>1, AllowanceLemma
    <2>2. DecodeInv'
      BY <1>1, <1>2, <1>3, <1>5, <2>1 DEF DecodeInv, MetadataWithinLimits
    <2>3. Candidates[candidate].layers[layer'].valid
      BY <1>1, <1>2 DEF Layer
    <2> QED
      BY <1>1, <1>2, <1>5, <2>2, <2>3, LayerStep
  <1>6. CASE Layer.kind = "header" /\ OpenReturns("ok") /\ UNCHANGED <<depth, at, spent>>
    BY <1>2, <1>3, <1>4, <1>6
  <1>7. CASE stage' = "decode" /\ at' = 1 /\ spent' = 0
             /\ UNCHANGED <<depth, request, result, volumeVars, needsMore>>
    BY <1>2, <1>3, <1>5, <1>7
  <1>8. CASE OpenReturns("limit") /\ UNCHANGED <<depth, at, spent>>
    BY <1>2, <1>3, <1>4, <1>8
  <1>9. CASE depth + 1 <= request.maxDepth
             /\ OpenReturns(IF Layer.folders = << >> THEN "format" ELSE "limit")
             /\ depth' = depth + 1 /\ UNCHANGED <<at, spent>>
    BY <1>2, <1>4, <1>9
  <1>10. CASE depth + 1 <= request.maxDepth /\ depth' = depth + 1
             /\ stage' = "decode" /\ at' = 1 /\ spent' = 0
             /\ UNCHANGED <<request, result, volumeVars, needsMore>>
    BY <1>2, <1>5, <1>10
  <1> QED
    BY <1>6, <1>7, <1>8, <1>9, <1>10 DEF EnterLayer

\* Errors of an encrypted folder come out as ambiguous.
LEMMA MappedLemma ==
  ASSUME NEW r \in {"limit", "password", "format", "checksum"}, NEW e
  PROVE  /\ Mapped(r, e) \in {"limit", "password", "format", "checksum", "ambiguous"}
         /\ e => Mapped(r, e) \notin {"format", "checksum"}
  BY DEF Mapped

\* A metadata folder is decoded.
LEMMA DecodeFolderStep ==
  ASSUME IInv, Running, DecodeFolder
  PROVE  IInv'
  <1> USE DEF volumeVars
  <1> DEFINE f == Layer.folders[at]
  <1>1. /\ stage = "decode" /\ request' = request /\ at \in DOMAIN Layer.folders
        /\ UNCHANGED <<candidate, layer, depth, decoded>>
    BY DEF DecodeFolder, OpenReturns
  <1>2. /\ request \in Requests /\ candidate \in DOMAIN Candidates
        /\ layer \in DOMAIN Candidates[candidate].layers /\ Layer.valid
        /\ depth \in Nat /\ decoded \in Nat /\ spent \in Nat
    BY <1>1, InLayer DEF IInv, ChosenInv
  <1>3. f.size \in Nat /\ f.data \in {"ok", "format", "checksum", "range"}
    BY <1>1, <1>2, LayerType DEF MetadataFolder
  <1>4. /\ Allowance \in Nat /\ Allowance <= request.maxHeader
        /\ Allowance + decoded <= request.maxTotal /\ request.maxHeader \in Nat
        /\ request.maxTotal \in Nat
    BY <1>1, <1>2, AllowanceLemma, RequestType
  <1>5. CASE FolderResult(f) = "ok" /\ spent' = spent + f.size /\ at' = at + 1
             /\ UNCHANGED <<request, stage, result, volumeVars, needsMore>>
    <2>1. f.size <= Allowance - spent
      BY <1>2, <1>3, <1>4, <1>5 DEF FolderResult
    <2>2. spent' \in Nat /\ spent' <= Allowance
      BY <1>2, <1>3, <1>4, <1>5, <2>1
    <2>3. Allowance' = Allowance
      BY <1>1 DEF Allowance, Smaller
    <2>4. DecodeInv'
      BY <1>1, <1>2, <1>4, <2>2, <2>3 DEF IInv, DecodeInv, MetadataWithinLimits
    <2>5. Candidates[candidate].layers[layer'].valid
      BY <1>1, <1>2 DEF Layer
    <2> QED
      BY <1>1, <1>2, <1>5, <2>2, <2>4, <2>5, LayerStep
  <1>6. CASE FolderResult(f) # "ok" /\ OpenReturns(FolderError(f))
             /\ UNCHANGED <<at, spent>>
    <2> DEFINE plain == IF FolderResult(f) = "range" THEN "format" ELSE FolderResult(f)
    <2>1. FolderResult(f) \in {"limit", "password", "format", "checksum", "range"}
      BY <1>3, <1>6 DEF FolderResult
    <2>2. plain \in {"limit", "password", "format", "checksum"}
      BY <2>1
    <2> HIDE DEF plain
    <2>3. /\ FolderError(f) \in {"limit", "password", "format", "checksum", "ambiguous"}
          /\ Layer.kind = "encoded" /\ AnyEncrypted =>
               FolderError(f) \notin {"format", "checksum"}
      <3>1. FolderError(f) =
              IF Layer.kind = "encoded" THEN Mapped(plain, AnyEncrypted)
              ELSE IF FolderResult(f) = "range" THEN plain ELSE Mapped(plain, f.encrypted)
        BY DEF FolderError, plain
      <3> QED
        BY <2>2, <3>1, MappedLemma
    <2>4. FolderError(f) \in Results \ {"none", "missing", "volumes", "input", "io", "ok"}
      BY <2>3 DEF Results
    <2>5. MetadataWithinLimits'
      BY <1>1, <1>6 DEF IInv, DecodeInv, MetadataWithinLimits, OpenReturns, Running
    <2> HIDE DEF f
    <2> QED
      BY <1>1, <1>2, <1>6, <2>3, <2>4, <2>5, ReturnStep DEF OpenReturns
  <1> QED
    BY <1>5, <1>6 DEF DecodeFolder

\* The decoded bytes are used.
LEMMA UseDecodedStep ==
  ASSUME IInv, Running, UseDecoded
  PROVE  IInv'
  <1> USE DEF volumeVars
  <1>1. /\ stage = "decode" /\ request' = request /\ decoded' = decoded + spent
        /\ UNCHANGED <<candidate, depth, at, spent>>
    BY DEF UseDecoded, OpenReturns
  <1>2. /\ request \in Requests /\ candidate \in DOMAIN Candidates
        /\ layer \in DOMAIN Candidates[candidate].layers /\ Layer.valid
        /\ depth \in Nat /\ decoded \in Nat /\ spent \in Nat /\ decoded' \in Nat
    BY <1>1, InLayer DEF IInv, ChosenInv
  <1>3. /\ depth <= request.maxDepth /\ spent <= request.maxHeader
        /\ decoded' <= request.maxTotal
    BY <1>1 DEF IInv, DecodeInv, MetadataWithinLimits
  <1>4. /\ request.maxTotal \in Nat
        /\ LayerOK(Layer, Len(Candidates[candidate].layers))
        /\ Layer.kind \in {"header", "encoded", "pending"}
        /\ DOMAIN Candidates[candidate].layers = 1 .. Len(Candidates[candidate].layers)
    BY <1>2, LayerType, RequestType
  <1>5. ASSUME NEW r \in {"ok", "limit", "format", "ambiguous"}, OpenReturns(r),
               r = "ok" => Layer.kind # "encoded", UNCHANGED layer,
               Layer.kind = "encoded" /\ AnyEncrypted => r # "format"
        PROVE  IInv'
    <2>1. /\ r \in Results \ {"none", "missing", "volumes", "input", "io"}
          /\ r # "checksum"
      BY DEF Results
    <2>2. result' # "none"
      BY <1>5, <2>1, ReportedLemma DEF OpenReturns
    <2>3. MetadataWithinLimits'
      BY <1>1, <1>3, <2>2 DEF MetadataWithinLimits, Running
    <2> QED
      BY <1>1, <1>2, <1>5, <2>1, <2>3, ReturnStep DEF OpenReturns
  <1>6. CASE OpenReturns("limit") /\ UNCHANGED layer
    BY <1>5, <1>6
  <1>7. CASE Layer.kind = "encoded" /\ Candidates[candidate].layers[Layer.next].valid
             /\ layer' = Layer.next /\ stage' = "layer"
             /\ UNCHANGED <<request, result, volumeVars, needsMore>>
    <2>1. layer' \in DOMAIN Candidates[candidate].layers
      BY <1>4, <1>7 DEF LayerOK
    <2>2. DecodeInv'
      BY <1>1, <1>3, <1>7 DEF DecodeInv, MetadataWithinLimits
    <2> QED
      BY <1>1, <1>2, <1>7, <2>1, <2>2, LayerStep
  <1>8. CASE OpenReturns(Mapped("format", AnyEncrypted)) /\ UNCHANGED layer
    <2>1. /\ Mapped("format", AnyEncrypted) \in {"format", "ambiguous"}
          /\ AnyEncrypted => Mapped("format", AnyEncrypted) # "format"
      BY DEF Mapped
    <2> QED
      BY <1>5, <1>8, <2>1
  <1>9. CASE /\ Layer.kind # "encoded" /\ UNCHANGED layer
             /\ OpenReturns(IF Layer.kind = "pending" /\ ~ Layer.defs
                            THEN Mapped("format", Layer.folders[Layer.ref].encrypted)
                            ELSE Applied)
    <2> DEFINE r == IF Layer.kind = "pending" /\ ~ Layer.defs
                    THEN Mapped("format", Layer.folders[Layer.ref].encrypted)
                    ELSE Applied
    <2>1. r \in {"ok", "format", "ambiguous"}
      BY DEF Mapped, Applied
    <2> HIDE DEF r
    <2>2. OpenReturns(r)
      BY <1>9 DEF r
    <2> QED
      BY <1>5, <1>9, <2>1, <2>2
  <1> QED
    BY <1>6, <1>7, <1>8, <1>9 DEF UseDecoded

\* A checkpoint fails while the bytes are being opened.
LEMMA InterruptStep ==
  ASSUME IInv, Running, Interrupt
  PROVE  IInv'
  <1> USE DEF Interrupt, volumeVars, layerVars
  <1>1. CASE stage = "needs"
    <2>1. TypeOK'
      BY <1>1 DEF IInv, TypeOK, VolumeTypeOK, Results
    <2>2. CopyInv' /\ request' \in Requests
      BY DEF IInv, CopyInv, EndOf
    <2>3. DecodeInv' /\ ChosenInv'
      BY <1>1, LayersUntouched
    <2>4. NeedsInv'
      BY <1>1 DEF IInv, NeedsInv
    <2>5. FailureNamesItsCause'
      BY <1>1 DEF FailureNamesItsCause, TruncationIsNamed, EncodedHeaderFailureIsAmbiguous
    <2> QED
      BY <2>1, <2>2, <2>3, <2>4, <2>5 DEF IInv
  <1>2. CASE stage # "needs"
    <2>1. /\ "interrupted" \in Results \ {"none", "missing", "volumes", "input", "io"}
          /\ "interrupted" \notin {"ok", "format", "checksum"}
      BY DEF Results
    <2>2. depth' \in Nat /\ decoded' \in Nat /\ spent' \in Nat
      BY DEF IInv, TypeOK
    <2>3. MetadataWithinLimits'
      BY DEF IInv, DecodeInv, MetadataWithinLimits, Running
    <2> QED
      BY <1>2, <2>1, <2>2, <2>3, ReturnStep
  <1> QED
    BY <1>1, <1>2
-----------------------------------------------------------------------------
(***************************************************************************)
(* The theorems                                                            *)
(***************************************************************************)

\* The invariant holds of a state that differs in nothing.
LEMMA StutterIInv == IInv /\ UNCHANGED vars => IInv'
  <1> SUFFICES ASSUME IInv, UNCHANGED vars PROVE IInv'
    OBVIOUS
  <1> USE DEF vars, volumeVars, layerVars
  <1>1. request' = request /\ bytes' = bytes
    OBVIOUS
  <1>2. TypeOK' /\ CopyInv' /\ request' \in Requests
    BY DEF IInv, TypeOK, VolumeTypeOK, CopyInv, EndOf
  <1>3. Layer' = Layer /\ Running' = Running /\ Allowance' = Allowance
    BY DEF Layer, Running, Allowance, Smaller, Candidates
  <1>4. AnyEncrypted' = AnyEncrypted
    BY <1>3 DEF AnyEncrypted
  <1>5. DecodeInv'
    BY <1>3 DEF IInv, DecodeInv, MetadataWithinLimits
  <1>6. ChosenInv' /\ NeedsInv'
    BY <1>1, <1>3, SameBytes DEF IInv, ChosenInv, NeedsInv
  <1>7. FailureNamesItsCause'
    BY <1>1, <1>3, <1>4, SameBytes
    DEF IInv, FailureNamesItsCause, TruncationIsNamed, EncodedHeaderFailureIsAmbiguous
  <1> QED
    BY <1>2, <1>5, <1>6, <1>7 DEF IInv

\* Every step preserves the invariant.
LEMMA NextIInv == IInv /\ [Next]_vars => IInv'
  <1> SUFFICES ASSUME IInv, Next PROVE IInv'
    BY StutterIInv
  <1> QED
    BY VolumeLimitStep, OpenVolumeStep, ReadVolumeStep, CloseVolumeStep,
       VolumeInterruptStep, NeedsMoreStep, ScanStep, EnterLayerStep,
       DecodeFolderStep, UseDecodedStep, InterruptStep
    DEF Next, Step, Stop

\* The invariant holds of every reachable state.
LEMMA AlwaysIInv == Spec => []IInv
  <1>1. Init => IInv
    BY InitIInv
  <1>2. IInv /\ [Next]_vars => IInv'
    BY NextIInv
  <1> QED
    BY <1>1, <1>2, PTL DEF Spec

\* Opening stays within its limits at every step: volumes and input bytes
\* while append_volume copies, recursion, header bytes and total metadata
\* while encoded headers and additional streams are decoded.
THEOREM OpenBounded == Spec => []OpenIsBounded
  <1>1. IInv => OpenIsBounded
    BY DEF IInv, OpenIsBounded, InputWithinLimits, CopyInv, DecodeInv
  <1> QED
    BY <1>1, AlwaysIInv, PTL

\* An archive is opened only when all that its headers declare is in the bytes
\* read, those bytes are whole volumes, and the layer used is validated and
\* not encoded.
THEOREM OpenedComplete == Spec => []OpenedIsComplete
  <1>1. IInv => OpenedIsComplete
    <2> SUFFICES ASSUME IInv, result = "ok" PROVE OpenedIsComplete
      BY DEF OpenedIsComplete
    <2>1. /\ stage \in {"layer", "decode"} /\ Layer.kind # "encoded" /\ Layer.valid
          /\ CandidateResult(Candidates[candidate]) = "ok"
      BY DEF IInv, ChosenInv
    <2>2. CandidateOK(Candidates[candidate]) /\ bytes \in Nat
      BY <2>1, InLayer, LayerType
    <2>3. bytes = EndOf(index)
      BY <2>1 DEF IInv, CopyInv
    <2>4. /\ Candidates[candidate].start /\ Candidates[candidate].crc
          /\ Candidates[candidate].end # Overflow
          /\ ~ (Candidates[candidate].end > bytes)
      BY <2>1 DEF CandidateResult
    <2>5. Candidates[candidate].end <= bytes
      BY <2>2, <2>4 DEF CandidateOK
    <2> QED
      BY <2>1, <2>3, <2>4, <2>5 DEF OpenedIsComplete
  <1> QED
    BY <1>1, AlwaysIInv, PTL

\* A failed open names its cause, for every sequence of volumes: a truncated
\* regular archive is never reported with the error of its truncated bytes,
\* a complete one never as missing a part, and an encoded header with an
\* encrypted folder never as plainly damaged.
THEOREM FailureNamed == Spec => []FailureNamesItsCause
  <1>1. IInv => FailureNamesItsCause
    BY DEF IInv
  <1> QED
    BY <1>1, AlwaysIInv, PTL
-----------------------------------------------------------------------------
(***************************************************************************)
(* The reader that hands out one member of the opened archive, for members, *)
(* budgets and chunks of any size.  VerdictIsTrue is not inductive: a       *)
(* failed read_chunk leaves more bytes in the checksum than the position    *)
(* says, and the reader may still be used.  Doomed is why that does no      *)
(* harm.                                                                    *)
(***************************************************************************)

\* The bytes still to be hashed can never all be charged: the token is set
\* and some byte is unread, or the budget left is smaller than their number.
Doomed ==
  \/ cancelled /\ fed = 0 /\ position < length
  \/ bounded /\ budget < length - (position + fed)

\* Between calls no slice is open.
NoSliceBetweenCalls == op \in {"idle", "closed"} => count = 0

ReaderIInv ==
  /\ ReaderTypeOK
  /\ NoSliceBetweenCalls
  /\ ~ failed => hashed = position + fed
  /\ failed => Doomed
  /\ VerdictIsTrue
  /\ FailedReaderNeverJudges

\* The smaller of two numbers is one of them and exceeds neither.
LEMMA LesserLemma ==
  ASSUME NEW a \in Nat, NEW b \in Nat
  PROVE  /\ Lesser(a, b) \in Nat
         /\ Lesser(a, b) <= a
         /\ Lesser(a, b) <= b
         /\ a # 0 /\ b # 0 => Lesser(a, b) # 0
  BY DEF Lesser

\* The reader starts in step with its checksum.
LEMMA ReaderInitIInv == ReaderInit => ReaderIInv
  <1> SUFFICES ASSUME ReaderInit PROVE ReaderIInv
    OBVIOUS
  <1>1. /\ length \in Nat
        /\ position \in 0 .. length
        /\ count \in 0 .. length - position
        /\ fed \in 0 .. count
        /\ hashed \in Nat
    BY SizesAssumption DEF ReaderInit
  <1>2. cancelled \in BOOLEAN /\ failed \in BOOLEAN
    BY Zenon DEF ReaderInit
  <1>3. ReaderTypeOK
    BY <1>1, <1>2 DEF ReaderInit, ReaderTypeOK
  <1>4. ~ failed /\ hashed = position + fed
    BY DEF ReaderInit
  <1> QED
    BY <1>3, <1>4
    DEF ReaderInit, ReaderIInv, NoSliceBetweenCalls, VerdictIsTrue,
        FailedReaderNeverJudges

\* A slice being worked on has a next chunk that fits into it.
LEMMA NextChunkLemma ==
  ASSUME ReaderTypeOK, fed < count
  PROVE  /\ NextChunk \in Nat
         /\ NextChunk # 0
         /\ fed + NextChunk <= count
  <1>1. count \in Nat /\ fed \in Nat /\ count - fed \in Nat \ {0}
    BY SizesAssumption DEF ReaderTypeOK
  <1>2. ControlChunk \in Nat \ {0}
    BY SizesAssumption
  <1>3. /\ Lesser(ControlChunk, count - fed) \in Nat
        /\ Lesser(ControlChunk, count - fed) # 0
        /\ Lesser(ControlChunk, count - fed) <= count - fed
    BY <1>1, <1>2, LesserLemma
  <1> QED
    BY <1>1, <1>3 DEF NextChunk

\* A call that gives up inside a slice leaves the reader doomed.
LEMMA ReaderChunkIInv == ReaderIInv /\ Chunk => ReaderIInv'
  <1> SUFFICES ASSUME ReaderIInv, Chunk PROVE ReaderIInv'
    OBVIOUS
  <1> USE DEF ReaderIInv, ReaderTypeOK
  <1>1. /\ NextChunk \in Nat
        /\ NextChunk # 0
        /\ fed + NextChunk <= count
    BY NextChunkLemma DEF Chunk
  <1>2. UNCHANGED <<length, crc, folderBad, encrypted, bounded, position,
                    cancelled>>
    BY DEF Chunk, member
  <1>3. op \in {"read", "finish"} /\ fed < count
    BY DEF Chunk
  <1>4. CASE cancelled /\ GiveUp("cancelled")
    <2>1. position < length
      BY <1>3, SizesAssumption
    <2>2. Doomed'
      BY <1>2, <1>4, <2>1 DEF GiveUp, Doomed
    <2> QED
      BY <1>2, <1>3, <1>4, <2>2, SizesAssumption
      DEF GiveUp, NoSliceBetweenCalls, VerdictIsTrue, FailedReaderNeverJudges
  <1>5. CASE bounded /\ budget < NextChunk /\ GiveUp("work")
    <2>1. budget < length - position
      BY <1>1, <1>3, <1>5, SizesAssumption
    <2>2. Doomed'
      BY <1>2, <1>5, <2>1, SizesAssumption DEF GiveUp, Doomed
    <2> QED
      BY <1>2, <1>3, <1>5, <2>2, SizesAssumption
      DEF GiveUp, NoSliceBetweenCalls, VerdictIsTrue, FailedReaderNeverJudges
  <1>6. CASE /\ ~ cancelled
             /\ ~ bounded \/ budget >= NextChunk
             /\ budget' = IF bounded THEN budget - NextChunk ELSE budget
             /\ hashed' = hashed + NextChunk
             /\ fed' = fed + NextChunk
             /\ UNCHANGED <<op, count, failed, outcome>>
    <2>1. failed' => Doomed'
      BY <1>1, <1>2, <1>3, <1>6, SizesAssumption DEF Doomed
    <2>2. ReaderTypeOK'
      BY <1>1, <1>2, <1>3, <1>6, SizesAssumption
    <2>3. ~ failed' => hashed' = position' + fed'
      BY <1>1, <1>2, <1>3, <1>6, SizesAssumption
    <2> QED
      BY <1>2, <1>3, <1>6, <2>1, <2>2, <2>3
      DEF NoSliceBetweenCalls, VerdictIsTrue, FailedReaderNeverJudges
  <1> QED
    BY <1>4, <1>5, <1>6 DEF Chunk

\* Moving the position over a hashed slice keeps the two in step.
LEMMA ReaderAdvanceIInv == ReaderIInv /\ Advance => ReaderIInv'
  <1> SUFFICES ASSUME ReaderIInv, Advance PROVE ReaderIInv'
    OBVIOUS
  <1> USE DEF ReaderIInv, ReaderTypeOK, Advance, member
  <1>1. ReaderTypeOK'
    BY SizesAssumption
  <1>2. failed' => Doomed'
    BY SizesAssumption DEF Doomed
  <1>3. ~ failed' => hashed' = position' + fed'
    BY SizesAssumption
  <1> QED
    BY <1>1, <1>2, <1>3
    DEF NoSliceBetweenCalls, VerdictIsTrue, FailedReaderNeverJudges

\* A verdict is reached with nothing left to read, so by a reader that never
\* failed and whose checksum covers the member exactly.
LEMMA ReaderVerifyIInv == ReaderIInv /\ VerifyIntegrity => ReaderIInv'
  <1> SUFFICES ASSUME ReaderIInv, VerifyIntegrity PROVE ReaderIInv'
    OBVIOUS
  <1> USE DEF ReaderIInv, ReaderTypeOK
  <1>1. /\ op = "finish" /\ op' = "closed"
        /\ count = 0 /\ position >= length
        /\ UNCHANGED <<length, crc, folderBad, encrypted, bounded, position,
                       hashed, budget, cancelled, count, fed, failed>>
    BY DEF VerifyIntegrity, member
  <1>2. fed = 0 /\ position = length
    BY <1>1, SizesAssumption
  <1>3. ~ Doomed
    BY <1>2, SizesAssumption DEF Doomed
  <1>4. hashed = length /\ ~ failed
    BY <1>2, <1>3, SizesAssumption
  <1>5. outcome' = Verdict(crc = "mismatch")
    BY <1>4 DEF VerifyIntegrity, Differs
  <1>6. /\ outcome' \in {"ok", "member", "folder", "password"}
        /\ VerdictIsTrue'
    BY <1>1, <1>5 DEF Verdict, VerdictIsTrue
  <1> QED
    BY <1>1, <1>2, <1>3, <1>4, <1>6
    DEF NoSliceBetweenCalls, FailedReaderNeverJudges

\* The calls that only open a slice, and the token, disturb nothing.
LEMMA ReaderCallIInv ==
  ASSUME ReaderIInv,
         Cancel \/ Finish \/ Consume \/ \E n \in 0 .. MaxLength : ReadChunk(n)
  PROVE  ReaderIInv'
  <1> USE DEF ReaderIInv, ReaderTypeOK, member
  <1>1. CASE Cancel
    BY <1>1, SizesAssumption
    DEF Cancel, Doomed, NoSliceBetweenCalls, VerdictIsTrue,
        FailedReaderNeverJudges
  <1>2. CASE Finish
    BY <1>2, SizesAssumption
    DEF Finish, Doomed, NoSliceBetweenCalls, VerdictIsTrue,
        FailedReaderNeverJudges
  <1>3. CASE Consume
    <2>1. /\ Lesser(SliceChunk, length - position) \in Nat
          /\ Lesser(SliceChunk, length - position) <= length - position
      BY <1>3, SizesAssumption, LesserLemma DEF Consume
    <2>2. fed = 0
      BY <1>3, SizesAssumption DEF Consume
    <2> QED
      BY <1>3, <2>1, <2>2, SizesAssumption
      DEF Consume, Doomed, NoSliceBetweenCalls, VerdictIsTrue,
          FailedReaderNeverJudges
  <1>4. ASSUME NEW n \in 0 .. MaxLength, ReadChunk(n) PROVE ReaderIInv'
    <2>1. position < length =>
             /\ Lesser(n, length - position) \in Nat
             /\ Lesser(n, length - position) <= length - position
      <3>1. n \in Nat /\ (position < length => length - position \in Nat)
        BY SizesAssumption
      <3> QED
        BY <3>1, LesserLemma
    <2>2. fed = 0 /\ count = 0
      BY <1>4, SizesAssumption DEF ReadChunk, NoSliceBetweenCalls
    <2> QED
      BY <1>4, <2>1, <2>2, SizesAssumption
      DEF ReadChunk, Doomed, NoSliceBetweenCalls, VerdictIsTrue,
          FailedReaderNeverJudges
  <1> QED
    BY <1>1, <1>2, <1>3, <1>4

\* Every step keeps the invariant.
LEMMA ReaderNextIInv == ReaderIInv /\ [ReaderNext]_readerVars => ReaderIInv'
  <1> SUFFICES ASSUME ReaderIInv, [ReaderNext]_readerVars PROVE ReaderIInv'
    OBVIOUS
  <1>1. CASE Chunk
    BY <1>1, ReaderChunkIInv
  <1>2. CASE Advance
    BY <1>2, ReaderAdvanceIInv
  <1>3. CASE VerifyIntegrity
    BY <1>3, ReaderVerifyIInv
  <1>4. CASE Cancel \/ Finish \/ Consume \/ \E n \in 0 .. MaxLength : ReadChunk(n)
    BY <1>4, ReaderCallIInv
  <1>5. CASE UNCHANGED readerVars
    BY <1>5
    DEF readerVars, member, ReaderIInv, ReaderTypeOK, NoSliceBetweenCalls, Doomed,
        VerdictIsTrue, FailedReaderNeverJudges
  <1> QED
    BY <1>1, <1>2, <1>3, <1>4, <1>5 DEF ReaderNext, Work

LEMMA ReaderSpecIInv == ReaderSpec => []ReaderIInv
  BY ReaderInitIInv, ReaderNextIInv, PTL DEF ReaderSpec

\* The reader's state stays in its types: position, slice and budget never
\* leave their ranges.
THEOREM ReaderTyped == ReaderSpec => []ReaderTypeOK
  <1>1. ReaderIInv => ReaderTypeOK
    BY DEF ReaderIInv
  <1> QED
    BY <1>1, ReaderSpecIInv, PTL

\* What finish reports is what the data is, whatever was read, cancelled or
\* retried before.
THEOREM ReaderVerdict == ReaderSpec => []VerdictIsTrue
  <1>1. ReaderIInv => VerdictIsTrue
    BY DEF ReaderIInv
  <1> QED
    BY <1>1, ReaderSpecIInv, PTL

\* A reader that gave up inside a slice never comes to a verdict.
THEOREM ReaderFailure == ReaderSpec => []FailedReaderNeverJudges
  <1>1. ReaderIInv => FailedReaderNeverJudges
    BY DEF ReaderIInv
  <1> QED
    BY <1>1, ReaderSpecIInv, PTL
=============================================================================
