------------------------------ MODULE VolumeSet ------------------------------
(***************************************************************************)
(* volume.rs: the bytes of an archive fetched from a VolumeProvider, as    *)
(* .001, .002, ... (read_sequential_volumes) or as one file                *)
(* (read_single_volume), a bounded read at a time (append_volume).         *)
(*                                                                         *)
(* A request is one call of an open function: its mode, where each of the  *)
(* volumes that exist ends in their concatenation, what that holds (see    *)
(* ArchiveOpen) and its limits.  The provider may fail, or deliver less than it said,   *)
(* at any time.  Bytes are counted, not kept.                              *)
(***************************************************************************)
EXTENDS Integers, Sequences, FiniteSetsExt

CONSTANTS
  Requests,     \* the calls to consider
  IoChunk       \* IO_CHUNK_SIZE

ASSUME VolumeAssumption ==
  /\ IoChunk \in Nat \ {0}
  /\ \A r \in Requests : /\ r.mode \in {"sequence", "single"}
                         /\ r.ends \in Seq(Nat)
                         /\ \A j, k \in DOMAIN r.ends :
                               j <= k => r.ends[j] <= r.ends[k]
                         /\ r.maxVolumes \in Nat
                         /\ r.maxInput \in Nat

VARIABLES
  request,
  stage,         \* the loop the call is in
  result,        \* "none", then what the call returns
  index,         \* volumes fetched completely
  bytes,         \* bytes assembled
  remaining,     \* bytes of the current volume still to be read
  termination    \* VolumeTermination

volumeVars == <<index, bytes, remaining, termination>>

Smaller(a, b) == IF a <= b THEN a ELSE b

VolumeTypeOK ==
  /\ index \in 0 .. Len(request.ends)
  /\ bytes \in Nat
  /\ remaining \in Nat
  /\ termination \in {"none", "missing", "limit"}
-----------------------------------------------------------------------------
VolumeInit ==
  /\ request \in Requests
  /\ stage = "volumes"
  /\ result = "none"
  /\ index = 0
  /\ bytes = 0
  /\ remaining = 0
  /\ termination = "none"

\* The call ends before the bytes are complete.
VolumeReturns(r) ==
  /\ result' = r
  /\ UNCHANGED <<request, stage, volumeVars>>

\* The sequence is over; why decides what an incomplete archive is called.
Assembled(why) ==
  /\ stage' = "needs"
  /\ termination' = why
  /\ UNCHANGED <<request, result, index, bytes, remaining>>

Exists(k) == k \in DOMAIN request.ends

\* Where the first k volumes end, and the length the provider declares for the
\* k-th.
EndOf(k) == IF k = 0 THEN 0 ELSE request.ends[k]
Length(k) == EndOf(k) - EndOf(k - 1)

\* The volume count is at its limit: an error only when nothing was read.
VolumeLimit ==
  /\ stage = "volumes"
  /\ index + 1 > request.maxVolumes
  /\ \/ bytes = 0 /\ VolumeReturns("volumes")
     \/ bytes # 0 /\ Assembled("limit")

\* The aggregate is checked before anything is reserved or read.
TooMuchInput(length) == bytes + length > request.maxInput

\* provider.open_volume: the volume, the news that there is none, which is
\* an error only for a single file, or an error.
OpenVolume ==
  /\ stage = "volumes"
  /\ index + 1 <= request.maxVolumes
  /\ \/ /\ ~ Exists(index + 1)
        /\ request.mode = "sequence"
        /\ Assembled("missing")
     \/ /\ ~ Exists(index + 1)
        /\ request.mode = "single"
        /\ VolumeReturns("missing")
     \/ /\ Exists(index + 1)
        /\ TooMuchInput(Length(index + 1))
        /\ VolumeReturns("input")
     \/ /\ Exists(index + 1)
        /\ ~ TooMuchInput(Length(index + 1))
        /\ remaining' = Length(index + 1)
        /\ stage' = "copy"
        /\ UNCHANGED <<request, result, index, bytes, termination>>
     \/ VolumeReturns("io")

\* What one Read::read call may return: never more than is declared.
ReadSizes == 1 .. Smaller(remaining, IoChunk)

\* append_volume: one read of at most a buffer, or a short or failed one.
ReadVolume ==
  /\ stage = "copy"
  /\ remaining # 0
  /\ \/ \E n \in ReadSizes :
          /\ bytes' = bytes + n
          /\ remaining' = remaining - n
          /\ UNCHANGED <<request, stage, result, index, termination>>
     \/ VolumeReturns("io")

\* Mutant: an empty volume is asked for again.
CloseVolume_EmptyAgain ==
  /\ stage = "copy"
  /\ remaining = 0
  /\ index' = IF Length(index + 1) = 0 THEN index ELSE index + 1
  /\ stage' = IF request.mode = "sequence" THEN "volumes" ELSE "scan"
  /\ UNCHANGED <<request, result, bytes, remaining, termination>>

CloseVolume ==
  /\ stage = "copy"
  /\ remaining = 0
  /\ index' = index + 1
  /\ stage' = IF request.mode = "sequence" THEN "volumes" ELSE "scan"
  /\ UNCHANGED <<request, result, bytes, remaining, termination>>

\* A checkpoint before a request or a read fails.
VolumeInterrupt ==
  /\ \/ /\ stage = "volumes" /\ index + 1 <= request.maxVolumes
        /\ request.mode = "sequence" \/ Exists(1)
     \/ stage = "copy"
  /\ VolumeReturns("interrupted")
-----------------------------------------------------------------------------
\* "enforces max_volumes and max_total_input_bytes": at no time are more
\* volumes fetched or more bytes held than allowed, and what is held is the
\* volumes so far, whole and in order.
InputWithinLimits ==
  /\ index <= request.maxVolumes
  /\ bytes + remaining <= request.maxInput
  /\ stage # "copy" => bytes = EndOf(index)
=============================================================================
