------------------------------ MODULE PackRanges ------------------------------
(***************************************************************************)
(* The packed streams of a StreamsInfo section: the range of each one and  *)
(* the folder that reads it.                                               *)
(*                                                                         *)
(*   validate.rs  validate_pack_ranges          SectionVerdict, Ranges     *)
(*                validate_streams              FirstPacks, AllAssigned    *)
(*                check_non_overlapping_ranges  Overlapping                *)
(*                                                                         *)
(* Offsets count from the end of the fixed header, so that a range starts  *)
(* at its section's position; the stored next header is at `header`, and   *)
(* reading the envelope has shown it to lie inside the archive.  A sum     *)
(* beyond u64 is refused like one beyond the next header.                  *)
(***************************************************************************)
EXTENDS ArchiveModel, SequencesExt

\* A raw section: streams is 0 without PackInfo, sizes is empty when PackInfo
\* has none, and packs is the number of packed inputs of each folder.  The
\* parser refuses zero streams, zero folders and a folder without packed
\* inputs.
SectionOK(s) ==
  /\ s.position \in Nat
  /\ s.streams \in Nat
  /\ s.sizes \in Seq(Sizes)
  /\ Len(s.sizes) \in {0, s.streams}
  /\ s.packs \in Seq(Nat \ {0})

\* Where the k-th packed stream ends, if the sizes up to it are known.
PackEnd(s, k) == s.position + SumFunctionOnSet(s.sizes, 1 .. k)

\* The loop over the sizes stops at the first that is unknown or passes the
\* next header.
SectionVerdict(s, header) ==
  LET fails == {k \in DOMAIN s.sizes :
                  s.sizes[k] = Unknown \/ PackEnd(s, k) > header} IN
  CASE s.sizes = << >> -> "format"
    [] s.sizes # << >> /\ fails = {} -> "ok"
    [] fails # {} -> IF s.sizes[Min(fails)] = Unknown THEN "unsupported"
                     ELSE "format"

\* The packed streams as <<start, end>>, one behind the other.
Ranges(s) ==
  [k \in DOMAIN s.sizes |-> <<PackEnd(s, k - 1), PackEnd(s, k)>>]

\* first_pack_stream of each folder, counted from zero: assigned_pack_streams
\* when the folder's turn comes.
FirstPacks(packs) ==
  [f \in DOMAIN packs |-> SumFunctionOnSet(packs, 1 .. f - 1)]

\* The folders take as many packed streams as PackInfo has.
AllAssigned(s) == SumFunction(s.packs) = s.streams

\* PackInfo and UnpackInfo must appear together.
Paired(s) == s.streams > 0 <=> s.packs # << >>

\* Mutant: each section is compared with itself alone.
WithSection_Fresh(spans, s) == <<<<s.position, PackEnd(s, Len(s.sizes))>>>>

\* A section without bytes takes no part in the comparison.
WithSection(spans, s) ==
  IF PackEnd(s, Len(s.sizes)) > s.position
  THEN Append(spans, <<s.position, PackEnd(s, Len(s.sizes))>>)
  ELSE spans

\* check_non_overlapping_ranges: sorted by start, each against the one before.
Overlapping(spans) ==
  LET order == CHOOSE p \in Bijection(DOMAIN spans, DOMAIN spans) :
                 \A i, j \in DOMAIN spans :
                   i < j => spans[p[i]][1] <= spans[p[j]][1]
      sorted == [i \in DOMAIN spans |-> spans[order[i]]] IN
  \E i \in DOMAIN sorted \ {1} : sorted[i][1] < sorted[i - 1][2]

\* load_packed_inputs: the range read for the j-th packed input of a folder
\* whose first packed stream is first.
Loaded(ranges, first, j) == ranges[first + j]
-----------------------------------------------------------------------------
\* The bytes of a range.
Bytes(range) == range[1] .. range[2] - 1
=============================================================================
