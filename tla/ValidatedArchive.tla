--------------------------- MODULE ValidatedArchive ---------------------------
(***************************************************************************)
(* A 7z archive from its raw header to the sink: StreamMap builds the      *)
(* model, Archive::open returns it, and Extraction verifies and extracts   *)
(* what it describes.                                                      *)
(*                                                                         *)
(* The header names sizes and CRCs.  What the packed data really holds     *)
(* (facts) is chosen when the archive is opened: nothing before looks at   *)
(* it.  A CRC matches only the range of the substream it was stored for,   *)
(* so a digest that validation gives to another substream is a mismatch.   *)
(***************************************************************************)
EXTENDS StreamMap

CONSTANTS
  Facts(_),    \* what the packed data of a raw header may hold, and the
               \* Limits the archive may be opened with
  IoChunk      \* IO_CHUNK_SIZE

VARIABLES
  facts,       \* the packed data, known once the archive is open
  archive, limits, stage, verified, extracted, item, total, folder, next,
  offset, end, cursor, delivered, decodes, begun, got, finished

X == INSTANCE Extraction WITH at <- item

operationVars ==
  <<archive, limits, stage, verified, extracted, item, total, folder, next,
    offset, end, cursor, delivered, decodes, begun, got, finished>>

vars == <<mapVars, facts, operationVars>>

ASSUME ChunkAssumption == IoChunk \in Nat \ {0}

\* actual is what the coders of each folder produce (a declared root size is
\* checked by the decoder), wrong the CRCs that do not match, damaged the
\* folders whose decoder fails, additional the additional streams' folders.
FactsOK(r, x) ==
  /\ x.actual \in [DOMAIN r.folders -> Nat]
  /\ \A i \in DOMAIN r.folders :
       r.folders[i].root # Unknown => x.actual[i] = r.folders[i].root
  /\ NoCrc \notin x.wrong
  /\ x.damaged \subseteq DOMAIN r.folders
  /\ x.encrypted \subseteq DOMAIN r.folders
  /\ Len(x.additional) = Len(r.pack["additional"].packs)
  /\ \A i \in DOMAIN x.additional : X!FolderOK(x.additional[i])
  /\ x.limits \in [entry : Nat, total : Nat, header : Nat]

ASSUME FactsAssumption == \A r \in RawArchives : \A x \in Facts(r) : FactsOK(r, x)

NoFacts == [actual |-> << >>, wrong |-> {}, damaged |-> {}, encrypted |-> {},
            additional |-> << >>, limits |-> [entry |-> 0, total |-> 0, header |-> 0]]

\* The verdict on a CRC, given the one stored for the range it is used on.
Verdict(crc, declared, wrong) ==
  IF crc = NoCrc THEN "absent"
  ELSE IF crc # declared \/ crc \in wrong THEN "mismatch"
  ELSE "match"

\* The archive that Archive::open returns: the validated model and the data.
Opened(x) ==
  [folders |-> [f \in DOMAIN folders |->
     [root      |-> folders[f].root,
      crc       |-> Verdict(folders[f].crc, FolderCrc(f), x.wrong),
      subs      |-> [k \in DOMAIN folders[f].subs |->
                       [size |-> folders[f].subs[k].size,
                        crc  |-> Verdict(folders[f].subs[k].crc,
                                         DeclaredCrc(f, k), x.wrong)]],
      actual    |-> x.actual[f],
      damaged   |-> f \in x.damaged,
      encrypted |-> f \in x.encrypted]],
   members    |-> members,
   additional |-> x.additional,
   hasFiles   |-> raw.hasFiles]
-----------------------------------------------------------------------------
Init ==
  /\ MapInit
  /\ facts = NoFacts
  /\ X!Init

Validate == MapStep /\ UNCHANGED <<facts, operationVars>>

ValidateInterrupted == MapInterrupt /\ UNCHANGED <<facts, operationVars>>

\* Validation passed: Archive::open returns the archive to the caller.
Open ==
  /\ result = "ok"
  /\ facts' \in Facts(raw)
  /\ X!Open(Opened(facts'), facts'.limits)
  /\ UNCHANGED mapVars

Operate == X!Step /\ UNCHANGED <<mapVars, facts>>

OperateInterrupted == X!Interrupt /\ UNCHANGED <<mapVars, facts>>

Step == Validate \/ Open \/ Operate

Next == Step \/ ValidateInterrupted \/ OperateInterrupted

\* The caller's thread keeps running, and a sink call returns.
Spec == Init /\ [][Next]_vars /\ WF_vars(Step)
-----------------------------------------------------------------------------
(***************************************************************************)
(* What the raw header says of a member, by counting in the file           *)
(***************************************************************************)

\* The k-th size of folder i: stored for all but the last substream.
DeclaredSize(i, k) ==
  LET n == Count(raw, i)
      before == SumFunction([j \in 1 .. i - 1 |-> IF Count(raw, j) > 1
                                                 THEN Count(raw, j) - 1 ELSE 0]) IN
  IF n > 1 /\ raw.hasSizes THEN raw.sizes[before + k] ELSE Unknown

\* The range of the k-th substream in the data of folder i: the last one ends
\* with the data.
DeclaredRange(i, k) ==
  LET start == SumFunction([j \in 1 .. k - 1 |-> DeclaredSize(i, j)]) IN
  <<start, IF k = Count(raw, i) THEN facts.actual[i]
                                ELSE start + DeclaredSize(i, k)>>

\* The substream of file m: files with a stream take the substreams of all
\* folders in order.
DeclaredPlace(m) ==
  LET rank == Cardinality({j \in 1 .. m : ~ raw.emptyStream[j]})
      upTo(i) == SumFunction([j \in 1 .. i |-> Count(raw, j)])
      i == Min({f \in DOMAIN raw.folders : upTo(f) >= rank}) IN
  <<i, rank - upTo(i - 1)>>

\* The parser's counts and the validator's cursors agree at every step; the
\* header passes validation only if it is the model extraction relies on, and
\* that is what is opened.
HandoverIsSound ==
  /\ CursorsAgree
  /\ ValidatedIsCovered
  /\ stage # "closed" => X!OpenArchive(archive)

\* "finish_entry is its success boundary": a finished file got exactly the
\* bytes that the header gives it, once and in order, from a folder that
\* decodes, and neither its own CRC nor the folder's is wrong.
FinishedIsIntact ==
  \A m \in X!FinishedSet : ~ raw.emptyStream[m] =>
    LET i == DeclaredPlace(m)[1]
        k == DeclaredPlace(m)[2] IN
    /\ X!Covers(got[m], DeclaredRange(i, k))
    /\ i \notin facts.damaged
    /\ FolderCrc(i) \in facts.wrong => ~ raw.folders[i].hasCrc
    /\ DeclaredCrc(i, k) \notin facts.wrong

\* A checksum or password error is about the data: some stored CRC is wrong,
\* or some decoder failed, in the streams or in the additional streams.
BlameIsTrue ==
  LET bad(f) == \/ f.damaged \/ f.crc = "mismatch"
                \/ \E k \in DOMAIN f.subs : f.subs[k].crc = "mismatch" IN
  {verified, extracted} \cap {"checksum", "password"} # {} =>
    \/ facts.wrong # {} \/ facts.damaged # {}
    \/ \E i \in DOMAIN facts.additional : bad(facts.additional[i])

\* From the raw header to the sink, the stored checksums decide: nothing is
\* finished against one that is wrong, nothing is refused while all are right.
ChecksumsDecide == FinishedIsIntact /\ BlameIsTrue

\* What extract_entries_to promises its sink: brackets in order, success only
\* for all files, and no internal error on a validated archive.
SinkIsServed == X!SinkIsServed

\* The slices of a member and the counters stay inside the decoded folder,
\* and the output inside the limits.
OutputIsBounded == X!OutputIsBounded

\* verify, extract_entries_to and extract_entry, three pieces of code, judge
\* an archive and its members alike.
OperationsAgree == X!OperationsAgree

\* Validation and both operations return.
Terminates == <>(result \notin {"none", "ok"} \/ stage = "done")
=============================================================================
