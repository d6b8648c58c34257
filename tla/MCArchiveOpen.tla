---------------------------- MODULE MCArchiveOpen ----------------------------
(***************************************************************************)
(* Requests for TLC, in three families: regular archives cut into volumes  *)
(* in every way, SFX files with a decoy before the archive, and chains of  *)
(* header layers, among them one that decodes to itself.                   *)
(***************************************************************************)
EXTENDS ArchiveOpen, SequencesExt

Plain == [kind |-> "header", valid |-> TRUE, folders |-> << >>, props |-> 0,
          applies |-> TRUE]

Folder(size, declared, encrypted, data) ==
  [size |-> size, declared |-> declared, encrypted |-> encrypted,
   data |-> data]

Archive(offset, end, layers) ==
  [at |-> offset, start |-> TRUE, major |-> TRUE, size |-> 1, end |-> end,
   crc |-> TRUE, layers |-> layers]

Call(mode, lengths, candidates) ==
  [mode |-> mode,
   ends |-> [k \in DOMAIN lengths |-> FoldLeft(+, 0, SubSeq(lengths, 1, k))],
   candidates |-> candidates,
   password |-> TRUE, maxVolumes |-> 3, maxInput |-> 20, maxHeader |-> 2,
   maxTotal |-> 4, maxDepth |-> 2, scanLimit |-> 3]

\* A regular archive of 3 to 5 units, damaged or not, in up to three volumes.
RegularArchives ==
  UNION {{Archive(0, end, <<Plain>>),
          Archive(0, end, <<[Plain EXCEPT !.valid = FALSE]>>),
          [Archive(0, end, <<Plain>>) EXCEPT !.start = FALSE]} :
           end \in {3, 5, Overflow}}

VolumeCalls ==
  {[Call(mode, lengths, <<archive>>)
      EXCEPT !.maxVolumes = maxVolumes, !.maxInput = maxInput] :
     mode \in {"sequence", "single"},
     lengths \in BoundedSeq({0, 2, 3}, 3),
     archive \in RegularArchives,
     maxVolumes \in {0, 2, 3},
     maxInput \in {4, 20}}

\* A decoy at 1, whose archive would end at 4 or far behind, a real archive
\* at 3 that ends at 6, the latter perhaps encrypted.
Decoys ==
  {[at |-> 1, start |-> start, major |-> major, size |-> size, end |-> end,
    crc |-> crc, layers |-> <<[Plain EXCEPT !.valid = valid]>>] :
     start \in BOOLEAN, major \in BOOLEAN, size \in {1, 3},
     end \in {6, 9, Overflow}, crc \in BOOLEAN, valid \in BOOLEAN}

EncodedTo(next, folders) ==
  [kind |-> "encoded", valid |-> TRUE, folders |-> folders, next |-> next]

SfxCalls ==
  {[Call("sequence", lengths, <<decoy, Archive(3, 6, layers)>>)
      EXCEPT !.password = FALSE, !.scanLimit = scanLimit] :
     lengths \in {<<6>>, <<3, 2>>, <<4, 2>>},
     decoy \in Decoys,
     layers \in {<<Plain>>,
                 <<EncodedTo(2, <<Folder(1, TRUE, TRUE, "ok")>>), Plain>>},
     scanLimit \in {2, 3}}

Folders ==
  {Folder(size, declared, encrypted, data) :
     size \in {1, 2}, declared \in BOOLEAN, encrypted \in BOOLEAN,
     data \in {"ok", "format", "checksum"}}
    \cup {Folder(size, FALSE, encrypted, "range") :
            size \in {1, 2}, encrypted \in BOOLEAN}

Lists == {<<Folder(1, TRUE, FALSE, "ok"), f>> : f \in Folders}
           \cup {<<f>> : f \in Folders} \cup {<< >>}

FinalLayers(folders) ==
  {[Plain EXCEPT !.valid = valid] : valid \in BOOLEAN}
    \cup {[kind |-> "header", valid |-> TRUE, folders |-> folders,
           props |-> Len(folders), applies |-> applies] : applies \in BOOLEAN}
    \cup {[kind |-> "pending", valid |-> TRUE, folders |-> folders,
           ref |-> 1, defs |-> defs, props |-> props, applies |-> applies] :
             defs \in BOOLEAN, applies \in BOOLEAN,
             props \in {0, Len(folders)}}

Chains ==
  UNION {{<<EncodedTo(2, list), last>> :
            last \in FinalLayers(<<Folder(1, FALSE, FALSE, "ok"),
                            Folder(1, FALSE, TRUE, "ok")>>)}
         : list \in Lists}
    \cup UNION {{<<last>> : last \in FinalLayers(list)} : list \in Lists \ {<< >>}}
    \cup {<<EncodedTo(1, list)>> : list \in Lists}

LayerCalls ==
  {[Call("single", <<3>>, <<Archive(0, 3, layers)>>)
      EXCEPT !.password = password, !.maxTotal = maxTotal,
             !.maxDepth = maxDepth] :
     layers \in Chains, password \in BOOLEAN, maxTotal \in {2, 4},
     maxDepth \in {1, 3}}

MCRequests == VolumeCalls \cup SfxCalls \cup LayerCalls
=============================================================================
