---------------------------- MODULE MCFolderGraph ----------------------------
(***************************************************************************)
(* Every raw folder with at most MaxCoders coders, MaxInputs inputs and    *)
(* MaxOutputs outputs, whose bind pairs and packed indices may name any    *)
(* port and one port past the last.                                        *)
(***************************************************************************)
EXTENDS FolderGraph

CONSTANTS MaxCoders, MaxInputs, MaxOutputs

\* The ways k ports can be dealt to n coders: contiguous, none left out.
Owners(k, n) ==
  {w \in [0 .. k - 1 -> 0 .. n - 1] :
     /\ \A i, j \in 0 .. k - 1 : i <= j => w[i] <= w[j]
     /\ \A c \in 0 .. n - 1 : \E i \in 0 .. k - 1 : w[i] = c}

MCFoldersOf(n, i, o) ==
  LET left == i - (o - 1) IN
  [coders : {n}, inputs : {i}, outputs : {o},
   inOwner : Owners(i, n), outOwner : Owners(o, n),
   pairs : [1 .. o - 1 -> [input : 0 .. i, output : 0 .. o]],
   packed : [1 .. (IF left = 1 THEN 0 ELSE left) -> 0 .. i]]

MCFolders ==
  UNION {MCFoldersOf(n, i, o) : n \in 1 .. MaxCoders, i \in 1 .. MaxInputs,
                                o \in 1 .. MaxOutputs} 

MCRaw == {f \in MCFolders : f.inputs >= f.outputs}
=============================================================================
