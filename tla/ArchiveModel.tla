----------------------------- MODULE ArchiveModel -----------------------------
(***************************************************************************)
(* The validated archive model that header validation hands to extraction  *)
(* (model.rs StreamsInfo, Folder, Substream, FileEntry, FileStream), and   *)
(* what validation promises about it.                                      *)
(*                                                                         *)
(* A folder has a declared root size, a CRC and a sequence of substreams,  *)
(* each with a size and a CRC.  A member is a file with a stream (kind     *)
(* "stream", at substream sub of folder folder), an empty file, a          *)
(* directory or an anti-item.  Folders, substreams and members are         *)
(* numbered from 1.                                                        *)
(***************************************************************************)
EXTENDS Integers, Sequences, FiniteSetsExt, Functions

\* The None of a size: UNKNOWN_SIZE in the file.
Unknown == -1

Sizes == Nat \cup {Unknown}

\* The sum of the sizes of the first k substreams, all of them known.
Offset(subs, k) ==
  SumFunctionOnSet([j \in DOMAIN subs |-> subs[j].size], 1 .. k)

\* The substreams of a folder cover its root output: a single one is the root
\* output, and inherits its CRC; of several, the last one is known exactly
\* when the root and all the others are, and then they add up to the root.
FolderCovered(f, noCrc) ==
  LET n == Len(f.subs)
      known(k) == f.subs[k].size # Unknown IN
  /\ n = 1 => /\ f.subs[1].size = f.root
              /\ f.crc # noCrc => f.subs[1].crc = f.crc
  /\ n > 1 => (known(n) <=> f.root # Unknown /\ \A k \in 1 .. n - 1 : known(k))
  /\ n > 1 /\ known(n) => Offset(f.subs, n) = f.root

Streamed(members) == {i \in DOMAIN members : members[i].kind = "stream"}

Substreams(folders) ==
  UNION {{<<f, k>> : k \in DOMAIN folders[f].subs} : f \in DOMAIN folders}

\* Natural order: by folder, then by position in the folder.
Before(s, t) == s[1] < t[1] \/ (s[1] = t[1] /\ s[2] < t[2])

Place(member) == <<member.folder, member.sub>>

\* The members with a stream and the substreams correspond one to one, in
\* the same order.
MembersCover(members, folders) ==
  /\ \A i \in Streamed(members) : Place(members[i]) \in Substreams(folders)
  /\ \A s \in Substreams(folders) :
        \E i \in Streamed(members) : Place(members[i]) = s
  /\ \A i, j \in Streamed(members) :
        i < j => Before(Place(members[i]), Place(members[j]))
=============================================================================
