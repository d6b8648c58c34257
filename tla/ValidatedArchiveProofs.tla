------------------------ MODULE ValidatedArchiveProofs ------------------------
(***************************************************************************)
(* What header validation hands to extraction, for headers of any size.    *)
(* The parser's counts and the validator's cursors stay together, the      *)
(* archive that opens satisfies the contract of ArchiveModel, and each     *)
(* packed byte has one owner.  Then verification and extraction of that    *)
(* archive, for any number of folders, substreams and members, any limits  *)
(* and a sink that may fail at every call: the output stays within the     *)
(* limits (OutputIsBounded), the sink is served (SinkIsServed), the        *)
(* operations agree (OperationsAgree) and the stored checksums decide      *)
(* (ChecksumsDecide).                                                      *)
(***************************************************************************)
EXTENDS ValidatedArchive, NaturalLemmas, SequenceTheorems

(***************************************************************************)
(* The inductive invariant of validation.                                  *)
(***************************************************************************)
Crcs == {"none", "folder", "digest"} \X Nat

BuiltFolder ==
  [root : Sizes, crc : Crcs, subs : Seq([size : Sizes, crc : Crcs])]

FileRecord ==
  [kind : {"stream", "empty", "dir", "anti"}, folder : Nat, sub : Nat]

\* The sizes and digests stored in the file for the folders before i.
SizesBefore(i) ==
  IF raw.hasSizes THEN SumFunctionOnSet(ExplicitSizes(raw), 1 .. i - 1) ELSE 0

DigestsBefore(i) ==
  IF raw.hasDigests THEN SumFunctionOnSet(OwnDigests(raw), 1 .. i - 1) ELSE 0

\* Folder f is what the raw header says of folder i.
Built(f, i) ==
  /\ f.root = raw.folders[i].root
  /\ f.crc = IF raw.folders[i].hasCrc THEN FolderCrc(i) ELSE NoCrc
  /\ Len(f.subs) = Count(raw, i)
  /\ \A k \in 1 .. Count(raw, i) : f.subs[k].crc = DeclaredCrc(i, k)
  /\ \A k \in 1 .. Count(raw, i) - 1 : f.subs[k].size = DeclaredSize(i, k)
  /\ FolderCovered(f, NoCrc)

FoldersInv ==
  /\ raw \in RawArchives
  /\ folders \in Seq(BuiltFolder)
  /\ Len(folders) <= Len(raw.folders)
  /\ \A i \in 1 .. Len(folders) : Built(folders[i], i)

PhaseInv ==
  /\ phase \in Sections \cup {"build", "map", "files", "done"}
  /\ result \in {"none", "ok", "format", "unsupported", "overlap", "interrupted"}
  /\ phase # "done" => result = "none"
  /\ phase \in {"map", "files"} => raw.hasFiles
  /\ at \in 1 .. Len(raw.folders) + Len(raw.emptyStream) + 1

\* The cursors of build_substreams.
BuildInv ==
  /\ sizeCursor \in 0 .. Len(raw.sizes)
  /\ crcCursor \in 0 .. Len(raw.digests)
  /\ phase \in Sections =>
       at = 1 /\ folders = << >> /\ sizeCursor = 0 /\ crcCursor = 0
  /\ phase = "build" => /\ at = Len(folders) + 1
                        /\ sizeCursor = SizesBefore(at)
                        /\ crcCursor = DigestsBefore(at)
  /\ phase \in {"map", "files"} \/ result = "ok" =>
       Len(folders) = Len(raw.folders)

\* Of the first m files, those with a stream and those without.
StreamsUpTo(m) == {j \in 1 .. m : ~ raw.emptyStream[j]}
EmptyUpTo(m)   == {j \in 1 .. m : raw.emptyStream[j]}

Rank(m) == Cardinality(StreamsUpTo(m))

\* s lists the pairs <<f, k>>, k \in 1 .. c[f], of the first i rows in natural
\* order: a row begins behind the rows before it.
Pairs(s, c, i) ==
  /\ s \in Seq(Nat \X Nat)
  /\ Len(s) = SumFunctionOnSet(c, 1 .. i)
  /\ \A r \in 1 .. Len(s) : s[r][1] \in 1 .. i /\ s[r][2] \in 1 .. c[s[r][1]]
  /\ \A f \in 1 .. i : \A k \in 1 .. c[f] :
        /\ SumFunctionOnSet(c, 1 .. f - 1) + k \in 1 .. Len(s)
        /\ s[SumFunctionOnSet(c, 1 .. f - 1) + k] = <<f, k>>
  /\ \A q, r \in 1 .. Len(s) : q < r => Before(s[q], s[r])

SubsOf == [f \in 1 .. Len(folders) |-> Len(folders[f].subs)]

\* The mappings list the substreams of all folders.
MappingInv ==
  /\ mappings \in Seq(Nat \X Nat)
  /\ phase = "files" \/ (result = "ok" /\ raw.hasFiles) =>
       /\ Pairs(mappings, SubsOf, Len(folders))
       /\ Len(mappings) = Rank(Len(raw.emptyStream))

\* The cursors of validate_files.
FilesInv ==
  /\ members \in Seq(FileRecord)
  /\ Len(members) <= Len(raw.emptyStream)
  /\ streamCursor \in 0 .. Len(mappings)
  /\ emptyCursor \in 0 .. Len(raw.emptyFile)
  /\ phase \in Sections \cup {"build", "map"} \/ (result = "ok" /\ ~ raw.hasFiles) =>
       members = << >> /\ streamCursor = 0 /\ emptyCursor = 0
  /\ phase = "files" => /\ at = Len(members) + 1
                        /\ streamCursor = Rank(at - 1)
                        /\ emptyCursor = Cardinality(EmptyUpTo(at - 1))
  /\ result = "ok" /\ raw.hasFiles => /\ Len(members) = Len(raw.emptyStream)
                                      /\ streamCursor = Len(mappings)

\* The streamed files take the mappings one after the other.
PlacesInv ==
  /\ \A m \in 1 .. Len(members) :
        members[m].kind = "stream" =>
          /\ ~ raw.emptyStream[m]
          /\ Rank(m) \in 1 .. streamCursor
          /\ Place(members[m]) = mappings[Rank(m)]
  /\ \A l, m \in 1 .. Len(members) :
        l < m /\ members[l].kind = "stream" /\ members[m].kind = "stream"
          => Rank(l) < Rank(m)
  /\ \A r \in 1 .. streamCursor :
        \E m \in 1 .. Len(members) : members[m].kind = "stream" /\ Rank(m) = r

MapInv == /\ FoldersInv
          /\ PhaseInv
          /\ BuildInv
          /\ MappingInv
          /\ FilesInv
          /\ PlacesInv

\* The archive is opened from a header that passed.
OpenInv == stage # "closed" => result = "ok" /\ X!OpenArchive(archive)
-----------------------------------------------------------------------------
(***************************************************************************)
(* Sums of the first elements, and FlattenSeq                              *)
(***************************************************************************)
LEMMA PrefixSum ==
  ASSUME NEW n \in Nat, NEW f, DOMAIN f = 1 .. n, \A j \in 1 .. n : f[j] \in Nat,
         NEW i \in 1 .. n
  PROVE  /\ SumFunctionOnSet(f, 1 .. i - 1) \in Nat
         /\ SumFunctionOnSet(f, 1 .. i) \in Nat
         /\ SumFunctionOnSet(f, 1 .. i) = SumFunctionOnSet(f, 1 .. i - 1) + f[i]
         /\ SumFunctionOnSet(f, 1 .. i) <= SumFunction(f)
  <1>1. IsFiniteSet(1 .. n)
    BY FS_Interval
  <1>2. SumFunction(f) = SumFunctionOnSet(f, 1 .. n)
    BY DEF SumFunction
  <1>3. 1 .. i \in SUBSET (1 .. n) /\ 1 .. i - 1 \in SUBSET (1 .. n)
    OBVIOUS
  <1>4. /\ SumFunctionOnSet(f, 1 .. i) \in Nat
        /\ SumFunctionOnSet(f, 1 .. i) <= SumFunctionOnSet(f, 1 .. n)
    BY <1>1, <1>3, SumNatural
  <1>5. SumFunctionOnSet(f, 1 .. i - 1) \in Nat
    BY <1>1, <1>3, SumNatural
  <1>6. i - 1 \in Nat /\ (i - 1) + 1 = i
    OBVIOUS
  <1>7. \A j \in 1 .. (i - 1) + 1 : f[j] \in Int
    OBVIOUS
  <1>8. SumFunctionOnSet(f, 1 .. (i - 1) + 1)
          = SumFunctionOnSet(f, 1 .. i - 1) + f[(i - 1) + 1]
    BY <1>6, <1>7, SumNext
  <1> QED
    BY <1>2, <1>4, <1>5, <1>6, <1>8

\* g has the concatenation of the first i sequences of seqs at each i.
IsFlat(g, seqs, n) ==
  g = [i \in 1 .. n |-> IF i = 1 THEN seqs[i] ELSE g[i - 1] \o seqs[i]]

\* What FlattenSeq stands for.
LEMMA FlattenDefinition ==
  ASSUME NEW seqs, Len(seqs) # 0
  PROVE  FlattenSeq(seqs) = (CHOOSE g : IsFlat(g, seqs, Len(seqs)))[Len(seqs)]
  BY DEF FlattenSeq, IsFlat

\* There is such a function.
LEMMA FlattenExists ==
  ASSUME NEW seqs, NEW n \in Nat
  PROVE  \E g : IsFlat(g, seqs, n)
  <1> DEFINE N == {m \in Nat : \E g : IsFlat(g, seqs, m)}
  <1>1. 0 \in N
    <2>1. IsFlat([i \in {} |-> 0], seqs, 0)
      BY DEF IsFlat
    <2> QED
      BY <2>1
  <1>2. ASSUME NEW m \in Nat, m \in N PROVE m + 1 \in N
    <2>1. PICK g : IsFlat(g, seqs, m)
      BY <1>2
    <2> DEFINE h == [i \in 1 .. m + 1 |->
                       IF i \in 1 .. m THEN g[i]
                       ELSE IF i = 1 THEN seqs[i] ELSE g[i - 1] \o seqs[i]]
    <2>2. ASSUME NEW i \in 1 .. m + 1
          PROVE  h[i] = IF i = 1 THEN seqs[i] ELSE h[i - 1] \o seqs[i]
      <3>1. CASE i \in 1 .. m
        <4>1. g[i] = IF i = 1 THEN seqs[i] ELSE g[i - 1] \o seqs[i]
          BY <2>1, <3>1 DEF IsFlat
        <4>2. i # 1 => h[i - 1] = g[i - 1]
          BY <3>1
        <4>3. h[i] = g[i]
          BY <3>1
        <4> QED
          BY <4>1, <4>2, <4>3
      <3>2. CASE i = m + 1
        <4>1. i # 1 => h[i - 1] = g[i - 1]
          BY <3>2
        <4>2. h[i] = IF i = 1 THEN seqs[i] ELSE g[i - 1] \o seqs[i]
          BY <3>2
        <4> QED
          BY <4>1, <4>2
      <3> QED
        BY <3>1, <3>2
    <2>3. h = [i \in 1 .. m + 1 |-> IF i = 1 THEN seqs[i] ELSE h[i - 1] \o seqs[i]]
      <3> HIDE DEF h
      <3>1. DOMAIN h = 1 .. m + 1 /\ h = [i \in 1 .. m + 1 |-> h[i]]
        BY DEF h
      <3> QED
        BY <2>2, <3>1
    <2>4. IsFlat(h, seqs, m + 1)
      BY <2>3 DEF IsFlat
    <2> QED
      BY <2>4
  <1> HIDE DEF N
  <1>3. Nat \subseteq N
    BY <1>1, <1>2, SetInduction
  <1> QED
    BY <1>3 DEF N
Row(c, f) == [k \in 1 .. c[f] |-> <<f, k>>]

LEMMA PairsStep ==
  ASSUME NEW n \in Nat, NEW c, DOMAIN c = 1 .. n, \A j \in 1 .. n : c[j] \in Nat,
         NEW i \in 1 .. n, NEW s, Pairs(s, c, i - 1)
  PROVE  Pairs(s \o Row(c, i), c, i)
  <1> DEFINE t == Row(c, i)
             u == s \o t
             S(f) == SumFunctionOnSet(c, 1 .. f)
  <1>1. s \in Seq(Nat \X Nat) /\ Len(s) = S(i - 1)
    BY DEF Pairs
  <1>2. S(i - 1) \in Nat /\ S(i) \in Nat /\ S(i) = S(i - 1) + c[i] /\ c[i] \in Nat
    BY PrefixSum
  <1>3. /\ t \in Seq(Nat \X Nat) /\ Len(t) = c[i]
        /\ \A k \in 1 .. c[i] : t[k] = <<i, k>>
    BY SMTT(40) DEF Row
  <1> HIDE DEF t
  <1>4. /\ u \in Seq(Nat \X Nat) /\ Len(u) = S(i)
        /\ \A r \in 1 .. Len(s) : u[r] = s[r]
        /\ \A k \in 1 .. c[i] : u[Len(s) + k] = <<i, k>>
    <2> HIDE DEF S
    <2>1. u \in Seq(Nat \X Nat) /\ Len(u) = Len(s) + Len(t)
      BY <1>1, <1>3, ConcatProperties
    <2>2. \A r \in 1 .. Len(s) : u[r] = s[r]
      BY <1>1, <1>3
    <2>3. \A k \in 1 .. c[i] : u[Len(s) + k] = t[k]
      BY <1>1, <1>3, SMTT(40)
    <2> QED
      BY <1>1, <1>2, <1>3, <2>1, <2>2, <2>3
  <1> HIDE DEF u
  <1>5. \A r \in 1 .. Len(u) : r \in 1 .. Len(s) \/ \E k \in 1 .. c[i] : r = Len(s) + k
    <2> SUFFICES ASSUME NEW r \in 1 .. Len(u), r \notin 1 .. Len(s)
                 PROVE  r - Len(s) \in 1 .. c[i] /\ r = Len(s) + (r - Len(s))
      OBVIOUS
    <2> HIDE DEF S
    <2>1. Len(s) \in Nat /\ Len(u) = Len(s) + c[i]
      BY <1>1, <1>2, <1>4
    <2> QED
      BY <2>1
  <1>6. \A r \in 1 .. Len(s) : s[r][1] \in 1 .. i - 1 /\ s[r][2] \in 1 .. c[s[r][1]]
    BY DEF Pairs
  <1>7. \A r \in 1 .. Len(u) : u[r][1] \in 1 .. i /\ u[r][2] \in 1 .. c[u[r][1]]
    <2> TAKE r \in 1 .. Len(u)
    <2>1. CASE r \in 1 .. Len(s)
      <3>1. u[r] = s[r]
        BY <1>4, <2>1
      <3>2. s[r][1] \in 1 .. i /\ s[r][2] \in 1 .. c[s[r][1]]
        BY <1>6, <2>1
      <3> QED
        BY <3>1, <3>2
    <2>2. ASSUME NEW k \in 1 .. c[i], r = Len(s) + k
          PROVE  u[r][1] \in 1 .. i /\ u[r][2] \in 1 .. c[u[r][1]]
      <3>1. u[r] = <<i, k>>
        BY <1>4, <2>2
      <3> QED
        BY <3>1
    <2> QED
      BY <1>5, <2>1, <2>2
  <1>8. \A f \in 1 .. i : \A k \in 1 .. c[f] :
          S(f - 1) + k \in 1 .. Len(u) /\ u[S(f - 1) + k] = <<f, k>>
    <2> TAKE f \in 1 .. i
    <2> TAKE k \in 1 .. c[f]
    <2>1. CASE f = i
      <3>1. Len(s) + k \in 1 .. Len(u)
        <4>1. k \in 1 .. c[i] /\ c[i] \in Nat
          BY <1>2, <2>1
        <4>2. Len(s) \in Nat /\ Len(u) = Len(s) + c[i]
          <5> HIDE DEF S
          <5> QED
            BY <1>1, <1>2, <1>4
        <4> QED
          BY <4>1, <4>2
      <3>2. S(f - 1) = Len(s)
        BY <1>1, <2>1
      <3>3. u[Len(s) + k] = <<f, k>>
        BY <1>4, <2>1
      <3> QED
        BY <3>1, <3>2, <3>3
    <2>2. CASE f # i
      <3>1. f \in 1 .. i - 1
        BY <2>2
      <3>2. S(f - 1) + k \in 1 .. Len(s) /\ s[S(f - 1) + k] = <<f, k>>
        BY <3>1 DEF Pairs
      <3>3. Len(s) \in Nat /\ Len(u) \in Nat /\ Len(s) <= Len(u)
        <4> HIDE DEF S
        <4> QED
          BY <1>1, <1>2, <1>4
      <3>4. u[S(f - 1) + k] = s[S(f - 1) + k]
        BY <1>4, <3>2
      <3> HIDE DEF S
      <3> QED
        BY <3>2, <3>3, <3>4
    <2> QED
      BY <2>1, <2>2
  <1>9. \A q, r \in 1 .. Len(u) : q < r => Before(u[q], u[r])
    <2> SUFFICES ASSUME NEW q \in 1 .. Len(u), NEW r \in 1 .. Len(u), q < r
                 PROVE  Before(u[q], u[r])
      OBVIOUS
    <2>1. Len(s) \in Nat
      BY <1>1
    <2>2. CASE r \in 1 .. Len(s)
      <3>1. q \in 1 .. Len(s)
        BY <2>2
      <3>2. Before(s[q], s[r])
        BY <2>2, <3>1 DEF Pairs
      <3> QED
        BY <1>4, <2>2, <3>1, <3>2
    <2>3. ASSUME NEW k \in 1 .. c[i], r = Len(s) + k PROVE Before(u[q], u[r])
      <3>1. u[r] = <<i, k>>
        BY <1>4, <2>3
      <3>2. CASE q \in 1 .. Len(s)
        <4>1. u[q] = s[q] /\ s[q][1] \in 1 .. i - 1
          BY <1>4, <1>6, <3>2
        <4> QED
          BY <3>1, <4>1 DEF Before
      <3>3. ASSUME NEW j \in 1 .. c[i], q = Len(s) + j PROVE Before(u[q], u[r])
        <4>1. u[q] = <<i, j>>
          BY <1>4, <3>3
        <4>2. j < k
          BY <1>2, <2>1, <2>3, <3>3
        <4> QED
          BY <3>1, <4>1, <4>2 DEF Before
      <3> QED
        BY <1>5, <3>2, <3>3
    <2> QED
      BY <1>5, <2>2, <2>3
  <1>10. Pairs(u, c, i)
    BY <1>4, <1>7, <1>8, <1>9 DEF Pairs
  <1> QED
    BY <1>10 DEF u, t

\* collect_stream_mappings lists the pairs in order.
LEMMA FlattenPairs ==
  ASSUME NEW n \in Nat, NEW c, DOMAIN c = 1 .. n, \A j \in 1 .. n : c[j] \in Nat
  PROVE  Pairs(FlattenSeq([f \in 1 .. n |-> Row(c, f)]), c, n)
  <1> DEFINE seqs == [f \in 1 .. n |-> Row(c, f)]
  <1>1. Len(seqs) = n
    BY SMT
  <1>2. Pairs(<< >>, c, 0)
    <2>1. SumFunctionOnSet(c, 1 .. 0) = 0
      BY SumEmpty, 1 .. 0 = {}
    <2> QED
      BY <2>1 DEF Pairs
  <1>3. CASE n = 0
    <2>1. FlattenSeq(seqs) = << >>
      BY <1>1, <1>3 DEF FlattenSeq
    <2> QED
      BY <1>2, <1>3, <2>1
  <1>4. CASE n # 0
    <2>1. PICK g : IsFlat(g, seqs, n) /\ FlattenSeq(seqs) = g[n]
      BY <1>1, <1>4, FlattenExists, FlattenDefinition
    <2> DEFINE N == {i \in Nat : i \in 1 .. n => Pairs(g[i], c, i)}
    <2>2. 0 \in N
      OBVIOUS
    <2>3. ASSUME NEW i \in Nat, i \in N PROVE i + 1 \in N
      <3> SUFFICES ASSUME i + 1 \in 1 .. n PROVE Pairs(g[i + 1], c, i + 1)
        OBVIOUS
      <3>1. g[i + 1] = IF i + 1 = 1 THEN seqs[i + 1] ELSE g[(i + 1) - 1] \o seqs[i + 1]
        BY <2>1 DEF IsFlat
      <3>2. seqs[i + 1] = Row(c, i + 1)
        OBVIOUS
      <3>3. (i + 1) - 1 = i
        OBVIOUS
      <3>4. CASE i = 0
        <4>1. Row(c, 1) = << >> \o Row(c, 1)
          <5>1. c[1] \in Nat
            BY <3>4
          <5>2. Row(c, 1) \in Seq(Nat \X Nat)
            BY <5>1 DEF Row
          <5> QED
            BY <5>2
        <4>2. Pairs(<< >> \o Row(c, i + 1), c, i + 1)
          BY <1>2, <3>3, <3>4, PairsStep
        <4> QED
          BY <3>1, <3>2, <3>4, <4>1, <4>2
      <3>5. CASE i # 0
        <4>1. Pairs(g[i], c, (i + 1) - 1)
          BY <2>3, <3>3, <3>5
        <4>2. Pairs(g[i] \o Row(c, i + 1), c, i + 1)
          BY <4>1, PairsStep
        <4> QED
          BY <3>1, <3>2, <3>3, <3>5, <4>2
      <3> QED
        BY <3>4, <3>5
    <2> HIDE DEF N
    <2>4. Nat \subseteq N
      BY <2>2, <2>3, SetInduction
    <2>5. n \in N /\ n \in 1 .. n
      BY <1>4, <2>4
    <2> QED
      BY <2>1, <2>5 DEF N
  <1> QED
    BY <1>3, <1>4
-----------------------------------------------------------------------------
(***************************************************************************)
(* What the parser stored, and the cursors over it                         *)
(***************************************************************************)
LEMMA RawType ==
  ASSUME NEW r \in RawArchives
  PROVE  /\ Len(r.folders) \in Nat /\ DOMAIN r.folders = 1 .. Len(r.folders)
         /\ \A i \in 1 .. Len(r.folders) : /\ r.folders[i].root \in Sizes
                                           /\ r.folders[i].hasCrc \in BOOLEAN
                                           /\ Count(r, i) \in Nat
         /\ r.sizes \in Seq(Sizes) /\ r.digests \in Seq(BOOLEAN)
         /\ r.hasSizes \in BOOLEAN /\ r.hasDigests \in BOOLEAN
         /\ Len(r.sizes) = IF r.hasSizes THEN ExplicitSizeCount(r) ELSE 0
         /\ Len(r.digests) = IF r.hasDigests THEN DigestCount(r) ELSE 0
         /\ r.hasFiles \in BOOLEAN /\ r.emptyStream \in Seq(BOOLEAN)
  <1>1. RawStreams(r)
    BY RawArchivesAssumption
  <1>2. /\ r.folders \in Seq([root : Sizes, hasCrc : BOOLEAN])
        /\ r.counts \in Seq(Nat) /\ Len(r.counts) \in {0, Len(r.folders)}
    BY <1>1 DEF RawStreams
  <1>3. Len(r.folders) \in Nat /\ DOMAIN r.folders = 1 .. Len(r.folders)
    BY <1>2
  <1>4. ASSUME NEW i \in 1 .. Len(r.folders)
        PROVE  /\ r.folders[i].root \in Sizes
               /\ r.folders[i].hasCrc \in BOOLEAN
               /\ Count(r, i) \in Nat
    <2>1. r.folders[i] \in [root : Sizes, hasCrc : BOOLEAN]
      <3> DEFINE R == [root : Sizes, hasCrc : BOOLEAN]
                 s == r.folders
      <3>1. s \in Seq(R) /\ i \in 1 .. Len(s)
        BY <1>2
      <3> HIDE DEF R, s
      <3>2. s[i] \in R
        BY <3>1
      <3> QED
        BY <3>2 DEF R, s
    <2>2. CASE r.counts = << >>
      BY <2>1, <2>2 DEF Count
    <2>3. CASE r.counts # << >>
      <3>1. Len(r.counts) = Len(r.folders)
        BY <1>2, <2>3
      <3>2. r.counts[i] \in Nat
        BY <1>2, <3>1
      <3> QED
        BY <2>1, <2>3, <3>2 DEF Count
    <2> QED
      BY <2>2, <2>3
  <1> QED
    BY <1>1, <1>3, <1>4 DEF RawStreams

LEMMA StoredType ==
  ASSUME NEW r \in RawArchives
  PROVE  /\ DOMAIN ExplicitSizes(r) = 1 .. Len(r.folders)
         /\ \A i \in 1 .. Len(r.folders) :
              /\ ExplicitSizes(r)[i] = IF Count(r, i) = 0 THEN 0 ELSE Count(r, i) - 1
              /\ ExplicitSizes(r)[i] \in Nat
         /\ DOMAIN OwnDigests(r) = 1 .. Len(r.folders)
         /\ \A i \in 1 .. Len(r.folders) :
              /\ OwnDigests(r)[i] = IF Count(r, i) # 1 \/ ~ r.folders[i].hasCrc
                                    THEN Count(r, i) ELSE 0
              /\ OwnDigests(r)[i] \in Nat
  <1>1. /\ DOMAIN r.folders = 1 .. Len(r.folders)
        /\ \A i \in 1 .. Len(r.folders) : Count(r, i) \in Nat
    BY RawType
  <1> QED
    BY <1>1 DEF ExplicitSizes, OwnDigests

\* size_cursor never passes what parse_substreams_info counted.
LEMMA SizesStored ==
  ASSUME raw \in RawArchives, NEW i \in 1 .. Len(raw.folders)
  PROVE  /\ SizesBefore(i) \in Nat /\ SizesBefore(i + 1) \in Nat
         /\ SizesBefore(i + 1) =
              IF raw.hasSizes THEN SizesBefore(i) + ExplicitSizes(raw)[i] ELSE 0
         /\ ~ raw.hasSizes => SizesBefore(i) = 0
         /\ SizesBefore(i + 1) <= Len(raw.sizes)
  <1>1. (i + 1) - 1 = i
    BY RawType
  <1>2. CASE raw.hasSizes
    <2>1. /\ Len(raw.folders) \in Nat /\ DOMAIN ExplicitSizes(raw) = 1 .. Len(raw.folders)
          /\ \A j \in 1 .. Len(raw.folders) : ExplicitSizes(raw)[j] \in Nat
      BY RawType, StoredType
    <2>2. LET S(j) == SumFunctionOnSet(ExplicitSizes(raw), 1 .. j) IN
          /\ S(i - 1) \in Nat /\ S(i) \in Nat /\ S(i) = S(i - 1) + ExplicitSizes(raw)[i]
          /\ S(i) <= SumFunction(ExplicitSizes(raw))
      BY <2>1, PrefixSum
    <2>3. Len(raw.sizes) = SumFunction(ExplicitSizes(raw))
      BY <1>2, RawType DEF ExplicitSizeCount
    <2> QED
      BY <1>1, <1>2, <2>2, <2>3 DEF SizesBefore
  <1>3. CASE ~ raw.hasSizes
    BY <1>3, RawType DEF SizesBefore
  <1> QED
    BY <1>2, <1>3

\* crc_cursor never passes what parse_substreams_info counted.
LEMMA DigestsStored ==
  ASSUME raw \in RawArchives, NEW i \in 1 .. Len(raw.folders)
  PROVE  /\ DigestsBefore(i) \in Nat /\ DigestsBefore(i + 1) \in Nat
         /\ DigestsBefore(i + 1) =
              IF raw.hasDigests THEN DigestsBefore(i) + OwnDigests(raw)[i] ELSE 0
         /\ ~ raw.hasDigests => DigestsBefore(i) = 0
         /\ DigestsBefore(i + 1) <= Len(raw.digests)
  <1>1. (i + 1) - 1 = i
    BY RawType
  <1>2. CASE raw.hasDigests
    <2>1. /\ Len(raw.folders) \in Nat /\ DOMAIN OwnDigests(raw) = 1 .. Len(raw.folders)
          /\ \A j \in 1 .. Len(raw.folders) : OwnDigests(raw)[j] \in Nat
      BY RawType, StoredType
    <2>2. LET S(j) == SumFunctionOnSet(OwnDigests(raw), 1 .. j) IN
          /\ S(i - 1) \in Nat /\ S(i) \in Nat /\ S(i) = S(i - 1) + OwnDigests(raw)[i]
          /\ S(i) <= SumFunction(OwnDigests(raw))
      BY <2>1, PrefixSum
    <2>3. Len(raw.digests) = SumFunction(OwnDigests(raw))
      BY <1>2, RawType DEF DigestCount
    <2> QED
      BY <1>1, <1>2, <2>2, <2>3 DEF DigestsBefore
  <1>3. CASE ~ raw.hasDigests
    BY <1>3, RawType DEF DigestsBefore
  <1> QED
    BY <1>2, <1>3

\* The cursors start at the beginning and end at the end.
LEMMA StoredEnds ==
  ASSUME raw \in RawArchives
  PROVE  /\ SizesBefore(1) = 0 /\ DigestsBefore(1) = 0
         /\ SizesBefore(Len(raw.folders) + 1) = Len(raw.sizes)
         /\ DigestsBefore(Len(raw.folders) + 1) = Len(raw.digests)
  <1>1. /\ Len(raw.folders) \in Nat
        /\ DOMAIN ExplicitSizes(raw) = 1 .. Len(raw.folders)
        /\ DOMAIN OwnDigests(raw) = 1 .. Len(raw.folders)
    BY RawType, StoredType
  <1>2. 1 .. 1 - 1 = {} /\ (Len(raw.folders) + 1) - 1 = Len(raw.folders)
    BY <1>1
  <1>3. SizesBefore(1) = 0 /\ DigestsBefore(1) = 0
    BY <1>2, SumEmpty DEF SizesBefore, DigestsBefore
  <1>4. SizesBefore(Len(raw.folders) + 1) = Len(raw.sizes)
    BY <1>1, <1>2, RawType DEF SizesBefore, ExplicitSizeCount, SumFunction
  <1>5. DigestsBefore(Len(raw.folders) + 1) = Len(raw.digests)
    BY <1>1, <1>2, RawType DEF DigestsBefore, DigestCount, SumFunction
  <1> QED
    BY <1>3, <1>4, <1>5
-----------------------------------------------------------------------------
(***************************************************************************)
(* build_substreams                                                        *)
(***************************************************************************)

\* Where the digest of a substream stands, by the counts of the parser.
LEMMA DeclaredCrcOf ==
  ASSUME raw \in RawArchives, NEW i \in 1 .. Len(raw.folders), NEW k
  PROVE  DeclaredCrc(i, k) =
           IF Inherits(i) THEN FolderCrc(i)
           ELSE IF raw.hasDigests /\ raw.digests[DigestsBefore(i) + k]
                THEN Digest(DigestsBefore(i) + k)
           ELSE NoCrc
  <1> DEFINE owns(j) == ~ (Count(raw, j) = 1 /\ raw.folders[j].hasCrc)
             own == [j \in DOMAIN raw.folders |-> IF owns(j) THEN Count(raw, j) ELSE 0]
             before == SumFunctionOnSet(own, 1 .. i - 1)
  <1>1. own = OwnDigests(raw)
    BY DEF OwnDigests
  <1>2. raw.hasDigests => before = DigestsBefore(i)
    BY <1>1 DEF DigestsBefore
  <1>3. owns(i) <=> ~ Inherits(i)
    BY DEF Inherits
  <1>4. DeclaredCrc(i, k) =
          IF ~ owns(i) THEN FolderCrc(i)
          ELSE IF raw.hasDigests /\ raw.digests[before + k] THEN Digest(before + k)
          ELSE NoCrc
    BY DEF DeclaredCrc
  <1> HIDE DEF owns, own, before
  <1> QED
    BY <1>2, <1>3, <1>4

\* The cursors point at what is stored for folder i.
AtFolder(i) ==
  /\ raw \in RawArchives
  /\ i \in 1 .. Len(raw.folders)
  /\ sizeCursor = SizesBefore(i)
  /\ crcCursor = DigestsBefore(i)

\* "vector is too short" never fires, and the cursors move to the next folder.
LEMMA CursorsFit ==
  ASSUME NEW i, AtFolder(i)
  PROVE  /\ ~ VectorsTooShort(i)
         /\ SizeCursorAfter(i) = SizesBefore(i + 1)
         /\ CrcCursorAfter(i) = DigestsBefore(i + 1)
  <1>1. raw \in RawArchives /\ i \in 1 .. Len(raw.folders)
    BY DEF AtFolder
  <1>2. /\ Count(raw, i) \in Nat
        /\ raw.hasSizes \in BOOLEAN /\ raw.hasDigests \in BOOLEAN
        /\ raw.folders[i].hasCrc \in BOOLEAN
    BY <1>1, RawType
  <1>3. ExplicitSizes(raw)[i] = IF Count(raw, i) = 0 THEN 0 ELSE Count(raw, i) - 1
    BY <1>1, StoredType
  <1>4. OwnDigests(raw)[i] = IF Inherits(i) THEN 0 ELSE Count(raw, i)
    <2>1. OwnDigests(raw)[i] = IF Count(raw, i) # 1 \/ ~ raw.folders[i].hasCrc
                               THEN Count(raw, i) ELSE 0
      BY <1>1, StoredType
    <2> QED
      BY <2>1 DEF Inherits
  <1>5. /\ SizesBefore(i) \in Nat /\ SizesBefore(i + 1) \in Nat
        /\ SizesBefore(i + 1) =
             IF raw.hasSizes THEN SizesBefore(i) + ExplicitSizes(raw)[i] ELSE 0
        /\ ~ raw.hasSizes => SizesBefore(i) = 0
        /\ SizesBefore(i + 1) <= Len(raw.sizes)
    BY <1>1, SizesStored
  <1>6. /\ DigestsBefore(i) \in Nat /\ DigestsBefore(i + 1) \in Nat
        /\ DigestsBefore(i + 1) =
             IF raw.hasDigests THEN DigestsBefore(i) + OwnDigests(raw)[i] ELSE 0
        /\ ~ raw.hasDigests => DigestsBefore(i) = 0
        /\ DigestsBefore(i + 1) <= Len(raw.digests)
    BY <1>1, DigestsStored
  <1>7. sizeCursor = SizesBefore(i) /\ crcCursor = DigestsBefore(i)
    BY DEF AtFolder
  <1>8. Len(raw.sizes) \in Nat /\ Len(raw.digests) \in Nat
    BY <1>1, RawType
  <1>9. /\ ~ (raw.hasSizes /\ Count(raw, i) > 1
               /\ sizeCursor + Count(raw, i) - 1 > Len(raw.sizes))
        /\ SizeCursorAfter(i) = SizesBefore(i + 1)
    BY <1>2, <1>3, <1>5, <1>7, <1>8 DEF SizeCursorAfter
  <1>10. /\ ~ (raw.hasDigests /\ ~ Inherits(i)
                /\ crcCursor + Count(raw, i) > Len(raw.digests))
         /\ CrcCursorAfter(i) = DigestsBefore(i + 1)
    BY <1>2, <1>4, <1>6, <1>7, <1>8 DEF CrcCursorAfter
  <1> QED
    BY <1>9, <1>10 DEF VectorsTooShort

\* What validate_streams appends for folder i.
NewFolder(i) ==
  [root |-> raw.folders[i].root,
   crc  |-> IF raw.folders[i].hasCrc THEN FolderCrc(i) ELSE NoCrc,
   subs |-> [k \in 1 .. Count(raw, i) |->
               [size |-> SubstreamSizes(i)[k], crc |-> SubstreamCrc(i, k)]]]

\* Each substream gets its own digest.
LEMMA NewCrcs ==
  ASSUME NEW i, AtFolder(i), NEW k \in 1 .. Count(raw, i)
  PROVE  SubstreamCrc(i, k) = DeclaredCrc(i, k) /\ SubstreamCrc(i, k) \in Crcs
  <1>1. raw \in RawArchives /\ i \in 1 .. Len(raw.folders) /\ crcCursor = DigestsBefore(i)
    BY DEF AtFolder
  <1>2. DeclaredCrc(i, k) =
           IF Inherits(i) THEN FolderCrc(i)
           ELSE IF raw.hasDigests /\ raw.digests[DigestsBefore(i) + k]
                THEN Digest(DigestsBefore(i) + k)
           ELSE NoCrc
    BY <1>1, DeclaredCrcOf
  <1>3. DigestsBefore(i) \in Nat /\ Count(raw, i) \in Nat
    BY <1>1, DigestsStored, RawType
  <1>4. SubstreamCrc(i, k) =
           IF Inherits(i) THEN FolderCrc(i)
           ELSE IF raw.hasDigests /\ raw.digests[DigestsBefore(i) + k]
                THEN Digest(DigestsBefore(i) + k)
           ELSE NoCrc
    BY <1>1 DEF SubstreamCrc
  <1>5. i \in Nat /\ DigestsBefore(i) + k \in Nat
    BY <1>1, <1>3, RawType
  <1>6. FolderCrc(i) \in Crcs /\ Digest(DigestsBefore(i) + k) \in Crcs /\ NoCrc \in Crcs
    BY <1>5 DEF FolderCrc, Digest, NoCrc, Crcs
  <1> QED
    BY <1>2, <1>4, <1>6
\* The sizes read for a folder of several substreams.
LEMMA StoredSizesType ==
  ASSUME NEW i, AtFolder(i), Count(raw, i) > 1
  PROVE  /\ StoredSizes(i) \in Seq(Sizes)
         /\ Len(StoredSizes(i)) = Count(raw, i) - 1
         /\ ~ raw.hasSizes => \A k \in 1 .. Count(raw, i) - 1 : StoredSizes(i)[k] = Unknown
  <1>1. raw \in RawArchives /\ i \in 1 .. Len(raw.folders) /\ sizeCursor = SizesBefore(i)
    BY DEF AtFolder
  <1>2. Count(raw, i) \in Nat /\ raw.sizes \in Seq(Sizes) /\ raw.hasSizes \in BOOLEAN
    BY <1>1, RawType
  <1>3. sizeCursor \in Nat
    BY <1>1, SizesStored
  <1>4. raw.hasSizes => sizeCursor + Count(raw, i) - 1 <= Len(raw.sizes)
    BY <1>2, <1>3, CursorsFit DEF VectorsTooShort
  <1>5. Unknown \in Sizes
    BY DEF Sizes
  <1> DEFINE n == Count(raw, i) - 1
             x(k) == IF raw.hasSizes THEN raw.sizes[sizeCursor + k] ELSE Unknown
  <1>6. n \in Nat
    BY <1>2
  <1>7. \A k \in 1 .. n : x(k) \in Sizes
    <2> TAKE k \in 1 .. n
    <2>1. raw.hasSizes => sizeCursor + k \in 1 .. Len(raw.sizes)
      BY <1>2, <1>3, <1>4
    <2>2. raw.hasSizes => raw.sizes[sizeCursor + k] \in Sizes
      BY <1>2, <2>1
    <2> QED
      BY <1>5, <2>2
  <1>8. StoredSizes(i) = [k \in 1 .. n |-> x(k)]
    BY DEF StoredSizes
  <1>9. ~ raw.hasSizes => \A k \in 1 .. n : x(k) = Unknown
    OBVIOUS
  <1> HIDE DEF n, x
  <1>10. /\ StoredSizes(i) \in Seq(Sizes) /\ Len(StoredSizes(i)) = n
         /\ ~ raw.hasSizes => \A k \in 1 .. n : StoredSizes(i)[k] = Unknown
    BY <1>6, <1>7, <1>8, <1>9
  <1> QED
    BY <1>10 DEF n

\* The last size is what is left, and is known only with all the others.
LEMMA FinalSizeType ==
  ASSUME NEW i, AtFolder(i), Count(raw, i) > 1, ~ SizesExceedFolder(i)
  PROVE  LET stored == StoredSizes(i) IN
         /\ FinalSize(i, stored) \in Sizes
         /\ FinalSize(i, stored) # Unknown <=>
              raw.folders[i].root # Unknown /\ AllKnown(stored)
         /\ FinalSize(i, stored) # Unknown =>
              /\ SumFunction(stored) \in Int
              /\ SumFunction(stored) + FinalSize(i, stored) = raw.folders[i].root
  <1> DEFINE stored == StoredSizes(i)
             root == raw.folders[i].root
             n == Count(raw, i) - 1
  <1>1. raw \in RawArchives /\ i \in 1 .. Len(raw.folders)
    BY DEF AtFolder
  <1>2. Count(raw, i) \in Nat /\ root \in Sizes /\ raw.hasSizes \in BOOLEAN
    BY <1>1, RawType
  <1>3. n \in Nat /\ 1 \in 1 .. n
    BY <1>2
  <1>4. /\ stored \in Seq(Sizes) /\ Len(stored) = n
        /\ ~ raw.hasSizes => \A k \in 1 .. n : stored[k] = Unknown
    BY StoredSizesType
  <1>5. FinalSize(i, stored) = IF root # Unknown /\ raw.hasSizes /\ AllKnown(stored)
                               THEN root - SumFunction(stored) ELSE Unknown
    BY DEF FinalSize, Total
  <1>6. ~ (raw.hasSizes /\ root # Unknown /\ AllKnown(stored) /\ SumFunction(stored) > root)
    BY DEF SizesExceedFolder, Total
  <1> HIDE DEF stored, root, n
  <1>7. DOMAIN stored = 1 .. n /\ \A k \in 1 .. n : stored[k] \in Sizes
    BY <1>4
  <1>8. AllKnown(stored) => raw.hasSizes
    BY <1>3, <1>4, <1>7 DEF AllKnown
  <1>9. ASSUME AllKnown(stored) PROVE SumFunction(stored) \in Nat
    <2>1. \A k \in 1 .. n : stored[k] \in Nat
      BY <1>7, <1>9 DEF AllKnown, Sizes
    <2>2. IsFiniteSet(1 .. n)
      BY <1>3, FS_Interval
    <2>3. 1 .. n \in SUBSET (1 .. n)
      OBVIOUS
    <2>4. SumFunctionOnSet(stored, 1 .. n) \in Nat
      BY <2>1, <2>2, <2>3, SumNatural
    <2> QED
      BY <1>7, <2>4 DEF SumFunction
  <1>10. CASE root # Unknown /\ AllKnown(stored)
    <2>1. root \in Nat
      BY <1>2, <1>10 DEF Sizes
    <2>2. SumFunction(stored) \in Nat /\ SumFunction(stored) <= root
      BY <1>6, <1>8, <1>9, <1>10, <2>1
    <2>3. FinalSize(i, stored) = root - SumFunction(stored)
      BY <1>5, <1>8, <1>10
    <2>4. root - SumFunction(stored) \in Nat
      BY <2>1, <2>2
    <2>5. root - SumFunction(stored) # Unknown /\ root - SumFunction(stored) \in Sizes
      BY <2>4 DEF Unknown, Sizes
    <2>6. SumFunction(stored) + (root - SumFunction(stored)) = root
      BY <2>1, <2>2
    <2> QED
      BY <1>10, <2>2, <2>3, <2>5, <2>6 DEF stored, root
  <1>11. CASE ~ (root # Unknown /\ AllKnown(stored))
    BY <1>5, <1>11 DEF Sizes, stored, root
  <1> QED
    BY <1>10, <1>11

\* The substreams of a new folder.
LEMMA NewSizes ==
  ASSUME NEW i, AtFolder(i), ~ SizesExceedFolder(i)
  PROVE  LET n == Count(raw, i)
             s == SubstreamSizes(i)
             root == raw.folders[i].root IN
         /\ \A k \in 1 .. n : s[k] \in Sizes
         /\ n = 1 => s[1] = root
         /\ n > 1 => (s[n] # Unknown <=>
                        root # Unknown /\ \A k \in 1 .. n - 1 : s[k] # Unknown)
         /\ n > 1 /\ s[n] # Unknown =>
              \A f : (\A k \in 1 .. n : f[k] = s[k]) =>
                 SumFunctionOnSet(f, 1 .. n) = root
  <1> DEFINE n == Count(raw, i)
             s == SubstreamSizes(i)
             root == raw.folders[i].root
             stored == StoredSizes(i)
             last == FinalSize(i, stored)
  <1>1. raw \in RawArchives /\ i \in 1 .. Len(raw.folders)
    BY DEF AtFolder
  <1>2. n \in Nat /\ root \in Sizes
    BY <1>1, RawType
  <1>3. CASE n = 0
    BY <1>3
  <1>4. CASE n = 1
    <2>1. s = <<root>>
      BY <1>4 DEF SubstreamSizes
    <2> QED
      BY <1>2, <1>4, <2>1
  <1>5. CASE n > 1
    <2>1. s = Append(stored, last)
      BY <1>5 DEF SubstreamSizes
    <2>2. stored \in Seq(Sizes) /\ Len(stored) = n - 1
      BY <1>5, StoredSizesType
    <2>3. /\ last \in Sizes
          /\ last # Unknown <=> root # Unknown /\ AllKnown(stored)
          /\ last # Unknown => /\ SumFunction(stored) \in Int
                               /\ SumFunction(stored) + last = root
      BY <1>5, FinalSizeType
    <2> HIDE DEF n, s, root, stored, last
    <2>4. /\ \A k \in 1 .. n - 1 : s[k] = stored[k] /\ stored[k] \in Sizes
          /\ s[n] = last
      BY <1>2, <1>5, <2>1, <2>2, <2>3
    <2>5. \A k \in 1 .. n : k \in 1 .. n - 1 \/ k = n
      BY <1>2
    <2>6. \A k \in 1 .. n : s[k] \in Sizes
      BY <2>3, <2>4, <2>5
    <2>7. DOMAIN stored = 1 .. n - 1
      BY <2>2
    <2>8. s[n] # Unknown <=> root # Unknown /\ \A k \in 1 .. n - 1 : s[k] # Unknown
      BY <2>3, <2>4, <2>7 DEF AllKnown
    <2>9. ASSUME s[n] # Unknown, NEW f, \A k \in 1 .. n : f[k] = s[k]
          PROVE  SumFunctionOnSet(f, 1 .. n) = root
      <3>1. \A k \in 1 .. n - 1 : f[k] = stored[k] /\ f[k] \in Int
        <4> TAKE k \in 1 .. n - 1
        <4>1. k \in 1 .. n
          BY <1>2
        <4>2. f[k] = stored[k] /\ stored[k] \in Sizes
          BY <2>4, <2>9, <4>1
        <4> QED
          BY <4>2 DEF Sizes, Unknown
      <3>2. IsFiniteSet(1 .. n - 1)
        BY <1>2, FS_Interval
      <3>3. SumFunctionOnSet(f, 1 .. n - 1) = SumFunctionOnSet(stored, 1 .. n - 1)
        BY <3>1, <3>2, SumCongruence
      <3>4. n \in 1 .. n /\ f[n] = last
        BY <1>2, <1>5, <2>4, <2>9
      <3>5. last \in Int
        BY <2>3 DEF Sizes, Unknown
      <3>6. n - 1 \in Nat /\ (n - 1) + 1 = n
        BY <1>2, <1>5
      <3>7. \A k \in 1 .. (n - 1) + 1 : f[k] \in Int
        <4> TAKE k \in 1 .. (n - 1) + 1
        <4>1. k \in 1 .. n - 1 \/ k = n
          BY <1>2, <3>6
        <4> QED
          BY <3>1, <3>4, <3>5, <4>1
      <3>8. SumFunctionOnSet(f, 1 .. (n - 1) + 1)
              = SumFunctionOnSet(f, 1 .. n - 1) + f[(n - 1) + 1]
        BY <3>6, <3>7, SumNext
      <3>9. SumFunctionOnSet(stored, 1 .. n - 1) + last = root
        BY <2>3, <2>4, <2>7, <2>9 DEF SumFunction
      <3> QED
        BY <3>3, <3>4, <3>6, <3>8, <3>9
    <2> QED
      BY <1>5, <2>6, <2>8, <2>9 DEF n, s, root
  <1> QED
    BY <1>2, <1>3, <1>4, <1>5

\* The stored sizes are those that the header counts for the folder.
LEMMA NewDeclared ==
  ASSUME NEW i, AtFolder(i), NEW k \in 1 .. Count(raw, i) - 1
  PROVE  /\ SubstreamSizes(i)[k] = StoredSizes(i)[k]
         /\ StoredSizes(i)[k] = DeclaredSize(i, k)
  <1> DEFINE n == Count(raw, i)
             g == [j \in 1 .. i - 1 |-> IF Count(raw, j) > 1 THEN Count(raw, j) - 1 ELSE 0]
  <1>1. /\ raw \in RawArchives /\ i \in 1 .. Len(raw.folders)
        /\ sizeCursor = SizesBefore(i)
    BY DEF AtFolder
  <1>2. n \in Nat /\ raw.hasSizes \in BOOLEAN /\ i \in Nat /\ Len(raw.folders) \in Nat
    BY <1>1, RawType
  <1>3. n > 1
    BY <1>2
  <1>4. SubstreamSizes(i)[k] = StoredSizes(i)[k]
    <2>1. StoredSizes(i) \in Seq(Sizes) /\ Len(StoredSizes(i)) = n - 1
      BY <1>3, StoredSizesType
    <2>2. SubstreamSizes(i) = Append(StoredSizes(i), FinalSize(i, StoredSizes(i)))
      BY <1>3 DEF SubstreamSizes
    <2> QED
      BY <2>1, <2>2
  <1>5. StoredSizes(i)[k] = IF raw.hasSizes THEN raw.sizes[sizeCursor + k] ELSE Unknown
    BY DEF StoredSizes
  <1>6. raw.hasSizes => SumFunction(g) = SizesBefore(i)
    <2>1. ASSUME NEW j \in 1 .. i - 1
          PROVE  g[j] = ExplicitSizes(raw)[j] /\ g[j] \in Int
      <3>1. j \in 1 .. Len(raw.folders)
        BY <1>1, <1>2
      <3>2. Count(raw, j) \in Nat
        BY <1>1, <3>1, RawType
      <3>3. ExplicitSizes(raw)[j] = IF Count(raw, j) = 0 THEN 0 ELSE Count(raw, j) - 1
        BY <1>1, <3>1, StoredType
      <3> QED
        BY <3>2, <3>3
    <2>2. IsFiniteSet(1 .. i - 1)
      BY <1>2, FS_Interval
    <2>3. DOMAIN g = 1 .. i - 1
      OBVIOUS
    <2> HIDE DEF g
    <2>4. SumFunctionOnSet(g, 1 .. i - 1) = SumFunctionOnSet(ExplicitSizes(raw), 1 .. i - 1)
      BY <2>1, <2>2, SumCongruence
    <2> QED
      BY <2>3, <2>4 DEF SumFunction, SizesBefore
  <1>7. DeclaredSize(i, k) =
          IF n > 1 /\ raw.hasSizes THEN raw.sizes[SumFunction(g) + k] ELSE Unknown
    BY DEF DeclaredSize
  <1> HIDE DEF n, g
  <1>8. StoredSizes(i)[k] = DeclaredSize(i, k)
    BY <1>1, <1>3, <1>5, <1>6, <1>7
  <1> QED
    BY <1>4, <1>8

\* A folder that is appended is built as the header says.
LEMMA NewFolderBuilt ==
  ASSUME NEW i, AtFolder(i), ~ SizesExceedFolder(i)
  PROVE  NewFolder(i) \in BuiltFolder /\ Built(NewFolder(i), i)
  <1> DEFINE n == Count(raw, i)
             s == SubstreamSizes(i)
             root == raw.folders[i].root
             f == NewFolder(i)
             sub(k) == [size |-> s[k], crc |-> SubstreamCrc(i, k)]
  <1>1. raw \in RawArchives /\ i \in 1 .. Len(raw.folders)
    BY DEF AtFolder
  <1>2. n \in Nat /\ root \in Sizes /\ raw.folders[i].hasCrc \in BOOLEAN /\ i \in Nat
    BY <1>1, RawType
  <1>3. /\ \A k \in 1 .. n : s[k] \in Sizes
        /\ n = 1 => s[1] = root
        /\ n > 1 => (s[n] # Unknown <=>
                       root # Unknown /\ \A k \in 1 .. n - 1 : s[k] # Unknown)
        /\ n > 1 /\ s[n] # Unknown =>
             \A g : (\A k \in 1 .. n : g[k] = s[k]) => SumFunctionOnSet(g, 1 .. n) = root
    BY NewSizes
  <1>4. \A k \in 1 .. n : /\ SubstreamCrc(i, k) = DeclaredCrc(i, k)
                          /\ SubstreamCrc(i, k) \in Crcs
    BY NewCrcs
  <1>5. /\ f.root = root
        /\ f.crc = IF raw.folders[i].hasCrc THEN FolderCrc(i) ELSE NoCrc
        /\ f.subs = [k \in 1 .. n |-> sub(k)]
    BY DEF NewFolder
  <1>6. f = [root |-> f.root, crc |-> f.crc, subs |-> f.subs]
    BY DEF NewFolder
  <1>7. FolderCrc(i) \in Crcs /\ NoCrc \in Crcs
    BY <1>2 DEF FolderCrc, NoCrc, Crcs
  <1> HIDE DEF n, s, root, f
  <1>8. \A k \in 1 .. n : sub(k) \in [size : Sizes, crc : Crcs]
    BY <1>3, <1>4
  <1>9. /\ f.subs \in Seq([size : Sizes, crc : Crcs]) /\ Len(f.subs) = n
        /\ \A k \in 1 .. n : f.subs[k] = sub(k)
    <2> HIDE DEF sub
    <2> QED
      BY <1>2, <1>5, <1>8
  <1>10. f \in BuiltFolder
    <2>1. f.crc \in Crcs
      BY <1>5, <1>7
    <2> QED
      BY <1>2, <1>5, <1>6, <1>9, <2>1 DEF BuiltFolder
  <1>11. \A k \in 1 .. n : f.subs[k].size = s[k] /\ f.subs[k].crc = DeclaredCrc(i, k)
    <2> TAKE k \in 1 .. n
    <2>1. f.subs[k] = [size |-> s[k], crc |-> SubstreamCrc(i, k)]
      BY <1>9
    <2>2. f.subs[k].size = s[k] /\ f.subs[k].crc = SubstreamCrc(i, k)
      BY <2>1
    <2> QED
      BY <1>4, <2>2
  <1>12. FolderCovered(f, NoCrc)
    <2>1. n = 1 => /\ f.subs[1].size = f.root
                   /\ f.crc # NoCrc => f.subs[1].crc = f.crc
      <3> SUFFICES ASSUME n = 1
                   PROVE  /\ f.subs[1].size = f.root
                          /\ f.crc # NoCrc => f.subs[1].crc = f.crc
        OBVIOUS
      <3>1. 1 \in 1 .. n
        OBVIOUS
      <3>2. f.crc # NoCrc => raw.folders[i].hasCrc /\ f.crc = FolderCrc(i)
        BY <1>5
      <3>3. raw.folders[i].hasCrc => DeclaredCrc(i, 1) = FolderCrc(i)
        BY <1>1, DeclaredCrcOf DEF Inherits, n
      <3> QED
        BY <1>3, <1>5, <1>11, <3>1, <3>2, <3>3
    <2>2. n > 1 => (f.subs[n].size # Unknown <=>
                      f.root # Unknown /\ \A k \in 1 .. n - 1 : f.subs[k].size # Unknown)
      <3>1. n > 1 => n \in 1 .. n
        BY <1>2
      <3>2. \A k \in 1 .. n - 1 : k \in 1 .. n
        BY <1>2
      <3> QED
        BY <1>3, <1>5, <1>11, <3>1, <3>2
    <2>3. n > 1 /\ f.subs[n].size # Unknown => Offset(f.subs, n) = f.root
      <3> DEFINE g == [j \in DOMAIN f.subs |-> f.subs[j].size]
      <3>1. Offset(f.subs, n) = SumFunctionOnSet(g, 1 .. n)
        BY DEF Offset
      <3>2. DOMAIN f.subs = 1 .. n
        BY <1>9
      <3>3. \A k \in 1 .. n : g[k] = s[k]
        BY <1>11, <3>2
      <3> HIDE DEF g
      <3>4. n > 1 => n \in 1 .. n
        BY <1>2
      <3> QED
        BY <1>3, <1>5, <1>11, <3>1, <3>3, <3>4
    <2> QED
      BY <1>9, <2>1, <2>2, <2>3 DEF FolderCovered
  <1>14. \A k \in 1 .. n - 1 : f.subs[k].size = DeclaredSize(i, k)
    <2> SUFFICES ASSUME NEW k \in 1 .. n - 1 PROVE f.subs[k].size = DeclaredSize(i, k)
      OBVIOUS
    <2>1. k \in 1 .. n /\ n > 1
      BY <1>2
    <2>2. s[k] = StoredSizes(i)[k] /\ StoredSizes(i)[k] = DeclaredSize(i, k)
      BY <2>1, NewDeclared DEF n, s
    <2> QED
      BY <1>11, <2>1, <2>2
  <1>13. Built(f, i)
    BY <1>5, <1>9, <1>11, <1>12, <1>14 DEF Built, n, root
  <1> QED
    BY <1>10, <1>13 DEF f
-----------------------------------------------------------------------------
(***************************************************************************)
(* Steps that leave a part of the state alone                              *)
(***************************************************************************)
LEMMA FoldersFrame ==
  ASSUME FoldersInv, raw' = raw, folders' = folders
  PROVE  FoldersInv'
<1>1. ASSUME NEW i, NEW k
      PROVE  DeclaredCrc(i, k)' = DeclaredCrc(i, k)
  BY DEF DeclaredCrc
<1>2. ASSUME NEW i, NEW k
      PROVE  DeclaredSize(i, k)' = DeclaredSize(i, k)
  BY DEF DeclaredSize
<1>3. ASSUME NEW i \in 1 .. Len(folders), Built(folders[i], i)
      PROVE  Built(folders[i], i)'
  BY <1>1, <1>2, <1>3 DEF Built
<1> QED
  BY <1>3 DEF FoldersInv

LEMMA BeforeFrame ==
  ASSUME raw' = raw, NEW i
  PROVE  SizesBefore(i)' = SizesBefore(i) /\ DigestsBefore(i)' = DigestsBefore(i)
  BY DEF SizesBefore, DigestsBefore

LEMMA RankFrame ==
  ASSUME raw' = raw, NEW m
  PROVE  /\ Rank(m)' = Rank(m) /\ StreamsUpTo(m)' = StreamsUpTo(m)
         /\ EmptyUpTo(m)' = EmptyUpTo(m)
  BY DEF Rank, StreamsUpTo, EmptyUpTo

LEMMA PlacesFrame ==
  ASSUME PlacesInv, raw' = raw, members' = members, mappings' = mappings,
         streamCursor' = streamCursor
  PROVE  PlacesInv'
  <1>1. \A m : Rank(m)' = Rank(m)
    BY RankFrame
  <1> QED
    BY <1>1 DEF PlacesInv

fileVars == <<mappings, emptyCursor, streamCursor, members>>

\* What validate_files has not touched yet.
LEMMA FilesFrame ==
  ASSUME FilesInv, MappingInv, PlacesInv, raw' = raw, UNCHANGED fileVars,
         phase \in Sections \cup {"build", "map"},
         phase' \in Sections \cup {"build", "map", "done"},
         phase' = "done" => (result' = "ok" => ~ raw.hasFiles),
         phase' # "done" => result' # "ok"
  PROVE  FilesInv' /\ MappingInv' /\ PlacesInv'
  <1>1. PlacesInv'
    <2>1. members' = members /\ mappings' = mappings /\ streamCursor' = streamCursor
      BY DEF fileVars
    <2> QED
      BY <2>1, PlacesFrame
  <1>2. MappingInv'
    BY DEF MappingInv, fileVars, Sections
  <1>3. FilesInv'
    BY DEF FilesInv, fileVars, Sections
  <1> QED
    BY <1>1, <1>2, <1>3

\* An error returns, whatever was under way.
LEMMA ReturnError ==
  ASSUME MapInv, raw' = raw, UNCHANGED <<at, sizeCursor, crcCursor, folders, fileVars>>,
         phase' = "done",
         result' \in {"format", "unsupported", "overlap", "interrupted"}
  PROVE  MapInv'
  <1>1. FoldersInv'
    BY FoldersFrame DEF MapInv
  <1>2. PhaseInv'
    BY DEF MapInv, PhaseInv
  <1>3. BuildInv'
    BY DEF MapInv, BuildInv, Sections
  <1>4. MappingInv'
    BY DEF MapInv, MappingInv, fileVars
  <1>5. FilesInv'
    BY DEF MapInv, FilesInv, Sections, fileVars
  <1>6. PlacesInv'
    BY PlacesFrame DEF MapInv, fileVars
  <1> QED
    BY <1>1, <1>2, <1>3, <1>4, <1>5, <1>6 DEF MapInv

LEMMA VerdictType ==
  ASSUME NEW s, NEW h
  PROVE  SectionVerdict(s, h) \in {"ok", "format", "unsupported"}
  <1> DEFINE fails == {k \in DOMAIN s.sizes :
                         s.sizes[k] = Unknown \/ PackEnd(s, k) > h}
  <1>1. SectionVerdict(s, h) =
          CASE s.sizes = << >> -> "format"
            [] s.sizes # << >> /\ fails = {} -> "ok"
            [] fails # {} -> IF s.sizes[Min(fails)] = Unknown THEN "unsupported"
                             ELSE "format"
    BY DEF SectionVerdict
  <1> HIDE DEF fails
  <1> QED
    BY <1>1

\* The packed streams of a section: the folders are still to come.
LEMMA AssignPacksStep ==
  ASSUME MapInv, NEW s, NEW nxt, <<s, nxt>> \in {<<"additional", "main">>, <<"main", "build">>},
         AssignPacks(s, nxt)
  PROVE  MapInv'
  <1>1. /\ raw' = raw /\ UNCHANGED <<sizeCursor, crcCursor, folders, fileVars>>
        /\ phase = s /\ s \in Sections
    BY DEF AssignPacks, Sections, fileVars
  <1>2. \/ Goto(nxt, 1)
        \/ /\ Return("format") \/ Return(SectionVerdict(raw.pack[s], raw.header))
           /\ result' # "ok" /\ UNCHANGED at
    BY DEF AssignPacks, Return
  <1>3. CASE Goto(nxt, 1)
    <2>1. phase' = nxt /\ at' = 1 /\ result' = result /\ result = "none"
      BY <1>1, <1>3 DEF Goto, MapInv, PhaseInv, Sections
    <2>2. nxt \in {"main", "build"}
      OBVIOUS
    <2>3. FoldersInv'
      BY <1>1, FoldersFrame DEF MapInv
    <2>4. PhaseInv'
      <3>1. Len(raw.folders) \in Nat /\ Len(raw.emptyStream) \in Nat
        BY RawType DEF MapInv, FoldersInv
      <3> QED
        <4>1. 1 \in 1 .. Len(raw.folders) + Len(raw.emptyStream) + 1
          <5> DEFINE m == Len(raw.folders)
                     n == Len(raw.emptyStream)
          <5>1. m \in Nat /\ n \in Nat
            BY <3>1
          <5> HIDE DEF m, n
          <5>2. 1 \in 1 .. m + n + 1
            BY <5>1
          <5> QED
            BY <5>2 DEF m, n
        <4> QED
          BY <1>1, <2>1, <2>2, <4>1, Zenon DEF PhaseInv, Sections
    <2>5. BuildInv'
      <3>1. at = 1 /\ folders = << >> /\ sizeCursor = 0 /\ crcCursor = 0
        BY <1>1 DEF MapInv, BuildInv
      <3>2. SizesBefore(1) = 0 /\ DigestsBefore(1) = 0
        BY StoredEnds DEF MapInv, FoldersInv
      <3>3. SizesBefore(1)' = 0 /\ DigestsBefore(1)' = 0
        BY <1>1, <3>2, BeforeFrame
      <3>4. SizesBefore(at)' = SizesBefore(1)' /\ DigestsBefore(at)' = DigestsBefore(1)'
        BY <2>1
      <3>5. Len(folders') = 0
        BY <1>1, <3>1
      <3> QED
        BY <1>1, <2>1, <2>2, <3>1, <3>3, <3>4, <3>5 DEF MapInv, BuildInv, Sections
    <2>6. FilesInv' /\ MappingInv' /\ PlacesInv'
      <3>1. /\ phase \in Sections \cup {"build", "map"}
            /\ phase' \in Sections \cup {"build", "map", "done"}
            /\ phase' # "done" /\ result' # "ok"
        BY <1>1, <2>1, <2>2 DEF Sections
      <3> QED
        BY <1>1, <3>1, FilesFrame DEF MapInv
    <2> QED
      BY <2>3, <2>4, <2>5, <2>6 DEF MapInv
  <1>4. CASE /\ Return("format") \/ Return(SectionVerdict(raw.pack[s], raw.header))
             /\ result' # "ok" /\ UNCHANGED at
    <2>1. phase' = "done" /\ result' \in {"format", "unsupported"}
      BY <1>4, VerdictType DEF Return
    <2> QED
      BY <1>1, <1>4, <2>1, ReturnError
  <1> QED
    BY <1>2, <1>3, <1>4
\* One folder: the cursors fit, and what is appended is built as it should be.
LEMMA BuildFolderStep ==
  ASSUME MapInv, BuildFolder
  PROVE  MapInv'
  <1>1. /\ raw \in RawArchives /\ raw' = raw /\ UNCHANGED fileVars
        /\ phase = "build" /\ result = "none" /\ at \in DOMAIN raw.folders
    BY DEF MapInv, FoldersInv, PhaseInv, BuildFolder, fileVars
  <1>2. /\ at = Len(folders) + 1 /\ folders \in Seq(BuiltFolder)
        /\ sizeCursor = SizesBefore(at) /\ crcCursor = DigestsBefore(at)
    BY <1>1 DEF MapInv, FoldersInv, BuildInv
  <1>3. /\ Len(raw.folders) \in Nat /\ Len(raw.emptyStream) \in Nat
        /\ at \in 1 .. Len(raw.folders)
    BY <1>1, RawType
  <1>4. AtFolder(at)
    BY <1>1, <1>2, <1>3 DEF AtFolder
  <1>5. /\ ~ VectorsTooShort(at)
        /\ SizeCursorAfter(at) = SizesBefore(at + 1)
        /\ CrcCursorAfter(at) = DigestsBefore(at + 1)
    BY <1>4, CursorsFit
  <1>6. CASE SizesExceedFolder(at)
    <2>1. Return("format") /\ UNCHANGED <<at, sizeCursor, crcCursor, folders>>
      BY <1>5, <1>6 DEF BuildFolder
    <2> QED
      BY <1>1, <2>1, ReturnError DEF Return
  <1>7. CASE ~ SizesExceedFolder(at)
    <2>1. /\ folders' = Append(folders, NewFolder(at))
          /\ sizeCursor' = SizesBefore(at + 1) /\ crcCursor' = DigestsBefore(at + 1)
          /\ phase' = "build" /\ at' = at + 1 /\ result' = "none"
      BY <1>1, <1>5, <1>7 DEF BuildFolder, Goto, NewFolder
    <2>2. NewFolder(at) \in BuiltFolder /\ Built(NewFolder(at), at)
      BY <1>4, <1>7, NewFolderBuilt
    <2>3. /\ folders' \in Seq(BuiltFolder) /\ Len(folders') = at
          /\ \A i \in 1 .. Len(folders) : folders'[i] = folders[i]
          /\ folders'[at] = NewFolder(at)
      BY <1>2, <2>1, <2>2
    <2>4. \A i \in 1 .. Len(folders') : Built(folders'[i], i)
      <3> TAKE i \in 1 .. Len(folders')
      <3>1. CASE i = at
        BY <2>2, <2>3, <3>1
      <3>2. CASE i # at
        <4>1. i \in 1 .. Len(folders)
          BY <1>2, <2>3, <3>2
        <4>2. Built(folders[i], i)
          BY <4>1 DEF MapInv, FoldersInv
        <4> QED
          BY <2>3, <4>1, <4>2
      <3> QED
        BY <3>1, <3>2
    <2>5. FoldersInv'
      <3>1. Len(folders') <= Len(raw'.folders)
        BY <1>1, <1>3, <2>3
      <3>2. \A i \in 1 .. Len(folders') : Built(folders[i], i)'
        BY <1>1, <2>4, ZenonT(40) DEF Built, DeclaredCrc, DeclaredSize
      <3> QED
        BY <1>1, <2>3, <3>1, <3>2 DEF FoldersInv
    <2>6. PhaseInv'
      <3> DEFINE m == Len(raw.folders)
                 n == Len(raw.emptyStream)
      <3>1. m \in Nat /\ n \in Nat /\ at \in 1 .. m
        BY <1>3
      <3> HIDE DEF m, n
      <3>2. at + 1 \in 1 .. m + n + 1
        BY <3>1
      <3>3. at' \in 1 .. Len(raw'.folders) + Len(raw'.emptyStream) + 1
        BY <1>1, <2>1, <3>2, Zenon DEF m, n
      <3> QED
        BY <2>1, <3>3 DEF PhaseInv, Sections
    <2>7. BuildInv'
      <3>1. /\ SizesBefore(at + 1) \in Nat /\ SizesBefore(at + 1) <= Len(raw.sizes)
            /\ DigestsBefore(at + 1) \in Nat /\ DigestsBefore(at + 1) <= Len(raw.digests)
        BY <1>1, <1>3, SizesStored, DigestsStored
      <3>2. Len(raw.sizes) \in Nat /\ Len(raw.digests) \in Nat
        BY <1>1, RawType
      <3>3. sizeCursor' \in 0 .. Len(raw'.sizes) /\ crcCursor' \in 0 .. Len(raw'.digests)
        BY <1>1, <2>1, <3>1, <3>2
      <3>4. SizesBefore(at)' = SizesBefore(at + 1) /\ DigestsBefore(at)' = DigestsBefore(at + 1)
        BY <1>1, <2>1 DEF SizesBefore, DigestsBefore
      <3>5. at' = Len(folders') + 1
        BY <2>1, <2>3
      <3> QED
        BY <2>1, <3>3, <3>4, <3>5 DEF BuildInv, Sections
    <2>8. FilesInv' /\ MappingInv' /\ PlacesInv'
      <3>1. /\ phase \in Sections \cup {"build", "map"}
            /\ phase' \in Sections \cup {"build", "map", "done"}
            /\ phase' # "done" /\ result' # "ok"
        BY <1>1, <2>1
      <3> QED
        BY <1>1, <3>1, FilesFrame DEF MapInv
    <2> QED
      BY <2>5, <2>6, <2>7, <2>8 DEF MapInv
  <1> QED
    BY <1>6, <1>7

\* All folders: the vectors are used up.
LEMMA BuildDoneStep ==
  ASSUME MapInv, BuildDone
  PROVE  MapInv'
  <1>1. /\ raw \in RawArchives /\ raw' = raw
        /\ UNCHANGED <<sizeCursor, crcCursor, folders, fileVars>>
        /\ phase = "build" /\ result = "none" /\ at \notin DOMAIN raw.folders
    BY DEF MapInv, FoldersInv, PhaseInv, BuildDone, fileVars
  <1>2. /\ at = Len(folders) + 1 /\ folders \in Seq(BuiltFolder)
        /\ Len(folders) <= Len(raw.folders)
        /\ sizeCursor = SizesBefore(at) /\ crcCursor = DigestsBefore(at)
    BY <1>1 DEF MapInv, FoldersInv, BuildInv
  <1>3. /\ Len(raw.folders) \in Nat /\ Len(raw.emptyStream) \in Nat
        /\ DOMAIN raw.folders = 1 .. Len(raw.folders) /\ raw.hasFiles \in BOOLEAN
    BY <1>1, RawType
  <1>4. Len(folders) = Len(raw.folders)
    <2>1. Len(folders) \in Nat
      BY <1>2
    <2> QED
      BY <1>1, <1>2, <1>3, <2>1
  <1>5. sizeCursor = Len(raw.sizes) /\ crcCursor = Len(raw.digests)
    BY <1>1, <1>2, <1>4, StoredEnds
  <1>6. \/ Return("overlap") /\ UNCHANGED at
        \/ raw.hasFiles /\ Goto("map", 1)
        \/ ~ raw.hasFiles /\ Return("ok") /\ UNCHANGED at
    BY <1>5 DEF BuildDone
  <1>7. CASE Return("overlap") /\ UNCHANGED at
    BY <1>1, <1>7, ReturnError DEF Return
  <1>8. CASE (raw.hasFiles /\ Goto("map", 1)) \/ (~ raw.hasFiles /\ Return("ok") /\ UNCHANGED at)
    <2>1. /\ phase' \in {"map", "done"} /\ result' \in {"none", "ok"}
          /\ phase' # "done" => result' = "none"
          /\ phase' = "map" => raw.hasFiles
          /\ phase' = "done" => ~ raw.hasFiles
      BY <1>1, <1>8 DEF Goto, Return
    <2>2. at' = 1 \/ at' = at
      BY <1>8 DEF Goto, Return
    <2>3. FoldersInv'
      BY <1>1, FoldersFrame DEF MapInv
    <2>4. PhaseInv'
      <3> DEFINE m == Len(raw.folders)
                 n == Len(raw.emptyStream)
      <3>1. m \in Nat /\ n \in Nat
        BY <1>3
      <3> HIDE DEF m, n
      <3>2. 1 \in 1 .. m + n + 1
        BY <3>1
      <3>3. at \in 1 .. m + n + 1
        BY DEF MapInv, PhaseInv, m, n
      <3>4. at' \in 1 .. Len(raw'.folders) + Len(raw'.emptyStream) + 1
        BY <1>1, <2>2, <3>2, <3>3, Zenon DEF m, n
      <3> QED
        BY <1>1, <2>1, <3>4 DEF PhaseInv, Sections
    <2>5. BuildInv'
      <3>1. sizeCursor \in 0 .. Len(raw.sizes) /\ crcCursor \in 0 .. Len(raw.digests)
        BY DEF MapInv, BuildInv
      <3> QED
        BY <1>1, <1>4, <2>1, <3>1 DEF BuildInv, Sections
    <2>6. FilesInv' /\ MappingInv' /\ PlacesInv'
      <3>1. /\ phase \in Sections \cup {"build", "map"}
            /\ phase' \in Sections \cup {"build", "map", "done"}
            /\ phase' = "done" => (result' = "ok" => ~ raw.hasFiles)
            /\ phase' # "done" => result' # "ok"
        BY <1>1, <2>1
      <3> QED
        BY <1>1, <3>1, FilesFrame DEF MapInv
    <2> QED
      BY <2>3, <2>4, <2>5, <2>6 DEF MapInv
  <1> QED
    BY <1>6, <1>7, <1>8
-----------------------------------------------------------------------------
(***************************************************************************)
(* collect_stream_mappings and validate_files                              *)
(***************************************************************************)
LEMMA UpToFinite ==
  ASSUME NEW m \in Nat
  PROVE  /\ IsFiniteSet(StreamsUpTo(m)) /\ IsFiniteSet(EmptyUpTo(m))
         /\ Rank(m) \in Nat /\ Cardinality(EmptyUpTo(m)) \in Nat
  <1>1. IsFiniteSet(1 .. m)
    BY FS_Interval
  <1>2. StreamsUpTo(m) \in SUBSET (1 .. m) /\ EmptyUpTo(m) \in SUBSET (1 .. m)
    BY DEF StreamsUpTo, EmptyUpTo
  <1>3. IsFiniteSet(StreamsUpTo(m)) /\ IsFiniteSet(EmptyUpTo(m))
    BY <1>1, <1>2, FS_Subset
  <1> QED
    BY <1>3, FS_CardinalityType DEF Rank

LEMMA RankNext ==
  ASSUME NEW m \in Nat
  PROVE  /\ Rank(m + 1) = IF raw.emptyStream[m + 1] THEN Rank(m) ELSE Rank(m) + 1
         /\ Cardinality(EmptyUpTo(m + 1)) =
              IF raw.emptyStream[m + 1] THEN Cardinality(EmptyUpTo(m)) + 1
              ELSE Cardinality(EmptyUpTo(m))
  <1>1. IsFiniteSet(StreamsUpTo(m)) /\ IsFiniteSet(EmptyUpTo(m))
    BY UpToFinite
  <1>2. m + 1 \notin StreamsUpTo(m) /\ m + 1 \notin EmptyUpTo(m)
    BY DEF StreamsUpTo, EmptyUpTo
  <1>3. CASE raw.emptyStream[m + 1]
    <2>1. StreamsUpTo(m + 1) = StreamsUpTo(m)
      BY <1>3 DEF StreamsUpTo
    <2>2. EmptyUpTo(m + 1) = EmptyUpTo(m) \cup {m + 1}
      BY <1>3 DEF EmptyUpTo
    <2>3. Cardinality(EmptyUpTo(m) \cup {m + 1}) = Cardinality(EmptyUpTo(m)) + 1
      BY <1>1, <1>2, FS_AddElement
    <2> QED
      BY <1>3, <2>1, <2>2, <2>3 DEF Rank
  <1>4. CASE ~ raw.emptyStream[m + 1]
    <2>1. EmptyUpTo(m + 1) = EmptyUpTo(m)
      BY <1>4 DEF EmptyUpTo
    <2>2. StreamsUpTo(m + 1) = StreamsUpTo(m) \cup {m + 1}
      BY <1>4 DEF StreamsUpTo
    <2>3. Cardinality(StreamsUpTo(m) \cup {m + 1}) = Cardinality(StreamsUpTo(m)) + 1
      BY <1>1, <1>2, FS_AddElement
    <2> QED
      BY <1>4, <2>1, <2>2, <2>3 DEF Rank
  <1> QED
    BY <1>3, <1>4

LEMMA RankMonotone ==
  ASSUME NEW l \in Nat, NEW m \in Nat, l <= m
  PROVE  /\ Rank(l) <= Rank(m)
         /\ Cardinality(EmptyUpTo(l)) <= Cardinality(EmptyUpTo(m))
  <1>1. StreamsUpTo(l) \in SUBSET StreamsUpTo(m) /\ EmptyUpTo(l) \in SUBSET EmptyUpTo(m)
    BY DEF StreamsUpTo, EmptyUpTo
  <1>2. IsFiniteSet(StreamsUpTo(m)) /\ IsFiniteSet(EmptyUpTo(m))
    BY UpToFinite
  <1> QED
    BY <1>1, <1>2, FS_Subset DEF Rank

LEMMA RankZero ==
  Rank(0) = 0 /\ Cardinality(EmptyUpTo(0)) = 0
  <1>1. StreamsUpTo(0) = {} /\ EmptyUpTo(0) = {}
    BY DEF StreamsUpTo, EmptyUpTo
  <1> QED
    BY <1>1, FS_EmptySet DEF Rank

\* The EmptyFile and Anti vectors have one bit for each empty stream.
LEMMA EmptyBits ==
  ASSUME raw \in RawArchives
  PROVE  /\ Len(raw.emptyFile) = Cardinality(EmptyUpTo(Len(raw.emptyStream)))
         /\ Len(raw.emptyFile) \in Nat
         /\ \A j \in 1 .. Len(raw.emptyFile) :
              raw.emptyFile[j] \in BOOLEAN /\ raw.anti[j] \in BOOLEAN
  <1> DEFINE e == Cardinality(EmptyUpTo(Len(raw.emptyStream)))
  <1>1. raw.emptyStream \in Seq(BOOLEAN)
    BY RawType
  <1>2. Len(raw.emptyStream) \in Nat /\ DOMAIN raw.emptyStream = 1 .. Len(raw.emptyStream)
    BY <1>1
  <1>3. e \in Nat
    BY <1>2, UpToFinite
  <1>4. {i \in DOMAIN raw.emptyStream : raw.emptyStream[i]} = EmptyUpTo(Len(raw.emptyStream))
    BY <1>2 DEF EmptyUpTo
  <1>5. RawFiles(raw)
    BY RawArchivesAssumption
  <1>6. raw.emptyFile \in [1 .. e -> BOOLEAN] /\ raw.anti \in [1 .. e -> BOOLEAN]
    BY <1>4, <1>5 DEF RawFiles
  <1> HIDE DEF e
  <1>7. Len(raw.emptyFile) = e
    BY <1>3, <1>6
  <1> QED
    BY <1>3, <1>6, <1>7 DEF e

LEMMA SubsOfType ==
  ASSUME FoldersInv
  PROVE  /\ Len(folders) \in Nat /\ DOMAIN folders = 1 .. Len(folders)
         /\ DOMAIN SubsOf = 1 .. Len(folders)
         /\ \A f \in 1 .. Len(folders) : /\ SubsOf[f] \in Nat
                                         /\ SubsOf[f] = Len(folders[f].subs)
                                         /\ DOMAIN folders[f].subs = 1 .. SubsOf[f]
                                         /\ folders[f] \in BuiltFolder
  <1>1. folders \in Seq(BuiltFolder)
    BY DEF FoldersInv
  <1>2. /\ Len(folders) \in Nat /\ DOMAIN folders = 1 .. Len(folders)
        /\ \A f \in 1 .. Len(folders) : folders[f] \in BuiltFolder
    BY <1>1
  <1>3. \A f \in 1 .. Len(folders) : folders[f].subs \in Seq([size : Sizes, crc : Crcs])
    BY <1>2 DEF BuiltFolder
  <1>4. \A f \in 1 .. Len(folders) : /\ Len(folders[f].subs) \in Nat
                                     /\ DOMAIN folders[f].subs = 1 .. Len(folders[f].subs)
    <2> TAKE f \in 1 .. Len(folders)
    <2> DEFINE S == [size : Sizes, crc : Crcs]
               t == folders[f].subs
    <2>1. t \in Seq(S)
      BY <1>3
    <2> HIDE DEF S, t
    <2>2. Len(t) \in Nat /\ DOMAIN t = 1 .. Len(t)
      BY <2>1
    <2> QED
      BY <2>2 DEF t
  <1> QED
    BY <1>2, <1>4 DEF SubsOf

\* What collect_stream_mappings returns.
LEMMA Collected ==
  ASSUME FoldersInv
  PROVE  Pairs(FlattenSeq([f \in DOMAIN folders |->
                             [k \in DOMAIN folders[f].subs |-> <<f, k>>]]),
               SubsOf, Len(folders))
  <1>1. /\ Len(folders) \in Nat /\ DOMAIN folders = 1 .. Len(folders)
        /\ DOMAIN SubsOf = 1 .. Len(folders)
        /\ \A f \in 1 .. Len(folders) : /\ SubsOf[f] \in Nat
                                        /\ DOMAIN folders[f].subs = 1 .. SubsOf[f]
    BY SubsOfType
  <1>2. [f \in DOMAIN folders |-> [k \in DOMAIN folders[f].subs |-> <<f, k>>]]
          = [f \in 1 .. Len(folders) |-> Row(SubsOf, f)]
    BY <1>1 DEF Row
  <1>3. Pairs(FlattenSeq([f \in 1 .. Len(folders) |-> Row(SubsOf, f)]), SubsOf, Len(folders))
    BY <1>1, FlattenPairs
  <1> QED
    BY <1>2, <1>3

LEMMA CollectMappingsStep ==
  ASSUME MapInv, CollectMappings
  PROVE  MapInv'
  <1>1. /\ raw \in RawArchives /\ raw' = raw
        /\ UNCHANGED <<sizeCursor, crcCursor, folders, emptyCursor, streamCursor, members>>
        /\ phase = "map" /\ result = "none" /\ raw.hasFiles
    BY DEF MapInv, FoldersInv, PhaseInv, CollectMappings
  <1>2. Pairs(mappings', SubsOf, Len(folders))
    BY Collected DEF MapInv, CollectMappings
  <1>3. mappings' \in Seq(Nat \X Nat)
    BY <1>2 DEF Pairs
  <1>4. members = << >> /\ streamCursor = 0 /\ emptyCursor = 0
    BY <1>1 DEF MapInv, FilesInv
  <1>5. Len(mappings') \in Nat
    BY <1>3
  <1>6. /\ Len(raw.folders) \in Nat /\ raw.emptyStream \in Seq(BOOLEAN)
        /\ Len(raw.emptyFile) \in Nat
    BY <1>1, RawType, EmptyBits
  <1>7. /\ Len(raw.emptyStream) \in Nat
        /\ {i \in DOMAIN raw.emptyStream : ~ raw.emptyStream[i]}
             = StreamsUpTo(Len(raw.emptyStream))
    BY <1>6 DEF StreamsUpTo
  <1>8. \/ Len(mappings') = Rank(Len(raw.emptyStream)) /\ Goto("files", 1)
        \/ Return("format") /\ UNCHANGED at
    BY <1>7 DEF CollectMappings, Rank
  <1>9. FoldersInv'
    BY <1>1, FoldersFrame DEF MapInv
  <1>10. PhaseInv'
    <2> DEFINE m == Len(raw.folders)
               n == Len(raw.emptyStream)
    <2>1. m \in Nat /\ n \in Nat
      BY <1>6, <1>7
    <2> HIDE DEF m, n
    <2>2. 1 \in 1 .. m + n + 1
      BY <2>1
    <2>3. at \in 1 .. m + n + 1
      BY DEF MapInv, PhaseInv, m, n
    <2>4. at' = 1 \/ at' = at
      BY <1>8 DEF Goto
    <2>5. at' \in 1 .. Len(raw'.folders) + Len(raw'.emptyStream) + 1
      BY <1>1, <2>2, <2>3, <2>4, Zenon DEF m, n
    <2> QED
      BY <1>1, <1>8, <2>5 DEF PhaseInv, Goto, Return
  <1>11. BuildInv'
    <2>1. /\ sizeCursor \in 0 .. Len(raw.sizes) /\ crcCursor \in 0 .. Len(raw.digests)
          /\ Len(folders) = Len(raw.folders)
      BY <1>1 DEF MapInv, BuildInv
    <2> QED
      BY <1>1, <1>8, <2>1 DEF BuildInv, Sections, Goto, Return
  <1>12. MappingInv'
    <2>1. SubsOf' = SubsOf
      BY <1>1 DEF SubsOf
    <2>2. Pairs(mappings, SubsOf, Len(folders))'
      BY <1>1, <1>2, <2>1 DEF Pairs
    <2>3. \A m : Rank(m)' = Rank(m)
      BY <1>1, RankFrame
    <2>4. Rank(Len(raw.emptyStream))' = Rank(Len(raw.emptyStream))
      BY <1>1 DEF Rank, StreamsUpTo
    <2> QED
      BY <1>1, <1>3, <1>8, <2>2, <2>4 DEF MappingInv, Goto, Return
  <1>13. FilesInv'
    <2>1. Rank(0)' = 0 /\ Cardinality(EmptyUpTo(0))' = 0
      BY <1>1, RankZero, RankFrame
    <2>2. at' = 1 => Rank(at - 1)' = Rank(0)' /\ EmptyUpTo(at - 1)' = EmptyUpTo(0)'
      BY DEF Rank, StreamsUpTo, EmptyUpTo
    <2>3. members' = << >> /\ streamCursor' = 0 /\ emptyCursor' = 0
      BY <1>1, <1>4
    <2>4. Len(members') = 0 /\ members' \in Seq(FileRecord)
      BY <2>3
    <2>5. phase' = "files" => at' = 1
      BY <1>8 DEF Goto, Return
    <2>6. phase' \in {"files", "done"} /\ result' # "ok"
      BY <1>1, <1>8 DEF Goto, Return
    <2>7. phase' = "files" => /\ at' = Len(members') + 1
                              /\ streamCursor' = Rank(at - 1)'
                              /\ emptyCursor' = Cardinality(EmptyUpTo(at - 1))'
      BY <2>1, <2>2, <2>3, <2>4, <2>5
    <2>8. /\ streamCursor' \in 0 .. Len(mappings')
          /\ emptyCursor' \in 0 .. Len(raw'.emptyFile)
          /\ Len(members') <= Len(raw'.emptyStream)
      BY <1>1, <1>5, <1>6, <1>7, <2>3, <2>4
    <2> QED
      BY <2>4, <2>6, <2>7, <2>8 DEF FilesInv, Sections
  <1>14. PlacesInv'
    <2>1. 1 .. Len(members') = {} /\ 1 .. streamCursor' = {}
      BY <1>1, <1>4
    <2> QED
      BY <2>1 DEF PlacesInv
  <1> QED
    BY <1>9, <1>10, <1>11, <1>12, <1>13, <1>14 DEF MapInv
\* The cursors of validate_files, while file m is under way.
LEMMA FileCursors ==
  ASSUME MapInv, phase = "files", at \in DOMAIN raw.emptyStream
  PROVE  /\ at \in 1 .. Len(raw.emptyStream) /\ at = Len(members) + 1
         /\ Rank(at) = IF raw.emptyStream[at] THEN streamCursor ELSE streamCursor + 1
         /\ Cardinality(EmptyUpTo(at)) =
              IF raw.emptyStream[at] THEN emptyCursor + 1 ELSE emptyCursor
         /\ Rank(at) \in 0 .. Len(mappings)
         /\ Cardinality(EmptyUpTo(at)) \in 0 .. Len(raw.emptyFile)
         /\ streamCursor \in Nat /\ emptyCursor \in Nat
  <1> DEFINE n == Len(raw.emptyStream)
  <1>1. raw \in RawArchives /\ raw.emptyStream \in Seq(BOOLEAN)
    BY RawType DEF MapInv, FoldersInv
  <1>2. n \in Nat /\ at \in 1 .. n
    BY <1>1
  <1>3. /\ at = Len(members) + 1
        /\ streamCursor = Rank(at - 1) /\ emptyCursor = Cardinality(EmptyUpTo(at - 1))
    BY DEF MapInv, FilesInv
  <1>4. Len(mappings) = Rank(n)
    BY DEF MapInv, MappingInv
  <1>5. Len(raw.emptyFile) = Cardinality(EmptyUpTo(n)) /\ Len(raw.emptyFile) \in Nat
    BY <1>1, EmptyBits
  <1> HIDE DEF n
  <1>6. at - 1 \in Nat /\ (at - 1) + 1 = at /\ at \in Nat /\ at <= n
    BY <1>2
  <1>7. /\ Rank(at) = IF raw.emptyStream[at] THEN Rank(at - 1) ELSE Rank(at - 1) + 1
        /\ Cardinality(EmptyUpTo(at)) =
              IF raw.emptyStream[at] THEN Cardinality(EmptyUpTo(at - 1)) + 1
              ELSE Cardinality(EmptyUpTo(at - 1))
    <2>1. PICK m \in Nat : m = at - 1 /\ m + 1 = at
      BY <1>6
    <2>2. /\ Rank(m + 1) = IF raw.emptyStream[m + 1] THEN Rank(m) ELSE Rank(m) + 1
          /\ Cardinality(EmptyUpTo(m + 1)) =
              IF raw.emptyStream[m + 1] THEN Cardinality(EmptyUpTo(m)) + 1
              ELSE Cardinality(EmptyUpTo(m))
      BY RankNext
    <2> QED
      BY <2>1, <2>2
  <1>8. /\ Rank(at) \in Nat /\ Rank(n) \in Nat /\ Rank(at - 1) \in Nat
        /\ Cardinality(EmptyUpTo(at)) \in Nat /\ Cardinality(EmptyUpTo(at - 1)) \in Nat
    BY <1>2, <1>6, UpToFinite
  <1>9. Rank(at) <= Rank(n) /\ Cardinality(EmptyUpTo(at)) <= Cardinality(EmptyUpTo(n))
    BY <1>2, <1>6, RankMonotone
  <1>10. Rank(at) \in 0 .. Len(mappings) /\ Cardinality(EmptyUpTo(at)) \in 0 .. Len(raw.emptyFile)
    BY <1>4, <1>5, <1>8, <1>9
  <1> QED
    BY <1>2, <1>3, <1>7, <1>8, <1>10 DEF n

\* The record that validate_files appends for the file under way.
LEMMA NewMember ==
  ASSUME MapInv, AddFile
  PROVE  \E x \in FileRecord :
           /\ members' = Append(members, x)
           /\ x.kind = "stream" <=> ~ raw.emptyStream[at]
           /\ x.kind = "stream" => Place(x) = mappings[streamCursor + 1]
  <1>1. phase = "files" /\ at \in DOMAIN raw.emptyStream
    BY DEF AddFile
  <1>2. /\ Rank(at) = IF raw.emptyStream[at] THEN streamCursor ELSE streamCursor + 1
        /\ Cardinality(EmptyUpTo(at)) =
              IF raw.emptyStream[at] THEN emptyCursor + 1 ELSE emptyCursor
        /\ Rank(at) \in 0 .. Len(mappings)
        /\ Cardinality(EmptyUpTo(at)) \in 0 .. Len(raw.emptyFile)
        /\ streamCursor \in Nat /\ emptyCursor \in Nat
    BY <1>1, FileCursors
  <1>3. CASE raw.emptyStream[at]
    <2> DEFINE x == [kind |-> EmptyKind(emptyCursor + 1), folder |-> 0, sub |-> 0]
    <2>1. members' = Append(members, x)
      BY <1>3 DEF AddFile
    <2>2. emptyCursor + 1 \in 1 .. Len(raw.emptyFile)
      BY <1>2, <1>3
    <2>3. raw.anti[emptyCursor + 1] \in BOOLEAN /\ raw.emptyFile[emptyCursor + 1] \in BOOLEAN
      BY <2>2, EmptyBits DEF MapInv, FoldersInv
    <2>4. EmptyKind(emptyCursor + 1) \in {"anti", "empty", "dir"}
      BY <2>3 DEF EmptyKind
    <2>5. x \in FileRecord /\ x.kind # "stream"
      BY <2>4 DEF FileRecord
    <2> QED
      BY <1>3, <2>1, <2>5
  <1>4. CASE ~ raw.emptyStream[at]
    <2> DEFINE p == mappings[streamCursor + 1]
               x == [kind |-> "stream", folder |-> p[1], sub |-> p[2]]
    <2>1. members' = Append(members, x)
      BY <1>4 DEF AddFile
    <2>2. mappings \in Seq(Nat \X Nat)
      BY DEF MapInv, MappingInv
    <2>3. streamCursor + 1 \in 1 .. Len(mappings)
      BY <1>2, <1>4, <2>2
    <2>4. p \in Nat \X Nat
      BY <2>2, <2>3
    <2> HIDE DEF p
    <2>5. x \in FileRecord /\ x.kind = "stream" /\ Place(x) = p
      BY <2>4 DEF FileRecord, Place
    <2> QED
      BY <1>4, <2>1, <2>5 DEF p
  <1> QED
    BY <1>3, <1>4

LEMMA AddFileStep ==
  ASSUME MapInv, AddFile
  PROVE  MapInv'
  <1>1. /\ raw \in RawArchives /\ raw' = raw
        /\ UNCHANGED <<sizeCursor, crcCursor, folders, mappings>>
        /\ phase = "files" /\ phase' = "files" /\ result = "none" /\ result' = "none"
        /\ at \in DOMAIN raw.emptyStream /\ at' = at + 1 /\ raw.hasFiles
    BY DEF MapInv, FoldersInv, PhaseInv, AddFile, Goto
  <1>2. /\ at \in 1 .. Len(raw.emptyStream) /\ at = Len(members) + 1
        /\ Rank(at) = IF raw.emptyStream[at] THEN streamCursor ELSE streamCursor + 1
        /\ Cardinality(EmptyUpTo(at)) =
              IF raw.emptyStream[at] THEN emptyCursor + 1 ELSE emptyCursor
        /\ Rank(at) \in 0 .. Len(mappings)
        /\ Cardinality(EmptyUpTo(at)) \in 0 .. Len(raw.emptyFile)
        /\ streamCursor \in Nat /\ emptyCursor \in Nat
    BY <1>1, FileCursors
  <1>3. streamCursor' = Rank(at) /\ emptyCursor' = Cardinality(EmptyUpTo(at))
    BY <1>2 DEF AddFile
  <1>4. PICK x \in FileRecord :
           /\ members' = Append(members, x)
           /\ x.kind = "stream" <=> ~ raw.emptyStream[at]
           /\ x.kind = "stream" => Place(x) = mappings[streamCursor + 1]
    BY NewMember
  <1>5. members \in Seq(FileRecord)
    BY DEF MapInv, FilesInv
  <1>6. /\ members' \in Seq(FileRecord) /\ Len(members') = at
        /\ \A m \in 1 .. Len(members) : members'[m] = members[m]
        /\ members'[at] = x
        /\ Len(members) \in Nat
    BY <1>2, <1>4, <1>5
  <1>7. \A m \in 1 .. Len(members') : m \in 1 .. Len(members) \/ m = at
    BY <1>2, <1>6
  <1>8. Len(raw.folders) \in Nat /\ Len(raw.emptyStream) \in Nat
    BY <1>1, RawType
  <1>9. FoldersInv'
    BY <1>1, FoldersFrame DEF MapInv
  <1>10. PhaseInv'
    <2> DEFINE k == Len(raw.folders)
               n == Len(raw.emptyStream)
    <2>1. k \in Nat /\ n \in Nat /\ at \in 1 .. n
      BY <1>2, <1>8
    <2> HIDE DEF k, n
    <2>2. at + 1 \in 1 .. k + n + 1
      BY <2>1
    <2>3. at' \in 1 .. Len(raw'.folders) + Len(raw'.emptyStream) + 1
      BY <1>1, <2>2, Zenon DEF k, n
    <2> QED
      BY <1>1, <2>3 DEF PhaseInv
  <1>11. BuildInv'
    <2>1. /\ sizeCursor \in 0 .. Len(raw.sizes) /\ crcCursor \in 0 .. Len(raw.digests)
          /\ Len(folders) = Len(raw.folders)
      BY <1>1 DEF MapInv, BuildInv
    <2> QED
      BY <1>1, <2>1 DEF BuildInv, Sections
  <1>12. MappingInv'
    <2>1. /\ mappings \in Seq(Nat \X Nat) /\ Pairs(mappings, SubsOf, Len(folders))
          /\ Len(mappings) = Rank(Len(raw.emptyStream))
      BY <1>1 DEF MapInv, MappingInv
    <2>2. SubsOf' = SubsOf
      BY <1>1 DEF SubsOf
    <2>3. Pairs(mappings, SubsOf, Len(folders))'
      BY <1>1, <2>1, <2>2 DEF Pairs
    <2>4. Rank(Len(raw.emptyStream))' = Rank(Len(raw.emptyStream))
      BY <1>1 DEF Rank, StreamsUpTo
    <2> QED
      BY <1>1, <2>1, <2>3, <2>4 DEF MappingInv
  <1>13. FilesInv'
    <2>1. (at + 1) - 1 = at
      BY <1>2
    <2>2. Rank(at - 1)' = Rank(at) /\ EmptyUpTo(at - 1)' = EmptyUpTo(at)
      BY <1>1, <2>1 DEF Rank, StreamsUpTo, EmptyUpTo
    <2>3. at' = Len(members') + 1 /\ Len(members') <= Len(raw'.emptyStream)
      BY <1>1, <1>2, <1>6, <1>8
    <2>4. streamCursor' \in 0 .. Len(mappings') /\ emptyCursor' \in 0 .. Len(raw'.emptyFile)
      BY <1>1, <1>2, <1>3
    <2>5. streamCursor' = Rank(at - 1)' /\ emptyCursor' = Cardinality(EmptyUpTo(at - 1))'
      BY <1>3, <2>2
    <2> QED
      BY <1>1, <1>6, <2>3, <2>4, <2>5 DEF FilesInv, Sections
  <1>14. PlacesInv'
    <2>1. \A m : Rank(m)' = Rank(m)
      BY <1>1, RankFrame
    <2>2. /\ \A m \in 1 .. Len(members) :
                members[m].kind = "stream" =>
                  /\ ~ raw.emptyStream[m]
                  /\ Rank(m) \in 1 .. streamCursor
                  /\ Place(members[m]) = mappings[Rank(m)]
          /\ \A l, m \in 1 .. Len(members) :
                l < m /\ members[l].kind = "stream" /\ members[m].kind = "stream"
                  => Rank(l) < Rank(m)
          /\ \A r \in 1 .. streamCursor :
                \E m \in 1 .. Len(members) : members[m].kind = "stream" /\ Rank(m) = r
      BY DEF MapInv, PlacesInv
    <2>3. /\ streamCursor' \in Nat /\ streamCursor <= streamCursor'
          /\ \A r \in 1 .. streamCursor : r \in 1 .. streamCursor'
          /\ x.kind = "stream" => /\ ~ raw.emptyStream[at]
                                  /\ Rank(at) = streamCursor + 1
                                  /\ streamCursor' = streamCursor + 1
          /\ x.kind # "stream" => streamCursor' = streamCursor
      BY <1>2, <1>3, <1>4
    <2>4. \A m \in 1 .. Len(members') :
            members'[m].kind = "stream" =>
              /\ ~ raw.emptyStream[m]
              /\ Rank(m) \in 1 .. streamCursor'
              /\ Place(members'[m]) = mappings[Rank(m)]
      <3> TAKE m \in 1 .. Len(members')
      <3>1. CASE m \in 1 .. Len(members)
        BY <1>6, <2>2, <2>3, <3>1
      <3>2. CASE m = at
        <4>1. members'[m] = x
          BY <1>6, <3>2
        <4>2. x.kind = "stream" => Rank(m) \in 1 .. streamCursor'
          BY <1>2, <2>3, <3>2
        <4> QED
          BY <1>4, <2>3, <3>2, <4>1, <4>2
      <3> QED
        BY <1>7, <3>1, <3>2
    <2>5. \A l, m \in 1 .. Len(members') :
            l < m /\ members'[l].kind = "stream" /\ members'[m].kind = "stream"
              => Rank(l) < Rank(m)
      <3> SUFFICES ASSUME NEW l \in 1 .. Len(members'), NEW m \in 1 .. Len(members'), l < m,
                          members'[l].kind = "stream", members'[m].kind = "stream"
                   PROVE  Rank(l) < Rank(m)
        OBVIOUS
      <3>1. l \in 1 .. Len(members)
        BY <1>2, <1>6
      <3>2. members'[l] = members[l]
        BY <1>6, <3>1
      <3>3. CASE m \in 1 .. Len(members)
        BY <1>6, <2>2, <3>1, <3>2, <3>3
      <3>4. CASE m = at
        <4>1. members'[m] = x
          BY <1>6, <3>4
        <4>2. Rank(l) \in 1 .. streamCursor
          BY <2>2, <3>1, <3>2
        <4>3. Rank(m) = streamCursor + 1
          BY <2>3, <3>4, <4>1
        <4> QED
          BY <1>2, <4>2, <4>3
      <3> QED
        BY <1>7, <3>3, <3>4
    <2>6. \A r \in 1 .. streamCursor' :
            \E m \in 1 .. Len(members') : members'[m].kind = "stream" /\ Rank(m) = r
      <3> TAKE r \in 1 .. streamCursor'
      <3>1. CASE r \in 1 .. streamCursor
        <4>1. PICK m \in 1 .. Len(members) : members[m].kind = "stream" /\ Rank(m) = r
          BY <2>2, <3>1
        <4>2. m \in 1 .. Len(members') /\ members'[m] = members[m]
          BY <1>2, <1>6
        <4> QED
          BY <4>1, <4>2
      <3>2. CASE r \notin 1 .. streamCursor
        <4>1. x.kind = "stream"
          BY <2>3, <3>2
        <4>2. r = streamCursor + 1
          BY <1>2, <2>3, <3>2, <4>1
        <4>3. at \in 1 .. Len(members') /\ members'[at] = x /\ Rank(at) = r
          BY <1>2, <1>6, <2>3, <4>1, <4>2
        <4> QED
          BY <4>1, <4>3
      <3> QED
        BY <3>1, <3>2
    <2> QED
      BY <1>1, <2>1, <2>4, <2>5, <2>6 DEF PlacesInv
  <1> QED
    BY <1>9, <1>10, <1>11, <1>12, <1>13, <1>14 DEF MapInv

\* All files: both cursors are at the end.
LEMMA FilesDoneStep ==
  ASSUME MapInv, FilesDone
  PROVE  MapInv'
  <1>1. /\ raw \in RawArchives /\ raw' = raw
        /\ UNCHANGED <<at, sizeCursor, crcCursor, folders, fileVars>>
        /\ phase = "files" /\ result = "none" /\ phase' = "done"
        /\ at \notin DOMAIN raw.emptyStream /\ raw.hasFiles
    BY DEF MapInv, FoldersInv, PhaseInv, FilesDone, Return, fileVars
  <1>2. /\ at = Len(members) + 1 /\ Len(members) <= Len(raw.emptyStream)
        /\ members \in Seq(FileRecord)
        /\ streamCursor = Rank(at - 1) /\ emptyCursor = Cardinality(EmptyUpTo(at - 1))
    BY <1>1 DEF MapInv, FilesInv
  <1>3. raw.emptyStream \in Seq(BOOLEAN)
    BY <1>1, RawType
  <1>4. Len(members) = Len(raw.emptyStream) /\ at - 1 = Len(raw.emptyStream)
    BY <1>1, <1>2, <1>3
  <1>5. Len(mappings) = Rank(Len(raw.emptyStream))
    BY <1>1 DEF MapInv, MappingInv
  <1>6. Len(raw.emptyFile) = Cardinality(EmptyUpTo(Len(raw.emptyStream)))
    BY <1>1, EmptyBits
  <1>7. streamCursor = Len(mappings) /\ emptyCursor = Len(raw.emptyFile)
    BY <1>2, <1>4, <1>5, <1>6
  <1>8. result' = "ok"
    BY <1>7 DEF FilesDone, Return
  <1>9. FoldersInv'
    BY <1>1, FoldersFrame DEF MapInv
  <1>10. PhaseInv'
    BY <1>1, <1>8 DEF MapInv, PhaseInv
  <1>11. BuildInv'
    BY <1>1, <1>8 DEF MapInv, BuildInv, Sections
  <1>12. UNCHANGED <<mappings, emptyCursor, streamCursor, members>>
    BY <1>1 DEF fileVars
  <1>13. MappingInv'
    <2>1. /\ mappings \in Seq(Nat \X Nat) /\ Pairs(mappings, SubsOf, Len(folders))
      BY <1>1 DEF MapInv, MappingInv
    <2>2. SubsOf' = SubsOf
      BY <1>1 DEF SubsOf
    <2>3. Pairs(mappings, SubsOf, Len(folders))'
      BY <1>1, <1>12, <2>1, <2>2 DEF Pairs
    <2>4. Rank(Len(raw.emptyStream))' = Rank(Len(raw.emptyStream))
      BY <1>1 DEF Rank, StreamsUpTo
    <2> QED
      BY <1>5, <1>12, <2>1, <2>3, <2>4 DEF MappingInv
  <1>14. FilesInv'
    BY <1>1, <1>4, <1>7, <1>8, <1>12 DEF MapInv, FilesInv, Sections
  <1>15. PlacesInv'
    BY <1>1, <1>12, PlacesFrame DEF MapInv
  <1> QED
    BY <1>9, <1>10, <1>11, <1>13, <1>14, <1>15 DEF MapInv
-----------------------------------------------------------------------------
(***************************************************************************)
(* Validation as a whole                                                   *)
(***************************************************************************)
LEMMA MapInitInv ==
  ASSUME MapInit
  PROVE  MapInv
  <1>1. /\ raw \in RawArchives /\ phase = "additional" /\ result = "none" /\ at = 1
        /\ sizeCursor = 0 /\ crcCursor = 0 /\ folders = << >> /\ mappings = << >>
        /\ emptyCursor = 0 /\ streamCursor = 0 /\ members = << >>
    BY DEF MapInit
  <1>2. /\ Len(raw.folders) \in Nat /\ raw.emptyStream \in Seq(BOOLEAN)
        /\ raw.sizes \in Seq(Sizes) /\ raw.digests \in Seq(BOOLEAN)
        /\ Len(raw.emptyFile) \in Nat
    BY <1>1, RawType, EmptyBits
  <1>3. /\ Len(raw.emptyStream) \in Nat /\ Len(raw.sizes) \in Nat
        /\ Len(raw.digests) \in Nat
    BY <1>2
  <1>4. FoldersInv
    BY <1>1, <1>2 DEF FoldersInv
  <1>5. PhaseInv
    <2> DEFINE m == Len(raw.folders)
               n == Len(raw.emptyStream)
    <2>1. m \in Nat /\ n \in Nat
      BY <1>2, <1>3
    <2> HIDE DEF m, n
    <2>2. 1 \in 1 .. m + n + 1
      BY <2>1
    <2>3. at \in 1 .. Len(raw.folders) + Len(raw.emptyStream) + 1
      BY <1>1, <2>2, Zenon DEF m, n
    <2> QED
      BY <1>1, <2>3 DEF PhaseInv, Sections
  <1>6. BuildInv
    BY <1>1, <1>3 DEF BuildInv, Sections
  <1>7. MappingInv
    BY <1>1 DEF MappingInv
  <1>8. FilesInv
    BY <1>1, <1>2, <1>3 DEF FilesInv
  <1>9. PlacesInv
    <2>1. 1 .. Len(members) = {} /\ 1 .. streamCursor = {}
      BY <1>1
    <2> QED
      BY <2>1 DEF PlacesInv
  <1> QED
    BY <1>4, <1>5, <1>6, <1>7, <1>8, <1>9 DEF MapInv

LEMMA MapStepInv ==
  ASSUME MapInv, MapStep
  PROVE  MapInv'
  <1>1. CASE AssignPacks("additional", "main")
    BY <1>1, AssignPacksStep
  <1>2. CASE AssignPacks("main", "build")
    BY <1>2, AssignPacksStep
  <1>3. CASE BuildFolder
    BY <1>3, BuildFolderStep
  <1>4. CASE BuildDone
    BY <1>4, BuildDoneStep
  <1>5. CASE CollectMappings
    BY <1>5, CollectMappingsStep
  <1>6. CASE AddFile
    BY <1>6, AddFileStep
  <1>7. CASE FilesDone
    BY <1>7, FilesDoneStep
  <1> QED
    BY <1>1, <1>2, <1>3, <1>4, <1>5, <1>6, <1>7 DEF MapStep

LEMMA MapInterruptInv ==
  ASSUME MapInv, MapInterrupt
  PROVE  MapInv'
  <1>1. /\ raw' = raw /\ UNCHANGED <<at, sizeCursor, crcCursor, folders, fileVars>>
        /\ phase' = "done" /\ result' = "interrupted"
    BY DEF MapInterrupt, Return, fileVars
  <1> QED
    BY <1>1, ReturnError

LEMMA MapFrame ==
  ASSUME MapInv, UNCHANGED mapVars
  PROVE  MapInv'
  <1>1. UNCHANGED <<raw, phase, result, at, sizeCursor, crcCursor, folders, mappings,
                    emptyCursor, streamCursor, members>>
    BY DEF mapVars
  <1>2. FoldersInv'
    BY <1>1, FoldersFrame DEF MapInv
  <1>3. PhaseInv'
    BY <1>1 DEF MapInv, PhaseInv
  <1>4. BuildInv'
    <2>1. SizesBefore(at)' = SizesBefore(at) /\ DigestsBefore(at)' = DigestsBefore(at)
      BY <1>1 DEF SizesBefore, DigestsBefore
    <2> QED
      BY <1>1, <2>1 DEF MapInv, BuildInv
  <1>5. MappingInv'
    <2>1. SubsOf' = SubsOf
      BY <1>1 DEF SubsOf
    <2>2. Pairs(mappings, SubsOf, Len(folders))' <=> Pairs(mappings, SubsOf, Len(folders))
      BY <1>1, <2>1 DEF Pairs
    <2>3. Rank(Len(raw.emptyStream))' = Rank(Len(raw.emptyStream))
      BY <1>1 DEF Rank, StreamsUpTo
    <2> QED
      BY <1>1, <2>2, <2>3 DEF MapInv, MappingInv
  <1>6. FilesInv'
    <2>1. Rank(at - 1)' = Rank(at - 1) /\ EmptyUpTo(at - 1)' = EmptyUpTo(at - 1)
      BY <1>1 DEF Rank, StreamsUpTo, EmptyUpTo
    <2> QED
      BY <1>1, <2>1 DEF MapInv, FilesInv
  <1>7. PlacesInv'
    BY <1>1, PlacesFrame DEF MapInv
  <1> QED
    BY <1>2, <1>3, <1>4, <1>5, <1>6, <1>7 DEF MapInv

\* The members with a stream are the substreams, in natural order.
LEMMA MembersAreCovered ==
  ASSUME MapInv, result = "ok", raw.hasFiles
  PROVE  MembersCover(members, folders)
  <1>1. /\ Len(folders) \in Nat /\ DOMAIN folders = 1 .. Len(folders)
        /\ \A f \in 1 .. Len(folders) : /\ SubsOf[f] \in Nat
                                        /\ DOMAIN folders[f].subs = 1 .. SubsOf[f]
    BY SubsOfType DEF MapInv
  <1>2. Pairs(mappings, SubsOf, Len(folders))
    BY DEF MapInv, MappingInv
  <1>3. members \in Seq(FileRecord) /\ streamCursor = Len(mappings)
    BY DEF MapInv, FilesInv
  <1>4. DOMAIN members = 1 .. Len(members)
    BY <1>3
  <1>5. ASSUME NEW i \in Streamed(members)
        PROVE  /\ i \in 1 .. Len(members) /\ members[i].kind = "stream"
               /\ Rank(i) \in 1 .. Len(mappings)
               /\ Place(members[i]) = mappings[Rank(i)]
    BY <1>3, <1>4 DEF Streamed, MapInv, PlacesInv
  <1>6. ASSUME NEW i \in Streamed(members)
        PROVE  Place(members[i]) \in Substreams(folders)
    <2> DEFINE p == mappings[Rank(i)]
    <2>1. /\ p[1] \in 1 .. Len(folders) /\ p[2] \in 1 .. SubsOf[p[1]]
          /\ mappings \in Seq(Nat \X Nat)
      BY <1>2, <1>5 DEF Pairs
    <2>2. p \in Nat \X Nat
      BY <1>5, <2>1
    <2> HIDE DEF p
    <2>3. p = <<p[1], p[2]>>
      BY <2>2
    <2>4. p \in Substreams(folders)
      BY <1>1, <2>1, <2>3 DEF Substreams
    <2> QED
      BY <1>5, <2>4 DEF p
  <1>7. ASSUME NEW s \in Substreams(folders)
        PROVE  \E i \in Streamed(members) : Place(members[i]) = s
    <2>1. PICK f \in 1 .. Len(folders) : \E k \in 1 .. SubsOf[f] : s = <<f, k>>
      BY <1>1 DEF Substreams
    <2>2. PICK k \in 1 .. SubsOf[f] : s = <<f, k>>
      BY <2>1
    <2>3. PICK r \in 1 .. Len(mappings) : mappings[r] = s
      BY <1>2, <2>2 DEF Pairs
    <2>4. PICK i \in 1 .. Len(members) : members[i].kind = "stream" /\ Rank(i) = r
      BY <1>3, <2>3 DEF MapInv, PlacesInv
    <2>5. i \in Streamed(members)
      BY <1>4, <2>4 DEF Streamed
    <2> QED
      BY <1>5, <2>3, <2>4, <2>5
  <1>8. ASSUME NEW i \in Streamed(members), NEW j \in Streamed(members), i < j
        PROVE  Before(Place(members[i]), Place(members[j]))
    <2>1. Rank(i) < Rank(j)
      BY <1>5, <1>8 DEF MapInv, PlacesInv
    <2>2. Before(mappings[Rank(i)], mappings[Rank(j)])
      BY <1>2, <1>5, <2>1 DEF Pairs
    <2> QED
      BY <1>5, <2>2
  <1> QED
    BY <1>6, <1>7, <1>8 DEF MembersCover

\* What the invariant says of the properties of StreamMap.
LEMMA MapInvSound ==
  ASSUME MapInv
  PROVE  CursorsAgree /\ ValidatedIsCovered
  <1>1. /\ Len(folders) \in Nat /\ DOMAIN folders = 1 .. Len(folders)
        /\ \A f \in 1 .. Len(folders) : /\ SubsOf[f] = Len(folders[f].subs)
                                        /\ DOMAIN folders[f].subs = 1 .. SubsOf[f]
    BY SubsOfType DEF MapInv
  <1>2. \A f \in 1 .. Len(folders) : Built(folders[f], f)
    BY DEF MapInv, FoldersInv
  <1>3. MapTypeOK
    BY DEF MapInv, FoldersInv, PhaseInv, BuildInv, FilesInv, MapTypeOK
  <1>4. CrcIsItsOwn
    BY <1>1, <1>2 DEF CrcIsItsOwn, Built
  <1>5. CountsAgree
    BY DEF MapInv, PhaseInv, CountsAgree
  <1>6. ValidatedIsCovered
    <2>1. result = "ok" => Len(folders) = Len(raw.folders)
      BY DEF MapInv, BuildInv
    <2>2. \A f \in DOMAIN folders : FolderCovered(folders[f], NoCrc)
      BY <1>1, <1>2 DEF Built
    <2>3. result = "ok" /\ raw.hasFiles => Len(members) = Len(raw.emptyStream)
      BY DEF MapInv, FilesInv
    <2> QED
      BY <2>1, <2>2, <2>3, MembersAreCovered DEF ValidatedIsCovered
  <1> QED
    BY <1>3, <1>4, <1>5, <1>6 DEF CursorsAgree
-----------------------------------------------------------------------------
(***************************************************************************)
(* What Archive::open hands over                                           *)
(***************************************************************************)
LEMMA SumInstance ==
  ASSUME NEW f, NEW S
  PROVE  X!SumFunctionOnSet(f, S) = SumFunctionOnSet(f, S)
  BY DEF SumFunctionOnSet, FoldFunctionOnSet, MapThenFoldSet,
         X!SumFunctionOnSet, X!FoldFunctionOnSet, X!MapThenFoldSet

LEMMA VerdictIs ==
  ASSUME NEW c, NEW d, NEW w
  PROVE  /\ Verdict(c, d, w) \in X!Verdicts
         /\ Verdict(c, d, w) # "absent" <=> c # NoCrc
  BY DEF Verdict, X!Verdicts

\* A folder of the open archive.
LEMMA OpenedFolder ==
  ASSUME MapInv, result = "ok", NEW x \in Facts(raw), NEW f \in DOMAIN folders
  PROVE  X!FolderOK(Opened(x).folders[f])
  <1> DEFINE g == folders[f]
             n == Len(g.subs)
             h == Opened(x).folders[f]
             crc(k) == Verdict(g.subs[k].crc, DeclaredCrc(f, k), x.wrong)
  <1>1. raw \in RawArchives /\ Len(folders) = Len(raw.folders)
    BY DEF MapInv, FoldersInv, BuildInv
  <1>2. /\ f \in 1 .. Len(folders) /\ f \in 1 .. Len(raw.folders) /\ f \in DOMAIN raw.folders
        /\ DOMAIN g.subs = 1 .. n /\ n \in Nat /\ g \in BuiltFolder
    <2>1. /\ Len(folders) \in Nat /\ DOMAIN folders = 1 .. Len(folders)
          /\ \A i \in 1 .. Len(folders) : /\ SubsOf[i] \in Nat
                                          /\ SubsOf[i] = Len(folders[i].subs)
                                          /\ DOMAIN folders[i].subs = 1 .. SubsOf[i]
                                          /\ folders[i] \in BuiltFolder
      BY SubsOfType DEF MapInv
    <2>2. DOMAIN raw.folders = 1 .. Len(raw.folders)
      BY <1>1, RawType
    <2> QED
      BY <1>1, <2>1, <2>2
  <1>3. Built(g, f)
    BY <1>2 DEF MapInv, FoldersInv
  <1>4. FactsOK(raw, x)
    BY <1>1, FactsAssumption
  <1>5. /\ h.root = g.root
        /\ h.crc = Verdict(g.crc, FolderCrc(f), x.wrong)
        /\ h.subs = [k \in DOMAIN g.subs |-> [size |-> g.subs[k].size, crc |-> crc(k)]]
        /\ h.actual = x.actual[f]
        /\ h.damaged = (f \in x.damaged)
        /\ h.encrypted = (f \in x.encrypted)
    BY DEF Opened
  <1> HIDE DEF h
  <1>6. /\ g.root \in Sizes /\ g.subs \in Seq([size : Sizes, crc : Crcs])
    BY <1>2 DEF BuiltFolder
  <1>7. \A k \in 1 .. n : g.subs[k].size \in Sizes /\ crc(k) \in X!Verdicts
    <2> TAKE k \in 1 .. n
    <2> DEFINE R == [size : Sizes, crc : Crcs]
               t == g.subs
    <2>1. t \in Seq(R) /\ k \in 1 .. Len(t)
      BY <1>6
    <2> HIDE DEF R, t
    <2>2. t[k] \in R
      BY <2>1
    <2>3. g.subs[k] \in [size : Sizes, crc : Crcs]
      BY <2>2 DEF R, t
    <2>4. g.subs[k].size \in Sizes
      BY <2>3
    <2> QED
      BY <2>4, VerdictIs
  <1> DEFINE size(k) == g.subs[k].size
             sub(k) == [size |-> size(k), crc |-> crc(k)]
  <1>8. h.subs = [k \in 1 .. n |-> sub(k)]
    BY <1>2, <1>5
  <1>9. /\ n \in Nat /\ \A k \in 1 .. n : size(k) \in Sizes /\ crc(k) \in X!Verdicts
    BY <1>2, <1>7
  <1> HIDE DEF n, size, crc
  <1>10. \A k \in 1 .. n : sub(k) \in [size : X!Sizes, crc : X!Verdicts]
    BY <1>9 DEF Sizes, X!Sizes, Unknown, X!Unknown
  <1>11. /\ h.subs \in Seq([size : X!Sizes, crc : X!Verdicts]) /\ Len(h.subs) = n
         /\ DOMAIN h.subs = 1 .. n /\ \A k \in 1 .. n : h.subs[k] = sub(k)
    <2> DEFINE R == [size : X!Sizes, crc : X!Verdicts]
               t == h.subs
    <2>1. t = [k \in 1 .. n |-> sub(k)] /\ n \in Nat /\ \A k \in 1 .. n : sub(k) \in R
      BY <1>8, <1>9, <1>10
    <2> HIDE DEF R, t, sub
    <2>2. /\ t \in Seq(R) /\ Len(t) = n
          /\ DOMAIN t = 1 .. n /\ \A k \in 1 .. n : t[k] = sub(k)
      BY <2>1
    <2> QED
      BY <2>2 DEF R, t
  <1>12. \A k \in 1 .. n : h.subs[k].size = size(k) /\ h.subs[k].crc = crc(k)
    <2> TAKE k \in 1 .. n
    <2>1. h.subs[k] = [size |-> size(k), crc |-> crc(k)]
      BY <1>11
    <2> QED
      BY <2>1
  <1>13. FolderCovered(g, NoCrc)
    BY <1>3 DEF Built
  <1>14. X!Unknown = Unknown
    BY DEF X!Unknown, Unknown
  <1>15. X!FolderCovered(h, "absent")
    <2>1. n = 1 => /\ h.subs[1].size = h.root
                   /\ h.crc # "absent" => h.subs[1].crc = h.crc
      <3> SUFFICES ASSUME n = 1
                   PROVE  /\ h.subs[1].size = h.root
                          /\ h.crc # "absent" => h.subs[1].crc = h.crc
        OBVIOUS
      <3>1. g.subs[1].size = g.root /\ (g.crc # NoCrc => g.subs[1].crc = g.crc)
        BY <1>13 DEF FolderCovered, n
      <3>2. 1 \in 1 .. n
        OBVIOUS
      <3>3. h.subs[1].size = h.root
        BY <1>5, <1>12, <3>1, <3>2 DEF size
      <3>4. ASSUME h.crc # "absent" PROVE h.subs[1].crc = h.crc
        <4>1. g.crc # NoCrc
          BY <1>5, <3>4, VerdictIs
        <4>2. raw.folders[f].hasCrc /\ g.crc = FolderCrc(f)
          BY <1>3, <4>1 DEF Built
        <4>3. Count(raw, f) = 1
          BY <1>3 DEF Built, n
        <4>4. DeclaredCrc(f, 1) = FolderCrc(f)
          BY <1>1, <1>2, <4>2, <4>3, DeclaredCrcOf DEF Inherits
        <4>5. crc(1) = h.crc
          BY <1>5, <3>1, <4>1, <4>2, <4>4 DEF crc
        <4> QED
          BY <1>12, <3>2, <4>5
      <3> QED
        BY <3>3, <3>4
    <2>2. n > 1 => (h.subs[n].size # X!Unknown <=>
                      h.root # X!Unknown /\ \A k \in 1 .. n - 1 : h.subs[k].size # X!Unknown)
      <3> SUFFICES ASSUME n > 1
                   PROVE  h.subs[n].size # Unknown <=>
                            h.root # Unknown /\ \A k \in 1 .. n - 1 : h.subs[k].size # Unknown
        BY <1>14
      <3>1. size(n) # Unknown <=> g.root # Unknown /\ \A k \in 1 .. n - 1 : size(k) # Unknown
        BY <1>13 DEF FolderCovered, n, size
      <3>2. n \in 1 .. n /\ \A k \in 1 .. n - 1 : k \in 1 .. n
        BY <1>9
      <3> QED
        BY <1>5, <1>12, <3>1, <3>2
    <2>3. n > 1 /\ h.subs[n].size # X!Unknown => X!Offset(h.subs, n) = h.root
      <3> SUFFICES ASSUME n > 1, h.subs[n].size # Unknown
                   PROVE  X!Offset(h.subs, n) = h.root
        BY <1>14
      <3>1. n \in 1 .. n
        BY <1>9
      <3>2. size(n) # Unknown
        BY <1>12, <3>1
      <3>3. Offset(g.subs, n) = g.root
        BY <1>13, <3>2 DEF FolderCovered, n, size
      <3>4. [j \in DOMAIN h.subs |-> h.subs[j].size] = [j \in DOMAIN g.subs |-> g.subs[j].size]
        BY <1>2, <1>11, <1>12 DEF size, n
      <3>5. X!Offset(h.subs, n) = X!SumFunctionOnSet([j \in DOMAIN h.subs |-> h.subs[j].size], 1 .. n)
        BY DEF X!Offset
      <3>6. Offset(g.subs, n) = SumFunctionOnSet([j \in DOMAIN g.subs |-> g.subs[j].size], 1 .. n)
        BY DEF Offset
      <3>7. X!Offset(h.subs, n) = Offset(g.subs, n)
        BY <3>4, <3>5, <3>6, SumInstance
      <3> QED
        BY <1>5, <3>3, <3>7
    <2> QED
      BY <1>11, <2>1, <2>2, <2>3 DEF X!FolderCovered
  <1>16. /\ h.actual \in Nat
         /\ h.root # X!Unknown => h.actual = h.root
    <2>1. x.actual[f] \in Nat
      BY <1>2, <1>4 DEF FactsOK
    <2>2. raw.folders[f].root # Unknown => x.actual[f] = raw.folders[f].root
      BY <1>2, <1>4 DEF FactsOK
    <2>3. g.root = raw.folders[f].root
      BY <1>3 DEF Built
    <2> QED
      BY <1>5, <1>14, <2>1, <2>2, <2>3
  <1>17. h.root \in X!Sizes /\ h.crc \in X!Verdicts
    BY <1>5, <1>6, VerdictIs DEF Sizes, X!Sizes, Unknown, X!Unknown
  <1>18. h.damaged \in BOOLEAN /\ h.encrypted \in BOOLEAN
    BY <1>5
  <1>19. X!FolderOK(h)
    BY <1>11, <1>15, <1>16, <1>17, <1>18 DEF X!FolderOK
  <1> QED
    BY <1>19 DEF h

\* The archive satisfies the contract of ArchiveModel.
LEMMA OpenedArchive ==
  ASSUME MapInv, result = "ok", NEW x \in Facts(raw)
  PROVE  X!OpenArchive(Opened(x))
  <1> DEFINE a == Opened(x)
  <1>1. raw \in RawArchives
    BY DEF MapInv, FoldersInv
  <1>2. /\ DOMAIN a.folders = DOMAIN folders /\ a.members = members
        /\ a.additional = x.additional /\ a.hasFiles = raw.hasFiles
        /\ \A f \in DOMAIN folders : DOMAIN a.folders[f].subs = DOMAIN folders[f].subs
    BY DEF Opened
  <1>3. \A f \in DOMAIN folders : X!FolderOK(a.folders[f])
    BY OpenedFolder
  <1>4. \A i \in DOMAIN x.additional : X!FolderOK(x.additional[i])
    BY <1>1, FactsAssumption DEF FactsOK
  <1> HIDE DEF a
  <1>5. ASSUME raw.hasFiles PROVE X!MembersCover(members, a.folders)
    <2>1. MembersCover(members, folders)
      BY <1>5, MembersAreCovered
    <2>2. X!Substreams(a.folders) = Substreams(folders)
      BY <1>2 DEF X!Substreams, Substreams
    <2>3. X!Streamed(members) = Streamed(members)
      BY DEF X!Streamed, Streamed
    <2> QED
      BY <2>1, <2>2, <2>3 DEF X!MembersCover, MembersCover, X!Place, Place, X!Before, Before
  <1>6. ~ raw.hasFiles => members = << >>
    BY DEF MapInv, FilesInv
  <1>7. X!OpenArchive(a)
    BY <1>2, <1>3, <1>4, <1>5, <1>6 DEF X!OpenArchive
  <1> QED
    BY <1>7 DEF a

\* The operations never change the archive.
LEMMA OperationFrame ==
  ASSUME X!Step \/ X!Interrupt
  PROVE  archive' = archive /\ stage # "closed"
  BY DEF X!Step, X!Interrupt, X!VerifyAdditional, X!AdditionalDone, X!VerifyFolder,
         X!VerifyDone, X!SkipMember, X!EmptyFile, X!EnterFolder, X!BeginMember,
         X!WriteChunk, X!FinishMember, X!ExtractDone, X!VerifyReturns, X!Return
-----------------------------------------------------------------------------
IInv == MapInv /\ OpenInv

LEMMA NextIInv ==
  ASSUME IInv, [Next]_vars
  PROVE  IInv'
  <1>1. MapInv /\ OpenInv
    BY DEF IInv
  <1>2. CASE Validate
    <2>1. MapInv'
      BY <1>1, <1>2, MapStepInv DEF Validate
    <2>2. UNCHANGED <<stage, archive>> /\ result = "none"
      <3>1. MapStep => phase # "done"
        BY DEF MapStep, AssignPacks, BuildFolder, BuildDone, CollectMappings, AddFile,
               FilesDone
      <3> QED
        BY <1>1, <1>2, <3>1 DEF Validate, operationVars, MapInv, PhaseInv
    <2>3. OpenInv'
      BY <1>1, <2>2 DEF OpenInv
    <2> QED
      BY <2>1, <2>3 DEF IInv
  <1>3. CASE ValidateInterrupted
    <2>1. MapInv'
      BY <1>1, <1>3, MapInterruptInv DEF ValidateInterrupted
    <2>2. UNCHANGED <<stage, archive>> /\ result = "none"
      <3>1. MapInterrupt => phase # "done"
        BY DEF MapInterrupt, Sections
      <3> QED
        BY <1>1, <1>3, <3>1 DEF ValidateInterrupted, operationVars, MapInv, PhaseInv
    <2>3. OpenInv'
      BY <1>1, <2>2 DEF OpenInv
    <2> QED
      BY <2>1, <2>3 DEF IInv
  <1>4. CASE Open
    <2>1. result = "ok" /\ facts' \in Facts(raw) /\ archive' = Opened(facts') /\ UNCHANGED mapVars
      BY <1>4 DEF Open, X!Open
    <2>2. PICK x : x = facts'
      OBVIOUS
    <2>3. x \in Facts(raw) /\ archive' = Opened(x)
      BY <2>1, <2>2
    <2>4. X!OpenArchive(archive')
      BY <1>1, <2>1, <2>3, OpenedArchive
    <2>5. MapInv'
      BY <1>1, <2>1, MapFrame
    <2>6. result' = "ok"
      BY <2>1 DEF mapVars
    <2>7. X!OpenArchive(archive)'
      BY <2>4
    <2> QED
      BY <2>5, <2>6, <2>7 DEF IInv, OpenInv
  <1>5. CASE Operate \/ OperateInterrupted
    <2>1. archive' = archive /\ stage # "closed" /\ UNCHANGED mapVars
      BY <1>5, OperationFrame DEF Operate, OperateInterrupted
    <2>2. MapInv'
      BY <1>1, <2>1, MapFrame
    <2>3. result' = "ok" /\ X!OpenArchive(archive')
      BY <1>1, <2>1 DEF OpenInv, mapVars
    <2> QED
      BY <2>2, <2>3 DEF IInv, OpenInv
  <1>6. CASE UNCHANGED vars
    <2>1. UNCHANGED mapVars /\ UNCHANGED <<stage, archive>>
      BY <1>6 DEF vars, operationVars
    <2>2. MapInv'
      BY <1>1, <2>1, MapFrame
    <2>3. OpenInv'
      BY <1>1, <2>1 DEF OpenInv, mapVars
    <2> QED
      BY <2>2, <2>3 DEF IInv
  <1> QED
    BY <1>2, <1>3, <1>4, <1>5, <1>6 DEF Next, Step

\* The header and the cursors stay together, and so does what was opened.
LEMMA AlwaysIInv == Spec => []IInv
  <1>1. Init => IInv
    <2> SUFFICES ASSUME Init PROVE IInv
      OBVIOUS
    <2>1. MapInv
      BY MapInitInv DEF Init
    <2>2. stage = "closed"
      BY DEF Init, X!Init
    <2> QED
      BY <2>1, <2>2 DEF IInv, OpenInv
  <1>2. IInv /\ [Next]_vars => IInv'
    BY NextIInv
  <1> QED
    BY <1>1, <1>2, PTL DEF Spec

\* raw.rs counts what validate.rs consumes, for headers of any size: no count
\* error fires, every substream is checked against its own digest, and what
\* Archive::open returns is the model that verify and extract_entries_to rely
\* on.
THEOREM HandoverSound == Spec => []HandoverIsSound
  <1>1. IInv => HandoverIsSound
    BY MapInvSound DEF IInv, OpenInv, HandoverIsSound
  <1> QED
    BY <1>1, AlwaysIInv, PTL
-----------------------------------------------------------------------------
(***************************************************************************)
(* The packed streams: who owns a byte of the archive                      *)
(***************************************************************************)
\* What validation knows of a section whose packed streams it has assigned.
SectionInv(s) ==
  LET pack == raw.pack[s] IN
  /\ Paired(pack)
  /\ pack.streams = 0 => packRanges[s] = << >> /\ firstPacks[s] = << >>
  /\ pack.streams > 0 => /\ SectionVerdict(pack, raw.header) = "ok"
                         /\ packRanges[s] = Ranges(pack)
                         /\ firstPacks[s] = FirstPacks(pack.packs)
                         /\ AllAssigned(pack)

\* The spans with those of one more section.
SpansWith(t, s) ==
  IF raw.pack[s].streams = 0 THEN t ELSE WithSection(t, raw.pack[s])

Assigned == phase \in {"build", "map", "files"} \/ result \in {"ok", "overlap"}

\* The packed streams of both sections, and the comparison of the two.
PackInv ==
  /\ DOMAIN packRanges = Sections /\ DOMAIN firstPacks = Sections
  /\ phase = "additional" =>
       spans = << >> /\ \A s \in Sections : packRanges[s] = << >> /\ firstPacks[s] = << >>
  /\ phase = "main" => /\ spans = SpansWith(<< >>, "additional") /\ SectionInv("additional")
                       /\ packRanges["main"] = << >> /\ firstPacks["main"] = << >>
  /\ Assigned => /\ spans = SpansWith(SpansWith(<< >>, "additional"), "main")
                 /\ \A s \in Sections : SectionInv(s)
  /\ phase \in {"map", "files"} \/ result = "ok" => ~ Overlapping(spans)
  /\ result = "overlap" => Overlapping(spans)
-----------------------------------------------------------------------------
(***************************************************************************)
(* The packed streams of one section                                       *)
(***************************************************************************)
LEMMA PackEnds ==
  ASSUME NEW s, SectionOK(s), NEW h \in Nat, SectionVerdict(s, h) = "ok"
  PROVE  LET n == Len(s.sizes) IN
         /\ n \in Nat \ {0} /\ DOMAIN s.sizes = 1 .. n /\ n = s.streams
         /\ \A k \in 0 .. n : PackEnd(s, k) \in Nat /\ PackEnd(s, k) <= h
         /\ PackEnd(s, 0) = s.position /\ s.position \in Nat
         /\ \A j, k \in 0 .. n : j <= k => PackEnd(s, j) <= PackEnd(s, k)
  <1> DEFINE n == Len(s.sizes)
             c == s.sizes
             fails == {k \in DOMAIN c : c[k] = Unknown \/ PackEnd(s, k) > h}
             S(k) == SumFunctionOnSet(c, 1 .. k)
  <1>1. /\ c \in Seq(Sizes) /\ n \in {0, s.streams} /\ s.position \in Nat /\ s.streams \in Nat
    BY DEF SectionOK
  <1>2. n \in Nat /\ DOMAIN c = 1 .. n /\ \A k \in 1 .. n : c[k] \in Sizes
    <2> HIDE DEF n, c
    <2> QED
      BY <1>1 DEF n, c
  <1>3. c # << >> /\ fails = {}
    <2>1. SectionVerdict(s, h) =
            CASE c = << >> -> "format"
              [] c # << >> /\ fails = {} -> "ok"
              [] fails # {} -> IF c[Min(fails)] = Unknown THEN "unsupported"
                               ELSE "format"
      BY DEF SectionVerdict
    <2> HIDE DEF fails, c
    <2> QED
      BY <2>1
  <1>4. n # 0
    <2> HIDE DEF c
    <2>1. c = << >> \/ Len(c) # 0
      BY <1>1
    <2> QED
      BY <1>3, <2>1 DEF c
  <1>5. \A k \in 1 .. n : c[k] \in Nat /\ ~ PackEnd(s, k) > h
    <2>1. \A k \in 1 .. n : c[k] # Unknown /\ ~ PackEnd(s, k) > h
      BY <1>2, <1>3
    <2> QED
      BY <1>2, <2>1 DEF Sizes
  <1>6. \A k \in 0 .. n : PackEnd(s, k) = s.position + S(k)
    BY DEF PackEnd
  <1> HIDE DEF c, fails
  <1>7. ASSUME NEW k \in 0 .. n, NEW j \in 0 .. n, j <= k
        PROVE  S(j) \in Nat /\ S(k) \in Nat /\ S(j) <= S(k)
    <2>1. IsFiniteSet(1 .. k)
      BY FS_Interval
    <2>2. 1 .. j \in SUBSET (1 .. k)
      BY <1>7
    <2>3. \A i \in 1 .. k : c[i] \in Nat
      BY <1>2, <1>5
    <2>4. /\ SumFunctionOnSet(c, 1 .. j) \in Nat /\ SumFunctionOnSet(c, 1 .. k) \in Nat
          /\ SumFunctionOnSet(c, 1 .. j) <= SumFunctionOnSet(c, 1 .. k)
      BY <2>1, <2>2, <2>3, SumNatural
    <2> QED
      BY <2>4
  <1>8. S(0) = 0
    <2>1. 1 .. 0 = {}
      OBVIOUS
    <2> QED
      BY <2>1, SumEmpty
  <1> HIDE DEF S, n
  <1>9. \A k \in 0 .. n : S(k) \in Nat
    <2> TAKE k \in 0 .. n
    <2>1. 0 \in 0 .. n /\ 0 <= k
      BY <1>2
    <2> QED
      BY <1>7, <2>1
  <1>10. \A k \in 0 .. n : PackEnd(s, k) \in Nat
    BY <1>1, <1>6, <1>9
  <1>11. \A j, k \in 0 .. n : j <= k => PackEnd(s, j) <= PackEnd(s, k)
    <2> SUFFICES ASSUME NEW j \in 0 .. n, NEW k \in 0 .. n, j <= k
                 PROVE  PackEnd(s, j) <= PackEnd(s, k)
      OBVIOUS
    <2>1. S(j) \in Nat /\ S(k) \in Nat /\ S(j) <= S(k)
      BY <1>7
    <2>2. PackEnd(s, j) = s.position + S(j) /\ PackEnd(s, k) = s.position + S(k)
      BY <1>6
    <2> QED
      BY <1>1, <2>1, <2>2
  <1>12. PackEnd(s, 0) = s.position
    <2>1. 0 \in 0 .. n
      BY <1>2
    <2> QED
      BY <1>1, <1>6, <1>8, <2>1
  <1>13. \A k \in 0 .. n : PackEnd(s, k) <= h
    <2> TAKE k \in 0 .. n
    <2>1. k <= n /\ n \in 0 .. n /\ n \in 1 .. n
      BY <1>2, <1>4
    <2>2. PackEnd(s, k) <= PackEnd(s, n) /\ ~ PackEnd(s, n) > h
      BY <1>5, <1>11, <2>1
    <2>3. PackEnd(s, k) \in Nat /\ PackEnd(s, n) \in Nat
      BY <1>10, <2>1
    <2> QED
      BY <2>2, <2>3
  <1>14. n \in Nat \ {0} /\ n = s.streams
    BY <1>1, <1>2, <1>4
  <1>15. DOMAIN s.sizes = 1 .. n
    BY <1>2 DEF c
  <1> QED
    BY <1>1, <1>10, <1>11, <1>12, <1>13, <1>14, <1>15 DEF n

\* The folders' inputs and the packed streams correspond one to one.
LEMMA PackInputs ==
  ASSUME NEW s, SectionOK(s), AllAssigned(s)
  PROVE  LET c == s.packs
             m == Len(c)
             F == FirstPacks(c) IN
         /\ m \in Nat /\ DOMAIN c = 1 .. m /\ DOMAIN F = 1 .. m
         /\ \A f \in 1 .. m : c[f] \in Nat /\ F[f] \in Nat
         /\ \A f \in 1 .. m : \A j \in 1 .. c[f] : F[f] + j \in 1 .. s.streams
         /\ \A f, g \in 1 .. m : \A j \in 1 .. c[f] : \A k \in 1 .. c[g] :
              F[f] + j = F[g] + k => f = g /\ j = k
         /\ \A k \in 1 .. s.streams :
              \E f \in 1 .. m : \E j \in 1 .. c[f] : F[f] + j = k
  <1> DEFINE c == s.packs
             m == Len(c)
             F == FirstPacks(c)
             S(k) == SumFunctionOnSet(c, 1 .. k)
  <1>1. c \in Seq(Nat \ {0}) /\ s.streams \in Nat /\ SumFunction(c) = s.streams
    BY DEF SectionOK, AllAssigned
  <1>2. F = [f \in DOMAIN c |-> S(f - 1)]
    BY DEF FirstPacks
  <1> HIDE DEF c, F
  <1>3. m \in Nat /\ DOMAIN c = 1 .. m /\ \A f \in 1 .. m : c[f] \in Nat
    BY <1>1
  <1>4. DOMAIN F = 1 .. m /\ \A f \in 1 .. m : F[f] = S(f - 1)
    <2> HIDE DEF S
    <2> QED
      BY <1>2, <1>3
  <1>5. s.streams = S(m)
    BY <1>1, <1>3 DEF SumFunction
  <1>6. \A f \in 1 .. m : S(f) = S(f - 1) + c[f] /\ S(f - 1) \in Nat /\ S(f) \in Nat
    <2> TAKE f \in 1 .. m
    <2> QED
      BY <1>3, PrefixSum
  <1>7. ASSUME NEW k \in 0 .. m, NEW j \in 0 .. m, j <= k
        PROVE  S(j) \in Nat /\ S(k) \in Nat /\ S(j) <= S(k)
    <2>1. IsFiniteSet(1 .. k)
      BY FS_Interval
    <2>2. 1 .. j \in SUBSET (1 .. k)
      BY <1>7
    <2>3. \A i \in 1 .. k : c[i] \in Nat
      BY <1>3
    <2>4. /\ SumFunctionOnSet(c, 1 .. j) \in Nat /\ SumFunctionOnSet(c, 1 .. k) \in Nat
          /\ SumFunctionOnSet(c, 1 .. j) <= SumFunctionOnSet(c, 1 .. k)
      BY <2>1, <2>2, <2>3, SumNatural
    <2> QED
      BY <2>4
  <1>8. S(0) = 0
    <2>1. 1 .. 0 = {}
      OBVIOUS
    <2> QED
      BY <2>1, SumEmpty
  <1> HIDE DEF S, m
  <1>9. ASSUME NEW f \in 1 .. m, NEW j \in 1 .. c[f]
        PROVE  /\ F[f] + j \in 1 .. s.streams
               /\ S(f - 1) < F[f] + j /\ F[f] + j <= S(f) /\ F[f] + j \in Nat
    <2>1. F[f] = S(f - 1) /\ S(f) = S(f - 1) + c[f] /\ S(f - 1) \in Nat /\ c[f] \in Nat
      BY <1>3, <1>4, <1>6
    <2>2. S(f) <= S(m) /\ S(m) \in Nat /\ S(f) \in Nat
      <3>1. f \in 0 .. m /\ m \in 0 .. m /\ f <= m
        BY <1>3
      <3> QED
        BY <1>7, <3>1
    <2>3. j \in Nat /\ 1 <= j /\ j <= c[f]
      BY <2>1
    <2> QED
      BY <1>5, <2>1, <2>2, <2>3
  <1>10. ASSUME NEW f \in 1 .. m, NEW g \in 1 .. m, NEW j \in 1 .. c[f], NEW k \in 1 .. c[g],
                F[f] + j = F[g] + k
         PROVE  f = g /\ j = k
    <2>1. /\ S(f - 1) < F[f] + j /\ F[f] + j <= S(f)
          /\ S(g - 1) < F[g] + k /\ F[g] + k <= S(g) /\ F[f] + j \in Nat
      BY <1>9
    <2>2. f \in Nat /\ g \in Nat /\ m \in Nat
      BY <1>3
    <2>3. ASSUME NEW a \in 1 .. m, NEW b \in 1 .. m, a < b, S(b - 1) < S(a)
          PROVE  FALSE
      <3>1. a \in 0 .. m /\ b - 1 \in 0 .. m /\ a <= b - 1
        BY <2>2, <2>3
      <3>2. S(a) <= S(b - 1) /\ S(a) \in Nat /\ S(b - 1) \in Nat
        BY <1>7, <3>1
      <3> QED
        BY <2>3, <3>2
    <2>4. /\ S(f - 1) \in Nat /\ S(g - 1) \in Nat /\ S(f) \in Nat /\ S(g) \in Nat
      BY <1>6
    <2>5. S(f - 1) < S(g) /\ S(g - 1) < S(f)
      BY <1>10, <2>1, <2>4
    <2>6. f = g
      BY <2>2, <2>3, <2>5
    <2>7. F[f] \in Nat /\ c[f] \in Nat
      BY <1>3, <1>4, <2>4
    <2>8. j = k
      BY <1>10, <2>6, <2>7
    <2> QED
      BY <2>6, <2>8
  <1>11. ASSUME NEW k \in 1 .. s.streams
         PROVE  \E f \in 1 .. m : \E j \in 1 .. c[f] : F[f] + j = k
    <2> DEFINE T == {f \in 0 .. m : S(f) >= k}
    <2>1. T \in SUBSET Nat
      BY <1>3
    <2>2. m \in T
      BY <1>1, <1>3, <1>5
    <2>3. PICK f \in T : \A g \in T : f <= g
      BY <2>1, <2>2, LeastElement
    <2>4. f \in 0 .. m /\ S(f) >= k /\ k \in Nat /\ k >= 1
      BY <1>1, <2>3
    <2>5. f # 0
      BY <1>8, <2>4
    <2>6. f \in 1 .. m /\ f - 1 \in 0 .. m /\ f - 1 < f
      BY <1>3, <2>4, <2>5
    <2>7. f - 1 \notin T
      BY <2>3, <2>6
    <2>8. ~ S(f - 1) >= k
      BY <2>6, <2>7
    <2>9. S(f) = S(f - 1) + c[f] /\ S(f - 1) \in Nat /\ c[f] \in Nat /\ F[f] = S(f - 1)
      BY <1>3, <1>4, <1>6, <2>6
    <2> DEFINE j == k - S(f - 1)
    <2>10. j \in 1 .. c[f] /\ F[f] + j = k
      BY <2>4, <2>8, <2>9
    <2> QED
      BY <2>6, <2>10
  <1>12. \A f \in 1 .. m : c[f] \in Nat /\ F[f] \in Nat
    BY <1>3, <1>4, <1>6
  <1> QED
    BY <1>3, <1>4, <1>9, <1>10, <1>11, <1>12 DEF c, m, F

\* Packed streams lie one behind the other inside their section.
LEMMA RangesApart ==
  ASSUME NEW s, SectionOK(s), NEW h \in Nat, SectionVerdict(s, h) = "ok"
  PROVE  LET n == Len(s.sizes) IN
         /\ DOMAIN Ranges(s) = 1 .. n
         /\ \A k \in 1 .. n :
              /\ Ranges(s)[k][1] \in Nat /\ Ranges(s)[k][2] \in Nat
              /\ s.position <= Ranges(s)[k][1] /\ Ranges(s)[k][1] <= Ranges(s)[k][2]
              /\ Ranges(s)[k][2] <= PackEnd(s, n) /\ Ranges(s)[k][2] <= h
         /\ \A j, k \in 1 .. n : j < k => Ranges(s)[j][2] <= Ranges(s)[k][1]
         /\ \A b \in Nat : s.position <= b /\ b < PackEnd(s, n) =>
              \E k \in 1 .. n : b \in Bytes(Ranges(s)[k])
  <1> DEFINE n == Len(s.sizes)
             E(k) == PackEnd(s, k)
             R == Ranges(s)
  <1>1. /\ n \in Nat \ {0} /\ DOMAIN s.sizes = 1 .. n
        /\ \A k \in 0 .. n : E(k) \in Nat /\ E(k) <= h
        /\ E(0) = s.position /\ s.position \in Nat
        /\ \A j, k \in 0 .. n : j <= k => E(j) <= E(k)
    BY PackEnds
  <1>2. R = [k \in DOMAIN s.sizes |-> <<E(k - 1), E(k)>>]
    BY DEF Ranges
  <1> HIDE DEF n, E, R
  <1>3. DOMAIN R = 1 .. n /\ \A k \in 1 .. n : R[k][1] = E(k - 1) /\ R[k][2] = E(k)
    BY <1>1, <1>2
  <1>4. ASSUME NEW k \in 1 .. n
        PROVE  /\ R[k][1] \in Nat /\ R[k][2] \in Nat
               /\ s.position <= R[k][1] /\ R[k][1] <= R[k][2]
               /\ R[k][2] <= E(n) /\ R[k][2] <= h
    <2>1. /\ k - 1 \in 0 .. n /\ k \in 0 .. n /\ 0 \in 0 .. n /\ n \in 0 .. n
          /\ 0 <= k - 1 /\ k - 1 <= k /\ k <= n
      BY <1>1
    <2>2. /\ E(k - 1) \in Nat /\ E(k) \in Nat /\ E(k) <= h
          /\ E(0) <= E(k - 1) /\ E(k - 1) <= E(k) /\ E(k) <= E(n)
      BY <1>1, <2>1
    <2> QED
      BY <1>1, <1>3, <2>2
  <1>5. ASSUME NEW j \in 1 .. n, NEW k \in 1 .. n, j < k
        PROVE  R[j][2] <= R[k][1]
    <2>1. j \in 0 .. n /\ k - 1 \in 0 .. n /\ j <= k - 1
      BY <1>1, <1>5
    <2>2. E(j) <= E(k - 1)
      BY <1>1, <2>1
    <2> QED
      BY <1>3, <2>2
  <1>6. ASSUME NEW b \in Nat, s.position <= b, b < E(n)
        PROVE  \E k \in 1 .. n : b \in Bytes(R[k])
    <2> DEFINE T == {k \in 0 .. n : E(k) > b}
    <2>1. T \in SUBSET Nat /\ n \in T
      BY <1>1, <1>6
    <2>2. PICK k \in T : \A l \in T : k <= l
      BY <2>1, LeastElement
    <2>3. k \in 0 .. n /\ E(k) > b
      BY <2>2
    <2>4. k # 0
      BY <1>1, <1>6, <2>3
    <2>5. k \in 1 .. n /\ k - 1 \in 0 .. n /\ k - 1 < k
      BY <1>1, <2>3, <2>4
    <2>6. ~ E(k - 1) > b
      BY <2>2, <2>5
    <2>7. E(k - 1) \in Nat /\ E(k) \in Nat
      BY <1>1, <2>3, <2>5
    <2>8. E(k - 1) <= b /\ b <= E(k) - 1
      BY <2>3, <2>6, <2>7
    <2>9. b \in R[k][1] .. R[k][2] - 1
      BY <1>3, <2>5, <2>7, <2>8
    <2> QED
      BY <2>5, <2>9 DEF Bytes
  <1> QED
    BY <1>3, <1>4, <1>5, <1>6 DEF n, E, R

\* check_non_overlapping_ranges, on what it is given: two ranges at most.
LEMMA OverlappingFew ==
  ASSUME NEW x
  PROVE  ~ Overlapping(<< >>) /\ ~ Overlapping(<<x>>)
  <1>1. ASSUME NEW t, DOMAIN t \in SUBSET {1}
        PROVE  ~ Overlapping(t)
    BY <1>1 DEF Overlapping
  <1>2. DOMAIN << >> = {} /\ DOMAIN <<x>> = {1}
    OBVIOUS
  <1> QED
    BY <1>1, <1>2

LEMMA OverlappingTwo ==
  ASSUME NEW x, NEW y, x[1] \in Nat, x[2] \in Nat, y[1] \in Nat, y[2] \in Nat,
         x[1] < x[2], y[1] < y[2]
  PROVE  Overlapping(<<x, y>>) <=> x[1] < y[2] /\ y[1] < x[2]
  <1> DEFINE t == <<x, y>>
             Good(p) == \A i, j \in DOMAIN t : i < j => t[p[i]][1] <= t[p[j]][1]
             B == Bijection(DOMAIN t, DOMAIN t)
             order == CHOOSE p \in B : Good(p)
             sorted == [i \in DOMAIN t |-> t[order[i]]]
  <1>1. DOMAIN t = {1, 2} /\ t[1] = x /\ t[2] = y
    OBVIOUS
  <1>2. \E p \in B : Good(p)
    <2> DEFINE p == IF x[1] <= y[1] THEN [i \in {1, 2} |-> i] ELSE [i \in {1, 2} |-> 3 - i]
    <2>1. p \in [{1, 2} -> {1, 2}] /\ p[1] # p[2] /\ {p[1], p[2]} = {1, 2}
      OBVIOUS
    <2>2. p \in B
      BY <1>1, <2>1 DEF Bijection, Injection, Surjection, IsInjective
    <2>3. t[p[1]][1] <= t[p[2]][1]
      BY <1>1
    <2>4. Good(p)
      BY <1>1, <2>3
    <2> QED
      BY <2>2, <2>4
  <1>3. order \in B /\ Good(order)
    <2> HIDE DEF B, Good
    <2> QED
      BY <1>2
  <1>4. order[1] \in {1, 2} /\ order[2] \in {1, 2} /\ order[1] # order[2]
    <2> HIDE DEF order
    <2>1. order \in [{1, 2} -> {1, 2}] /\ \A a, b \in {1, 2} : order[a] = order[b] => a = b
      BY <1>1, <1>3 DEF Bijection, Injection, IsInjective
    <2> QED
      BY <2>1
  <1>5. t[order[1]][1] <= t[order[2]][1]
    <2> HIDE DEF order
    <2> QED
      BY <1>1, <1>3
  <1>6. Overlapping(t) <=> \E i \in DOMAIN sorted \ {1} : sorted[i][1] < sorted[i - 1][2]
    BY SMTT(40) DEF Overlapping
  <1>7. Overlapping(t) <=> t[order[2]][1] < t[order[1]][2]
    <2>1. DOMAIN sorted = {1, 2} /\ sorted[1] = t[order[1]] /\ sorted[2] = t[order[2]]
      <3> HIDE DEF order, t
      <3> QED
        BY <1>1, SMTT(40)
    <2> HIDE DEF sorted
    <2>2. DOMAIN t = DOMAIN sorted
      <3> HIDE DEF order, t
      <3> QED
        BY <1>1, <2>1
    <2>3. DOMAIN sorted \ {1} = {2}
      <3> HIDE DEF order, t
      <3> QED
        BY <2>1
    <2>4. 2 - 1 = 1
      OBVIOUS
    <2>5. (\E i \in {2} : sorted[i][1] < sorted[i - 1][2]) <=> sorted[2][1] < sorted[1][2]
      BY <2>4
    <2>6. Overlapping(t) <=> sorted[2][1] < sorted[1][2]
      <3> DEFINE P == \E i \in DOMAIN t \ {1} : sorted[i][1] < sorted[i - 1][2]
      <3>1. Overlapping(t) <=> P
        <4> HIDE DEF P
        <4>1. Overlapping(t) <=> \E i \in DOMAIN sorted \ {1} : sorted[i][1] < sorted[i - 1][2]
          BY <1>6
        <4> QED
          BY <2>2, <4>1 DEF P
      <3> QED
        BY <2>2, <2>3, <2>5, <3>1
    <2> QED
      BY <2>1, <2>6
  <1> HIDE DEF order, t
  <1>8. CASE order[1] = 1 /\ order[2] = 2
    BY <1>1, <1>5, <1>7, <1>8 DEF t
  <1>9. CASE order[1] = 2 /\ order[2] = 1
    BY <1>1, <1>5, <1>7, <1>9 DEF t
  <1> QED
    BY <1>4, <1>8, <1>9
-----------------------------------------------------------------------------
(***************************************************************************)
(* Steps that preserve PackInv                                             *)
(***************************************************************************)
LEMMA PackFailed ==
  ASSUME PackInv, DOMAIN packRanges' = Sections, DOMAIN firstPacks' = Sections,
         phase' = "done", result' \notin {"ok", "overlap"}
  PROVE  PackInv'
  BY DEF PackInv, Assigned, Sections

LEMMA SpansFrame ==
  ASSUME raw' = raw, NEW t, NEW s
  PROVE  SpansWith(t, s)' = SpansWith(t, s)
  BY DEF SpansWith

LEMMA SectionFrame ==
  ASSUME raw' = raw, NEW s, packRanges'[s] = packRanges[s], firstPacks'[s] = firstPacks[s],
         SectionInv(s)
  PROVE  SectionInv(s)'
  BY DEF SectionInv

LEMMA PackFrame ==
  ASSUME PackInv, Assigned, UNCHANGED <<raw, packVars>>, phase' \notin Sections,
         phase' \in {"map", "files"} \/ result' = "ok" => ~ Overlapping(spans),
         result' = "overlap" => Overlapping(spans)
  PROVE  PackInv'
  <1>1. raw' = raw /\ spans' = spans /\ packRanges' = packRanges /\ firstPacks' = firstPacks
    BY DEF packVars
  <1>2. PICK t : t = SpansWith(<< >>, "additional")
    OBVIOUS
  <1>3. t' = t /\ SpansWith(<< >>, "additional")' = t
    BY <1>1, <1>2, SpansFrame
  <1>4. spans = SpansWith(t, "main") /\ SpansWith(t, "main")' = SpansWith(t, "main")
    BY <1>1, <1>2, SpansFrame DEF PackInv
  <1>5. spans' = SpansWith(SpansWith(<< >>, "additional"), "main")'
    BY <1>1, <1>3, <1>4
  <1>6. \A s \in Sections : SectionInv(s)'
    BY <1>1, SectionFrame DEF PackInv
  <1>7. Overlapping(spans)' <=> Overlapping(spans)
    BY <1>1
  <1> QED
    BY <1>1, <1>5, <1>6, <1>7 DEF PackInv, Sections

LEMMA AssignPacksPack ==
  ASSUME MapInv, PackInv, NEW s, NEW nxt,
         <<s, nxt>> \in {<<"additional", "main">>, <<"main", "build">>},
         AssignPacks(s, nxt)
  PROVE  PackInv'
  <1> DEFINE pack == raw.pack[s]
  <1>0. \/ s = "additional" /\ nxt = "main"
        \/ s = "main" /\ nxt = "build"
    OBVIOUS
  <1>1. /\ phase = s /\ result = "none" /\ raw' = raw /\ s \in Sections
        /\ DOMAIN packRanges = Sections /\ DOMAIN firstPacks = Sections
        /\ packRanges[s] = << >> /\ firstPacks[s] = << >>
    BY <1>0 DEF AssignPacks, MapInv, PhaseInv, PackInv, Sections
  <1>2. PICK t : t = IF s = "additional" THEN << >> ELSE SpansWith(<< >>, "additional")
    OBVIOUS
  <1>3. spans = t
    BY <1>0, <1>1, <1>2 DEF PackInv
  <1>4. ASSUME phase' = "done", result' \notin {"ok", "overlap"},
               packRanges' \in {packRanges, [packRanges EXCEPT ![s] = Ranges(pack)]},
               firstPacks' \in {firstPacks, [firstPacks EXCEPT ![s] = FirstPacks(pack.packs)]}
        PROVE  PackInv'
    BY <1>1, <1>4, PackFailed
  <1>5. ASSUME phase' = nxt, result' = result, spans' = SpansWith(t, s),
               DOMAIN packRanges' = Sections, DOMAIN firstPacks' = Sections,
               SectionInv(s)',
               \A u \in Sections \ {s} : /\ packRanges'[u] = packRanges[u]
                                         /\ firstPacks'[u] = firstPacks[u]
        PROVE  PackInv'
    <2>1. \A u : SpansWith(u, s)' = SpansWith(u, s)
      BY <1>1, SpansFrame
    <2>2. CASE s = "additional"
      <3>1. spans' = SpansWith(<< >>, "additional")'
        BY <1>2, <1>5, <2>1, <2>2
      <3>2. packRanges'["main"] = << >> /\ firstPacks'["main"] = << >>
        BY <1>1, <1>5, <2>2 DEF PackInv, Sections
      <3>3. phase' = "main" /\ result' = "none" /\ SectionInv("additional")'
        BY <1>0, <1>1, <1>5, <2>2
      <3> QED
        BY <1>5, <3>1, <3>2, <3>3 DEF PackInv, Assigned
    <2>3. CASE s = "main"
      <3>1. t = SpansWith(<< >>, "additional") /\ SpansWith(<< >>, "additional")' = t
        BY <1>1, <1>2, <2>3, SpansFrame
      <3>2. spans' = SpansWith(SpansWith(<< >>, "additional"), "main")'
        BY <1>5, <2>1, <2>3, <3>1
      <3>3. SectionInv("additional")
        BY <1>1, <2>3 DEF PackInv
      <3>4. SectionInv("additional")'
        BY <1>1, <1>5, <2>3, <3>3, SectionFrame DEF Sections
      <3>5. \A u \in Sections : SectionInv(u)'
        BY <1>5, <2>3, <3>4 DEF Sections
      <3>6. phase' = "build" /\ result' = "none"
        BY <1>0, <1>1, <1>5, <2>3
      <3> QED
        BY <1>5, <3>2, <3>5, <3>6 DEF PackInv, Assigned
    <2> QED
      BY <1>0, <2>2, <2>3
  <1>6. CASE Return("format") /\ UNCHANGED packVars
    BY <1>4, <1>6 DEF Return, packVars
  <1>7. CASE Paired(pack) /\ pack.streams = 0 /\ Goto(nxt, 1) /\ UNCHANGED packVars
    <2>1. SectionInv(s)'
      BY <1>1, <1>7 DEF SectionInv, packVars
    <2>2. spans' = SpansWith(t, s)
      BY <1>3, <1>7 DEF SpansWith, packVars
    <2> QED
      BY <1>1, <1>5, <1>7, <2>1, <2>2 DEF Goto, packVars
  <1>8. CASE /\ SectionVerdict(pack, raw.header) # "ok"
             /\ Return(SectionVerdict(pack, raw.header)) /\ UNCHANGED packVars
    <2>1. SectionVerdict(pack, raw.header) \in {"ok", "format", "unsupported"}
      BY VerdictType
    <2> QED
      BY <1>4, <1>8, <2>1 DEF Return, packVars
  <1>9. CASE /\ Paired(pack) /\ pack.streams > 0 /\ SectionVerdict(pack, raw.header) = "ok"
             /\ spans' = WithSection(spans, pack)
             /\ packRanges' = [packRanges EXCEPT ![s] = Ranges(pack)]
             /\ firstPacks' = [firstPacks EXCEPT ![s] = FirstPacks(pack.packs)]
             /\ \/ AllAssigned(pack) /\ Goto(nxt, 1)
                \/ ~ AllAssigned(pack) /\ Return("format") /\ UNCHANGED at
    <2>1. CASE ~ AllAssigned(pack) /\ Return("format")
      BY <1>4, <1>9, <2>1 DEF Return
    <2>2. CASE AllAssigned(pack) /\ Goto(nxt, 1)
      <3>1. /\ packRanges'[s] = Ranges(pack) /\ firstPacks'[s] = FirstPacks(pack.packs)
            /\ DOMAIN packRanges' = Sections /\ DOMAIN firstPacks' = Sections
            /\ \A u \in Sections \ {s} : /\ packRanges'[u] = packRanges[u]
                                         /\ firstPacks'[u] = firstPacks[u]
        BY <1>1, <1>9
      <3>2. ~ pack.streams = 0 /\ pack.streams \in Nat
        <4>1. SectionOK(pack)
          BY <1>1, RawArchivesAssumption DEF MapInv, FoldersInv, RawStreams
        <4> QED
          BY <1>9, <4>1 DEF SectionOK
      <3>3. SectionInv(s)'
        BY <1>1, <1>9, <2>2, <3>1, <3>2 DEF SectionInv
      <3>4. spans' = SpansWith(t, s)
        BY <1>3, <1>9, <3>2 DEF SpansWith
      <3>5. phase' = nxt /\ result' = result
        BY <2>2 DEF Goto
      <3> QED
        BY <1>5, <3>1, <3>3, <3>4, <3>5
    <2> QED
      BY <1>9, <2>1, <2>2
  <1>10. \/ Return("format") /\ UNCHANGED <<at, packVars>>
         \/ Paired(pack) /\ pack.streams = 0 /\ Goto(nxt, 1) /\ UNCHANGED packVars
         \/ /\ SectionVerdict(pack, raw.header) # "ok"
            /\ Return(SectionVerdict(pack, raw.header)) /\ UNCHANGED <<at, packVars>>
         \/ /\ Paired(pack) /\ pack.streams > 0 /\ SectionVerdict(pack, raw.header) = "ok"
            /\ spans' = WithSection(spans, pack)
            /\ packRanges' = [packRanges EXCEPT ![s] = Ranges(pack)]
            /\ firstPacks' = [firstPacks EXCEPT ![s] = FirstPacks(pack.packs)]
            /\ \/ AllAssigned(pack) /\ Goto(nxt, 1)
               \/ ~ AllAssigned(pack) /\ Return("format") /\ UNCHANGED at
    <2> HIDE DEF pack
    <2>1. pack = raw.pack[s]
      BY DEF pack
    <2> QED
      BY <2>1 DEF AssignPacks
  <1>11. UNCHANGED <<at, packVars>> => UNCHANGED packVars
    OBVIOUS
  <1> HIDE DEF pack
  <1> QED
    BY <1>6, <1>7, <1>8, <1>9, <1>10, <1>11

LEMMA MapStepPack ==
  ASSUME MapInv, PackInv, MapStep \/ MapInterrupt
  PROVE  PackInv'
  <1>1. CASE AssignPacks("additional", "main")
    BY <1>1, AssignPacksPack
  <1>3. CASE AssignPacks("main", "build")
    BY <1>3, AssignPacksPack
  <1>2. CASE ~ AssignPacks("additional", "main") /\ ~ AssignPacks("main", "build")
    <2>1. raw' = raw /\ UNCHANGED packVars /\ phase # "done" /\ result = "none"
      <3>1. raw' = raw /\ UNCHANGED packVars /\ phase # "done"
        BY <1>2 DEF MapStep, BuildFolder, BuildDone, CollectMappings, AddFile, FilesDone,
             MapInterrupt, Sections
      <3> QED
        BY <3>1 DEF MapInv, PhaseInv
    <2>2. DOMAIN packRanges' = Sections /\ DOMAIN firstPacks' = Sections
      BY <2>1 DEF PackInv, packVars
    <2>3. CASE phase' = "done" /\ result' \notin {"ok", "overlap"}
      BY <2>2, <2>3, PackFailed
    <2>4. CASE ~ (phase' = "done" /\ result' \notin {"ok", "overlap"})
      <3>1. CASE BuildFolder
        <4>1. phase = "build" /\ phase' = "build" /\ result' = result
          BY <2>4, <3>1 DEF BuildFolder, Return, Goto
        <4> QED
          BY <2>1, <4>1, PackFrame DEF Assigned, Sections
      <3>2. CASE BuildDone
        <4>1. phase = "build"
          BY <3>2 DEF BuildDone
        <4>2. \/ Overlapping(spans) /\ phase' = "done" /\ result' = "overlap"
              \/ ~ Overlapping(spans) /\ phase' = "map" /\ result' = result
              \/ ~ Overlapping(spans) /\ phase' = "done" /\ result' = "ok"
          BY <2>4, <3>2 DEF BuildDone, Return, Goto
        <4> QED
          BY <2>1, <4>1, <4>2, PackFrame DEF Assigned, Sections
      <3>3. CASE CollectMappings
        <4>1. phase = "map" /\ phase' = "files" /\ result' = result
          BY <2>4, <3>3 DEF CollectMappings, Return, Goto
        <4> QED
          BY <2>1, <4>1, PackFrame DEF Assigned, Sections, PackInv
      <3>4. CASE AddFile
        <4>1. phase = "files" /\ phase' = "files" /\ result' = result
          BY <3>4 DEF AddFile, Goto
        <4> QED
          BY <2>1, <4>1, PackFrame DEF Assigned, Sections, PackInv
      <3>5. CASE FilesDone
        <4>1. phase = "files" /\ phase' = "done" /\ result' \in {"ok", "internal"}
          BY <3>5 DEF FilesDone, Return
        <4> QED
          BY <2>1, <2>4, <4>1, PackFrame DEF Assigned, Sections, PackInv
      <3>6. CASE MapInterrupt
        BY <2>4, <3>6 DEF MapInterrupt, Return
      <3> QED
        BY <1>2, <3>1, <3>2, <3>3, <3>4, <3>5, <3>6 DEF MapStep
    <2> QED
      BY <2>3, <2>4
  <1> QED
    BY <1>1, <1>2, <1>3
\* A new header, and the steps that leave validation alone.
LEMMA PackInitInv ==
  ASSUME MapInit
  PROVE  PackInv
  BY DEF MapInit, PackInv, Assigned, Sections

LEMMA PackUnchanged ==
  ASSUME PackInv, UNCHANGED mapVars
  PROVE  PackInv'
  <1>1. UNCHANGED <<raw, phase, result, spans, packRanges, firstPacks>>
    BY DEF mapVars, packVars
  <1>2. PICK t : t = SpansWith(<< >>, "additional")
    OBVIOUS
  <1>3. SpansWith(<< >>, "additional")' = t /\ SpansWith(t, "main")' = SpansWith(t, "main")
    BY <1>1, <1>2, SpansFrame
  <1>4. \A s \in Sections : SectionInv(s) => SectionInv(s)'
    BY <1>1, SectionFrame
  <1>5. Overlapping(spans)' <=> Overlapping(spans)
    BY <1>1
  <1> QED
    BY <1>1, <1>2, <1>3, <1>4, <1>5 DEF PackInv, Assigned, Sections
-----------------------------------------------------------------------------
(***************************************************************************)
(* Who owns a byte                                                         *)
(***************************************************************************)
LEMMA SectionFacts ==
  ASSUME MapInv, NEW s \in Sections
  PROVE  SectionOK(raw.pack[s]) /\ raw.header \in Nat /\ raw.pack[s].streams \in Nat
  BY RawArchivesAssumption DEF MapInv, FoldersInv, RawStreams, SectionOK

\* The range of a packed input.
LEMMA LoadedIs ==
  ASSUME MapInv, PackInv, Assigned, NEW x \in LoadedInputs
  PROVE  /\ x[1] \in Sections /\ raw.pack[x[1]].streams > 0
         /\ x = <<x[1], x[2], x[3]>>
         /\ x[2] \in 1 .. Len(raw.pack[x[1]].packs)
         /\ x[3] \in 1 .. raw.pack[x[1]].packs[x[2]]
         /\ FirstPacks(raw.pack[x[1]].packs)[x[2]] + x[3] \in 1 .. raw.pack[x[1]].streams
         /\ LoadedRange(x) = Ranges(raw.pack[x[1]])
                               [FirstPacks(raw.pack[x[1]].packs)[x[2]] + x[3]]
  <1>1. PICK s \in Sections : x \in {s} \X (DOMAIN firstPacks[s]) \X (1 .. raw.pack[s].streams)
    BY DEF LoadedInputs, PackedInputs
  <1>2. /\ x[1] = s /\ x[2] \in DOMAIN firstPacks[s] /\ x[3] \in 1 .. raw.pack[s].streams
        /\ x = <<x[1], x[2], x[3]>>
    BY <1>1
  <1>3. SectionInv(s)
    BY DEF PackInv
  <1>4. SectionOK(raw.pack[s]) /\ raw.pack[s].streams \in Nat
    BY SectionFacts
  <1>5. raw.pack[s].streams > 0
    <2> SUFFICES ASSUME raw.pack[s].streams = 0 PROVE FALSE
      BY <1>4
    <2>1. firstPacks[s] = << >>
      BY <1>3 DEF SectionInv
    <2> QED
      BY <1>2, <2>1
  <1>6. /\ packRanges[s] = Ranges(raw.pack[s]) /\ AllAssigned(raw.pack[s])
        /\ firstPacks[s] = FirstPacks(raw.pack[s].packs)
    BY <1>3, <1>5 DEF SectionInv
  <1>7. x[2] \in 1 .. Len(raw.pack[s].packs) /\ raw.pack[s].packs[x[2]] \in Nat
    BY <1>2, <1>4, <1>6, PackInputs
  <1>8. x[3] <= raw.pack[s].packs[x[2]]
    BY <1>2 DEF LoadedInputs
  <1>9. x[3] \in 1 .. raw.pack[s].packs[x[2]]
    BY <1>2, <1>4, <1>7, <1>8
  <1>10. FirstPacks(raw.pack[s].packs)[x[2]] + x[3] \in 1 .. raw.pack[s].streams
    BY <1>4, <1>6, <1>7, <1>9, PackInputs
  <1>11. LoadedRange(x) = packRanges[s][firstPacks[s][x[2]] + x[3]]
    BY <1>2 DEF LoadedRange, Loaded
  <1> QED
    BY <1>2, <1>5, <1>6, <1>7, <1>9, <1>10, <1>11

\* The bytes of a section's packed streams.
Extent(s) == <<s.position, PackEnd(s, Len(s.sizes))>>

\* The two or fewer spans.
LEMMA SpanLists ==
  ASSUME NEW x, NEW y
  PROVE  Append(<< >>, x) = <<x>> /\ Append(<<x>>, y) = <<x, y>>
  <1> DEFINE S == {x, y}
  <1>1. << >> \in Seq(S) /\ <<x>> \in Seq(S) /\ <<x, y>> \in Seq(S) /\ x \in S /\ y \in S
    OBVIOUS
  <1>2. /\ Len(<< >>) = 0 /\ Len(<<x>>) = 1 /\ Len(<<x, y>>) = 2
        /\ <<x>>[1] = x /\ <<x, y>>[1] = x /\ <<x, y>>[2] = y
    OBVIOUS
  <1> HIDE DEF S
  <1>3. Append(<< >>, x) = <<x>>
    <2> DEFINE u == Append(<< >>, x)
    <2>1. u \in Seq(S) /\ Len(u) = 1 /\ u[1] = x
      <3>1. u \in Seq(S) /\ Len(u) = Len(<< >>) + 1 /\ u[Len(<< >>) + 1] = x
        BY <1>1, AppendProperties
      <3> QED
        BY <1>2, <3>1
    <2> HIDE DEF u
    <2>2. \A i \in 1 .. Len(u) : u[i] = <<x>>[i]
      BY <1>2, <2>1
    <2>3. u = <<x>>
      BY <1>1, <1>2, <2>1, <2>2, SeqEqual
    <2> QED
      BY <2>3 DEF u
  <1>4. Append(<<x>>, y) = <<x, y>>
    <2> DEFINE u == Append(<<x>>, y)
    <2>1. u \in Seq(S) /\ Len(u) = 2 /\ u[1] = x /\ u[2] = y
      <3>1. /\ u \in Seq(S) /\ Len(u) = Len(<<x>>) + 1 /\ u[Len(<<x>>) + 1] = y
            /\ \A i \in 1 .. Len(<<x>>) : u[i] = <<x>>[i]
        BY <1>1, AppendProperties
      <3>2. 1 \in 1 .. Len(<<x>>)
        BY <1>2
      <3>3. u[1] = <<x>>[1]
        BY <3>1, <3>2
      <3> QED
        BY <1>2, <3>1, <3>3
    <2> HIDE DEF u
    <2>2. \A i \in 1 .. Len(u) : u[i] = <<x, y>>[i]
      <3> TAKE i \in 1 .. Len(u)
      <3>1. i = 1 \/ i = 2
        BY <2>1
      <3> QED
        BY <1>2, <2>1, <3>1
    <2>3. u = <<x, y>>
      BY <1>1, <1>2, <2>1, <2>2, SeqEqual
    <2> QED
      BY <2>3 DEF u
  <1> QED
    BY <1>3, <1>4

\* What the comparison of the sections says of them.
LEMMA SpansCompared ==
  ASSUME MapInv, PackInv, Assigned
  PROVE  LET a == Extent(raw.pack["additional"])
             m == Extent(raw.pack["main"])
             both == /\ raw.pack["additional"].streams > 0 /\ raw.pack["main"].streams > 0
                     /\ a[1] < a[2] /\ m[1] < m[2] IN
         Overlapping(spans) <=> both /\ a[1] < m[2] /\ m[1] < a[2]
  <1> DEFINE A == raw.pack["additional"]
             M == raw.pack["main"]
             a == Extent(A)
             m == Extent(M)
             both == A.streams > 0 /\ M.streams > 0 /\ a[1] < a[2] /\ m[1] < m[2]
  <1>1. "additional" \in Sections /\ "main" \in Sections
    BY DEF Sections
  <1>2. A.streams \in Nat /\ M.streams \in Nat
    BY <1>1, SectionFacts
  <1>3. SectionInv("additional") /\ SectionInv("main")
    BY <1>1 DEF PackInv
  <1>4. A.streams > 0 => a[1] \in Nat /\ a[2] \in Nat
    <2> SUFFICES ASSUME A.streams > 0 PROVE a[1] \in Nat /\ a[2] \in Nat
      OBVIOUS
    <2>1. SectionVerdict(A, raw.header) = "ok" /\ SectionOK(A) /\ raw.header \in Nat
      BY <1>1, <1>3, SectionFacts DEF SectionInv
    <2>2. /\ Len(A.sizes) \in Nat \ {0}
          /\ \A k \in 0 .. Len(A.sizes) : PackEnd(A, k) \in Nat
          /\ A.position \in Nat
      BY <2>1, PackEnds
    <2> QED
      BY <2>2 DEF Extent
  <1>5. M.streams > 0 => m[1] \in Nat /\ m[2] \in Nat
    <2> SUFFICES ASSUME M.streams > 0 PROVE m[1] \in Nat /\ m[2] \in Nat
      OBVIOUS
    <2>1. SectionVerdict(M, raw.header) = "ok" /\ SectionOK(M) /\ raw.header \in Nat
      BY <1>1, <1>3, SectionFacts DEF SectionInv
    <2>2. /\ Len(M.sizes) \in Nat \ {0}
          /\ \A k \in 0 .. Len(M.sizes) : PackEnd(M, k) \in Nat
          /\ M.position \in Nat
      BY <2>1, PackEnds
    <2> QED
      BY <2>2 DEF Extent
  <1>6. ASSUME NEW u, NEW s
        PROVE  SpansWith(u, s) =
                 IF raw.pack[s].streams # 0 /\ Extent(raw.pack[s])[2] > Extent(raw.pack[s])[1]
                 THEN Append(u, Extent(raw.pack[s])) ELSE u
    BY DEF SpansWith, WithSection, Extent
  <1> DEFINE t == SpansWith(<< >>, "additional")
  <1>7. t = IF A.streams # 0 /\ a[2] > a[1] THEN <<a>> ELSE << >>
    <2>1. t = IF A.streams # 0 /\ a[2] > a[1] THEN Append(<< >>, a) ELSE << >>
      BY <1>6
    <2> HIDE DEF a, A, t
    <2> QED
      BY <2>1, SpanLists
  <1>8. spans = IF M.streams # 0 /\ m[2] > m[1] THEN Append(t, m) ELSE t
    BY <1>6 DEF PackInv
  <1> HIDE DEF A, M, a, m, t
  <1>9. CASE both
    <2>1. t = <<a>>
      BY <1>2, <1>4, <1>7, <1>9
    <2>2. spans = Append(t, m)
      BY <1>2, <1>5, <1>8, <1>9
    <2>3. spans = <<a, m>>
      BY <2>1, <2>2, SpanLists
    <2>4. Overlapping(<<a, m>>) <=> a[1] < m[2] /\ m[1] < a[2]
      BY <1>4, <1>5, <1>9, OverlappingTwo
    <2> QED
      BY <1>9, <2>3, <2>4 DEF A, M, a, m
  <1>10. CASE ~ both
    <2>1. spans = << >> \/ \E x : spans = <<x>>
      <3>1. CASE A.streams # 0 /\ a[2] > a[1]
        <4>1. t = <<a>>
          BY <1>7, <3>1
        <4>2. ~ (M.streams # 0 /\ m[2] > m[1])
          BY <1>2, <1>4, <1>5, <1>10, <3>1
        <4>3. spans = t
          BY <1>8, <4>2
        <4> QED
          BY <4>1, <4>3
      <3>2. CASE ~ (A.streams # 0 /\ a[2] > a[1])
        <4>1. t = << >>
          BY <1>7, <3>2
        <4>2. spans = t \/ spans = Append(t, m)
          BY <1>8
        <4> QED
          BY <4>1, <4>2, SpanLists
      <3> QED
        BY <3>1, <3>2
    <2>2. ~ Overlapping(spans)
      BY <2>1, OverlappingFew
    <2> QED
      BY <1>10, <2>2 DEF A, M, a, m
  <1> QED
    BY <1>9, <1>10

\* A loaded range lies inside its section, and the section before the header.
LEMMA LoadedInside ==
  ASSUME MapInv, PackInv, Assigned, NEW x \in LoadedInputs
  PROVE  LET e == Extent(raw.pack[x[1]])
             r == LoadedRange(x) IN
         /\ e[1] \in Nat /\ e[2] \in Nat /\ r[1] \in Nat /\ r[2] \in Nat
         /\ e[1] <= r[1] /\ r[1] <= r[2] /\ r[2] <= e[2] /\ r[2] <= raw.header
  <1> DEFINE s == x[1]
             P == raw.pack[s]
             k == FirstPacks(P.packs)[x[2]] + x[3]
             n == Len(P.sizes)
  <1>1. s \in Sections /\ P.streams > 0 /\ k \in 1 .. P.streams /\ LoadedRange(x) = Ranges(P)[k]
    BY LoadedIs
  <1>2. SectionInv(s)
    BY <1>1 DEF PackInv
  <1>3. SectionOK(P) /\ raw.header \in Nat /\ SectionVerdict(P, raw.header) = "ok"
    BY <1>1, <1>2, SectionFacts DEF SectionInv
  <1>4. /\ n \in Nat /\ n = P.streams /\ P.position \in Nat
        /\ \A i \in 0 .. n : PackEnd(P, i) \in Nat
    BY <1>3, PackEnds
  <1>5. \A i \in 1 .. n :
          /\ Ranges(P)[i][1] \in Nat /\ Ranges(P)[i][2] \in Nat
          /\ P.position <= Ranges(P)[i][1] /\ Ranges(P)[i][1] <= Ranges(P)[i][2]
          /\ Ranges(P)[i][2] <= PackEnd(P, n) /\ Ranges(P)[i][2] <= raw.header
    BY <1>3, RangesApart
  <1>6. Extent(P)[1] = P.position /\ Extent(P)[2] = PackEnd(P, n)
    BY DEF Extent
  <1>7. n \in 0 .. n /\ k \in 1 .. n
    <2> HIDE DEF n, k
    <2> QED
      BY <1>1, <1>4
  <1> HIDE DEF k, n
  <1> QED
    BY <1>1, <1>4, <1>5, <1>6, <1>7

\* Two inputs of the same section read two ranges, one behind the other.
LEMMA OwnersOfSection ==
  ASSUME MapInv, PackInv, Assigned, NEW x \in LoadedInputs, NEW y \in LoadedInputs,
         x # y, x[1] = y[1]
  PROVE  Bytes(LoadedRange(x)) \cap Bytes(LoadedRange(y)) = {}
  <1> DEFINE P == raw.pack[x[1]]
             F == FirstPacks(P.packs)
             R == Ranges(P)
             n == Len(P.sizes)
             j == F[x[2]] + x[3]
             k == F[y[2]] + y[3]
  <1>1. /\ x[1] \in Sections /\ P.streams > 0
        /\ x = <<x[1], x[2], x[3]>>
        /\ x[2] \in 1 .. Len(P.packs) /\ x[3] \in 1 .. P.packs[x[2]]
        /\ j \in 1 .. P.streams /\ LoadedRange(x) = R[j]
    BY LoadedIs
  <1>2. /\ y = <<y[1], y[2], y[3]>>
        /\ y[2] \in 1 .. Len(P.packs) /\ y[3] \in 1 .. P.packs[y[2]]
        /\ k \in 1 .. P.streams /\ LoadedRange(y) = R[k]
    BY LoadedIs
  <1>3. SectionInv(x[1]) /\ SectionOK(P) /\ raw.header \in Nat
    BY <1>1, SectionFacts DEF PackInv
  <1>4. SectionVerdict(P, raw.header) = "ok" /\ AllAssigned(P)
    BY <1>1, <1>3 DEF SectionInv
  <1>5. j # k
    <2> SUFFICES ASSUME j = k PROVE FALSE
      OBVIOUS
    <2>1. x[2] = y[2] /\ x[3] = y[3]
      <3>1. \A f, g \in 1 .. Len(P.packs) : \A d \in 1 .. P.packs[f] : \A e \in 1 .. P.packs[g] :
              F[f] + d = F[g] + e => f = g /\ d = e
        BY <1>3, <1>4, PackInputs
      <3>2. /\ x[2] \in 1 .. Len(P.packs) /\ y[2] \in 1 .. Len(P.packs)
            /\ x[3] \in 1 .. P.packs[x[2]] /\ y[3] \in 1 .. P.packs[y[2]]
            /\ F[x[2]] + x[3] = F[y[2]] + y[3]
        BY <1>1, <1>2
      <3> HIDE DEF P, F
      <3> QED
        BY <3>1, <3>2
    <2> QED
      BY <1>1, <1>2, <2>1
  <1>6. n = P.streams /\ n \in Nat
    BY <1>3, <1>4, PackEnds
  <1>7. /\ \A i \in 1 .. n : R[i][1] \in Nat /\ R[i][2] \in Nat
        /\ \A h, i \in 1 .. n : h < i => R[h][2] <= R[i][1]
    BY <1>3, <1>4, RangesApart
  <1> HIDE DEF j, k, n, R
  <1>8. j \in 1 .. n /\ k \in 1 .. n /\ (j < k \/ k < j)
    BY <1>1, <1>2, <1>5, <1>6
  <1>9. R[j][2] <= R[k][1] \/ R[k][2] <= R[j][1]
    BY <1>7, <1>8
  <1>10. R[j][1] \in Nat /\ R[j][2] \in Nat /\ R[k][1] \in Nat /\ R[k][2] \in Nat
    BY <1>7, <1>8
  <1>11. (R[j][1] .. R[j][2] - 1) \cap (R[k][1] .. R[k][2] - 1) = {}
    BY <1>9, <1>10
  <1> QED
    BY <1>1, <1>2, <1>11 DEF Bytes

\* Inputs of different sections: the comparison of the sections keeps them
\* apart.
LEMMA OwnersAcross ==
  ASSUME MapInv, PackInv, Assigned, ~ Overlapping(spans),
         NEW x \in LoadedInputs, NEW y \in LoadedInputs,
         x[1] = "additional", y[1] = "main"
  PROVE  Bytes(LoadedRange(x)) \cap Bytes(LoadedRange(y)) = {}
  <1> DEFINE a == Extent(raw.pack["additional"])
             m == Extent(raw.pack["main"])
             r == LoadedRange(x)
             q == LoadedRange(y)
  <1>1. /\ a[1] \in Nat /\ a[2] \in Nat /\ r[1] \in Nat /\ r[2] \in Nat
        /\ a[1] <= r[1] /\ r[1] <= r[2] /\ r[2] <= a[2]
    BY LoadedInside
  <1>2. /\ m[1] \in Nat /\ m[2] \in Nat /\ q[1] \in Nat /\ q[2] \in Nat
        /\ m[1] <= q[1] /\ q[1] <= q[2] /\ q[2] <= m[2]
    BY LoadedInside
  <1>3. raw.pack["additional"].streams > 0 /\ raw.pack["main"].streams > 0
    BY LoadedIs
  <1>4. ~ (/\ raw.pack["additional"].streams > 0 /\ raw.pack["main"].streams > 0
           /\ a[1] < a[2] /\ m[1] < m[2] /\ a[1] < m[2] /\ m[1] < a[2])
    BY SpansCompared
  <1>5. ~ (a[1] < a[2] /\ m[1] < m[2] /\ a[1] < m[2] /\ m[1] < a[2])
    BY <1>3, <1>4
  <1> HIDE DEF a, m, r, q
  <1>6. (r[1] .. r[2] - 1) \cap (q[1] .. q[2] - 1) = {}
    <2> SUFFICES ASSUME NEW b \in Int, r[1] <= b, b <= r[2] - 1, q[1] <= b, b <= q[2] - 1
                 PROVE  FALSE
      BY <1>1, <1>2
    <2> QED
      BY <1>1, <1>2, <1>5
  <1> QED
    BY <1>6 DEF Bytes, r, q

\* No packed stream is left without an input.
LEMMA NoneUnread ==
  ASSUME MapInv, PackInv, Assigned, NEW s \in Sections, NEW k \in DOMAIN packRanges[s]
  PROVE  \E x \in LoadedInputs : x[1] = s /\ firstPacks[s][x[2]] + x[3] = k
  <1> DEFINE P == raw.pack[s]
             F == FirstPacks(P.packs)
             n == Len(P.sizes)
  <1>1. SectionInv(s) /\ SectionOK(P) /\ raw.header \in Nat /\ P.streams \in Nat
    BY SectionFacts DEF PackInv
  <1>2. P.streams > 0
    <2> SUFFICES ASSUME P.streams = 0 PROVE FALSE
      BY <1>1
    <2>1. packRanges[s] = << >>
      BY <1>1 DEF SectionInv
    <2> QED
      BY <2>1
  <1>3. /\ SectionVerdict(P, raw.header) = "ok" /\ AllAssigned(P)
        /\ packRanges[s] = Ranges(P) /\ firstPacks[s] = F
    BY <1>1, <1>2 DEF SectionInv
  <1>4. DOMAIN Ranges(P) = 1 .. n
    BY <1>1, <1>3, RangesApart
  <1>5. n = P.streams
    BY <1>1, <1>3, PackEnds
  <1>6. k \in 1 .. P.streams
    BY <1>3, <1>4, <1>5
  <1>7. /\ DOMAIN F = 1 .. Len(P.packs)
        /\ \A f \in 1 .. Len(P.packs) : P.packs[f] \in Nat /\ F[f] \in Nat
        /\ \A i \in 1 .. P.streams :
             \E f \in 1 .. Len(P.packs) : \E j \in 1 .. P.packs[f] : F[f] + j = i
    BY <1>1, <1>3, PackInputs
  <1>8. PICK f \in 1 .. Len(P.packs) : \E j \in 1 .. P.packs[f] : F[f] + j = k
    BY <1>6, <1>7
  <1>9. PICK j \in 1 .. P.packs[f] : F[f] + j = k
    BY <1>8
  <1>10. j \in 1 .. P.streams /\ j <= P.packs[f]
    <2>1. F[f] \in Nat /\ P.packs[f] \in Nat
      BY <1>7
    <2> HIDE DEF F
    <2> QED
      BY <1>1, <1>6, <1>9, <2>1
  <1> DEFINE x == <<s, f, j>>
  <1>11. x \in {s} \X (DOMAIN firstPacks[s]) \X (1 .. raw.pack[s].streams)
    BY <1>3, <1>7, <1>10
  <1>12. x \in PackedInputs
    BY <1>11 DEF PackedInputs
  <1>13. x \in LoadedInputs
    BY <1>10, <1>12 DEF LoadedInputs
  <1>14. firstPacks[s][x[2]] + x[3] = k
    BY <1>3, <1>9
  <1> QED
    BY <1>13, <1>14

\* Sections that overlap have two packed streams that share a byte.
LEMMA OverlapIsReal ==
  ASSUME MapInv, PackInv, Assigned, Overlapping(spans)
  PROVE  \E j \in DOMAIN packRanges["additional"], k \in DOMAIN packRanges["main"] :
           Bytes(packRanges["additional"][j]) \cap Bytes(packRanges["main"][k]) # {}
  <1> DEFINE A == raw.pack["additional"]
             M == raw.pack["main"]
             a == Extent(A)
             m == Extent(M)
             b == IF a[1] <= m[1] THEN m[1] ELSE a[1]
  <1>1. /\ A.streams > 0 /\ M.streams > 0
        /\ a[1] < a[2] /\ m[1] < m[2] /\ a[1] < m[2] /\ m[1] < a[2]
    BY SpansCompared
  <1>2. ASSUME NEW s \in Sections, raw.pack[s].streams > 0, NEW c \in Nat,
               Extent(raw.pack[s])[1] <= c, c < Extent(raw.pack[s])[2]
        PROVE  \E k \in DOMAIN packRanges[s] : c \in Bytes(packRanges[s][k])
    <2>1. SectionInv(s) /\ SectionOK(raw.pack[s]) /\ raw.header \in Nat
      BY SectionFacts DEF PackInv
    <2>2. /\ SectionVerdict(raw.pack[s], raw.header) = "ok"
          /\ packRanges[s] = Ranges(raw.pack[s])
      BY <1>2, <2>1 DEF SectionInv
    <2>3. /\ DOMAIN Ranges(raw.pack[s]) = 1 .. Len(raw.pack[s].sizes)
          /\ \A d \in Nat :
               raw.pack[s].position <= d /\ d < PackEnd(raw.pack[s], Len(raw.pack[s].sizes)) =>
                 \E k \in 1 .. Len(raw.pack[s].sizes) : d \in Bytes(Ranges(raw.pack[s])[k])
      BY <2>1, <2>2, RangesApart
    <2>4. /\ Extent(raw.pack[s])[1] = raw.pack[s].position
          /\ Extent(raw.pack[s])[2] = PackEnd(raw.pack[s], Len(raw.pack[s].sizes))
      BY DEF Extent
    <2> QED
      BY <1>2, <2>2, <2>3, <2>4
  <1>3. ASSUME NEW s \in Sections, raw.pack[s].streams > 0
        PROVE  Extent(raw.pack[s])[1] \in Nat /\ Extent(raw.pack[s])[2] \in Nat
    <2>1. SectionInv(s) /\ SectionOK(raw.pack[s]) /\ raw.header \in Nat
      BY SectionFacts DEF PackInv
    <2>2. SectionVerdict(raw.pack[s], raw.header) = "ok"
      BY <1>3, <2>1 DEF SectionInv
    <2>3. /\ Len(raw.pack[s].sizes) \in Nat /\ raw.pack[s].position \in Nat
          /\ \A k \in 0 .. Len(raw.pack[s].sizes) : PackEnd(raw.pack[s], k) \in Nat
      BY <2>1, <2>2, PackEnds
    <2> QED
      BY <2>3 DEF Extent
  <1>4. "additional" \in Sections /\ "main" \in Sections
    BY DEF Sections
  <1>5. a[1] \in Nat /\ a[2] \in Nat /\ m[1] \in Nat /\ m[2] \in Nat
    BY <1>1, <1>3, <1>4
  <1>6. /\ b \in Nat /\ a[1] <= b /\ b < a[2] /\ m[1] <= b /\ b < m[2]
    <2> HIDE DEF a, m
    <2> QED
      BY <1>1, <1>5
  <1> HIDE DEF b
  <1>7. \E j \in DOMAIN packRanges["additional"] : b \in Bytes(packRanges["additional"][j])
    BY <1>1, <1>2, <1>4, <1>6
  <1>8. \E k \in DOMAIN packRanges["main"] : b \in Bytes(packRanges["main"][k])
    BY <1>1, <1>2, <1>4, <1>6
  <1> QED
    BY <1>7, <1>8

LEMMA PackInvOwners ==
  ASSUME MapInv, PackInv
  PROVE  PackedBytesHaveOneOwner
  <1>1. ASSUME phase \in {"map", "files"} \/ result = "ok"
        PROVE  /\ \A x, y \in LoadedInputs :
                    x # y => Bytes(LoadedRange(x)) \cap Bytes(LoadedRange(y)) = {}
               /\ \A x \in LoadedInputs :
                    /\ LoadedRange(x)[1] <= LoadedRange(x)[2]
                    /\ LoadedRange(x)[2] <= raw.header
               /\ \A s \in Sections : \A k \in DOMAIN packRanges[s] :
                    \E x \in LoadedInputs : x[1] = s /\ firstPacks[s][x[2]] + x[3] = k
    <2>1. Assigned /\ ~ Overlapping(spans)
      BY <1>1 DEF PackInv, Assigned
    <2>2. ASSUME NEW x \in LoadedInputs, NEW y \in LoadedInputs, x # y
          PROVE  Bytes(LoadedRange(x)) \cap Bytes(LoadedRange(y)) = {}
      <3>1. x[1] \in {"additional", "main"} /\ y[1] \in {"additional", "main"}
        BY <2>1, LoadedIs DEF Sections
      <3>2. CASE x[1] = y[1]
        BY <2>1, <2>2, <3>2, OwnersOfSection
      <3>3. CASE x[1] = "additional" /\ y[1] = "main"
        BY <2>1, <3>3, OwnersAcross
      <3>4. CASE x[1] = "main" /\ y[1] = "additional"
        <4>1. Bytes(LoadedRange(y)) \cap Bytes(LoadedRange(x)) = {}
          BY <2>1, <3>4, OwnersAcross
        <4> QED
          BY <4>1
      <3> QED
        BY <3>1, <3>2, <3>3, <3>4
    <2>3. \A x \in LoadedInputs : /\ LoadedRange(x)[1] <= LoadedRange(x)[2]
                                  /\ LoadedRange(x)[2] <= raw.header
      BY <2>1, LoadedInside
    <2>4. \A s \in Sections : \A k \in DOMAIN packRanges[s] :
            \E x \in LoadedInputs : x[1] = s /\ firstPacks[s][x[2]] + x[3] = k
      BY <2>1, NoneUnread
    <2> QED
      BY <2>2, <2>3, <2>4
  <1>2. ASSUME result = "overlap"
        PROVE  \E j \in DOMAIN packRanges["additional"], k \in DOMAIN packRanges["main"] :
                 Bytes(packRanges["additional"][j]) \cap Bytes(packRanges["main"][k]) # {}
    <2>1. Assigned /\ Overlapping(spans)
      BY <1>2 DEF PackInv, Assigned
    <2> QED
      BY <2>1, OverlapIsReal
  <1> QED
    BY <1>1, <1>2 DEF PackedBytesHaveOneOwner

LEMMA NextPackInv ==
  ASSUME IInv, PackInv, [Next]_vars
  PROVE  PackInv'
  <1>1. MapInv
    BY DEF IInv
  <1>2. CASE Validate \/ ValidateInterrupted
    <2>1. MapStep \/ MapInterrupt
      BY <1>2 DEF Validate, ValidateInterrupted
    <2> QED
      BY <1>1, <2>1, MapStepPack
  <1>3. CASE Open \/ Operate \/ OperateInterrupted \/ UNCHANGED vars
    <2>1. UNCHANGED mapVars
      BY <1>3 DEF Open, Operate, OperateInterrupted, vars
    <2> QED
      BY <2>1, PackUnchanged
  <1> QED
    BY <1>2, <1>3 DEF Next, Step

\* validate_pack_ranges, the folders' first_pack_stream and
\* check_non_overlapping_ranges together: in a header that passes, however
\* long, each packed byte is read by one input of one folder at most, no input
\* reads the stored header, no packed stream is left unread; and a header is
\* refused for an overlap only if two packed streams do share a byte.
THEOREM PackedOwned == Spec => []PackedBytesHaveOneOwner
  <1>1. Init => PackInv
    BY PackInitInv DEF Init
  <1>2. IInv /\ PackInv /\ [Next]_vars => PackInv'
    BY NextPackInv
  <1>3. IInv /\ PackInv => PackedBytesHaveOneOwner
    BY PackInvOwners DEF IInv
  <1> QED
    BY <1>1, <1>2, <1>3, AlwaysIInv, PTL DEF Spec
-----------------------------------------------------------------------------
(***************************************************************************)
(* Verification and extraction of the archive that opened                  *)
(***************************************************************************)
\* What Archive::open returned, as far as its shape goes.
ShapeInv ==
  /\ Len(archive.folders) \in Nat
  /\ DOMAIN archive.folders = 1 .. Len(archive.folders)
  /\ archive.members \in Seq(FileRecord)
  /\ limits \in [entry : Nat, total : Nat, header : Nat]
  /\ decodes \in [1 .. Len(archive.folders) -> Nat]
  /\ got \in [1 .. Len(archive.members) -> Seq(Nat \X Nat)]

\* extract_entries_to has not started.
Fresh ==
  /\ folder = 0 /\ next = 1 /\ offset = 0 /\ end = 0 /\ cursor = 0 /\ delivered = 0
  /\ begun = << >> /\ finished = << >>
  /\ \A f \in DOMAIN decodes : decodes[f] = 0
  /\ \A m \in DOMAIN got : got[m] = << >>

StageInv ==
  /\ stage \in {"closed", "additional", "verify", "members", "chunks", "done"}
  /\ verified \in {"none", "ok"} \cup X!Errors
  /\ extracted \in {"none", "ok", "sink"} \cup X!Errors
  /\ stage # "done" => extracted = "none"
  /\ stage \in {"closed", "additional", "verify"} => Fresh
  /\ stage = "closed" => item = 1 /\ total = 0
  /\ item \in Nat \ {0}
  /\ total \in 0 .. limits.total

Running == stage \in {"members", "chunks"}

\* The loop has passed exactly the members before the next substream.
OrderInv ==
  Running =>
    \A j \in X!Streamed(archive.members) :
      j < item <=> X!Before(X!Place(archive.members[j]), <<folder, next>>)

\* Each folder is decoded when its first member comes up.
DecodesInv ==
  \A f \in DOMAIN decodes : decodes[f] <= 1 /\ (Running /\ f > folder => decodes[f] = 0)

\* The decoded folder and the position in it.
PositionInv ==
  /\ folder \in 0 .. Len(archive.folders)
  /\ next \in Nat \ {0}
  /\ offset \in Nat /\ cursor \in Nat /\ end \in Nat
  /\ folder # 0 =>
       LET f == archive.folders[folder] IN
       /\ next \in 1 .. Len(f.subs) + 1
       /\ offset <= cursor /\ cursor <= end /\ end <= f.actual
       /\ next <= Len(f.subs) => offset = X!SubStart(f, next)

\* The member whose bytes are being written.
ChunkInv ==
  stage = "chunks" =>
    LET f == archive.folders[folder] IN
    /\ item \in X!Streamed(archive.members)
    /\ X!Place(archive.members[item]) = <<folder, next>>
    /\ end = X!SubEnd(f, next, offset)
    /\ f.subs[next].size = Unknown => next = Len(f.subs)
    /\ end - offset <= limits.entry

\* How many bytes chunks came to.
Span(chunks) ==
  IF chunks = << >> THEN 0 ELSE chunks[Len(chunks)][2] - chunks[1][1]

Spans == [m \in DOMAIN got |-> Span(got[m])]

Written == SumFunctionOnSet(Spans, DOMAIN got)

\* The part of the decoded folder that may still be written.
Ahead ==
  IF folder = 0 THEN 0
  ELSE archive.folders[folder].actual - (IF stage = "chunks" THEN cursor ELSE offset)

\* What was written, to each member and in all.
WrittenInv ==
  /\ Running => \A m \in DOMAIN got :
                  m >= item => got[m] = << >> \/ (stage = "chunks" /\ m = item)
  /\ stage = "chunks" =>
       IF got[item] = << >> THEN cursor = offset
       ELSE got[item][1][1] = offset /\ got[item][Len(got[item])][2] = cursor
  /\ \A m \in DOMAIN got : Span(got[m]) \in 0 .. limits.entry
  /\ Written <= total
  /\ Running => Written + Ahead <= total

BoundInv ==
  ShapeInv /\ StageInv /\ OrderInv /\ DecodesInv /\ PositionInv /\ ChunkInv /\ WrittenInv

\* The sink's brackets.
BracketInv ==
  /\ begun \in Seq(Nat) /\ finished \in Seq(Nat)
  /\ X!SinkSeesBrackets
  /\ Running => \A i \in DOMAIN finished : finished[i] < item
  /\ stage = "members" => begun = finished
  /\ stage = "chunks" => begun = Append(finished, item)

RangeSizes == [m \in X!Streamed(archive.members) |-> X!RangeOf(m)[2] - X!RangeOf(m)[1]]

StreamedBefore == {m \in X!Streamed(archive.members) : m < item}

\* What was finished and counted.
CountInv ==
  /\ Running => /\ X!FinishedSet = {m \in X!Files : m < item}
                /\ delivered = SumFunctionOnSet(RangeSizes, StreamedBefore)
  /\ X!OkIsComplete

\* The iterator of verify yields the members in the order of the folders.
IteratorInv ==
  /\ stage # "closed" /\ archive.hasFiles =>
       /\ \A i \in DOMAIN archive.folders : \A k \in DOMAIN archive.folders[i].subs :
            X!IteratorPlace(i, k) = <<i, k>>
       /\ Cardinality(X!Streamed(archive.members)) = X!SumFunction(X!SubCounts)
  /\ stage = "verify" /\ ~ archive.hasFiles =>
       \A i \in DOMAIN archive.folders : i < item => archive.folders[i].subs = << >>
  /\ folder # 0 => archive.hasFiles

ServedInv == BracketInv /\ CountInv /\ IteratorInv /\ X!NoInternalError

Actuals == [i \in DOMAIN archive.folders |-> archive.folders[i].actual]

\* What the folders before folder i come to.
ActualBefore(i) == SumFunctionOnSet(Actuals, 1 .. i - 1)

\* verify finds nothing wrong with folder i, after those before it.
Passes(i) ==
  LET f == archive.folders[i] IN
  /\ X!FolderResult(f, limits.total - ActualBefore(i)) = "ok"
  /\ ActualBefore(i) + f.actual <= limits.total
  /\ ~ X!Mismatch(f.crc)
  /\ \A k \in DOMAIN f.subs : /\ ~ X!SubEnd(f, k, X!SubStart(f, k)) > f.actual
                              /\ ~ X!Mismatch(f.subs[k].crc)

\* A folder that extract_entry can decode as well.
Decodes(f) == X!FolderResult(f, limits.total) = "ok" /\ ~ X!Mismatch(f.crc)

\* verify accounts for every folder, extraction for those it has entered.
AgreeInv ==
  /\ stage \in {"closed", "additional", "verify"} => verified = "none"
  /\ stage = "verify" => /\ ActualBefore(item) <= total
                         /\ \A i \in DOMAIN archive.folders : i < item => Passes(i)
  /\ verified = "ok" => \A i \in DOMAIN archive.folders : Passes(i)
  /\ Running => total <= ActualBefore(folder + 1)
  /\ Running /\ folder # 0 => Decodes(archive.folders[folder])
  /\ X!OperationsAgree
-----------------------------------------------------------------------------
(***************************************************************************)
(* The archive that is open                                                *)
(***************************************************************************)
LEMMA UnknownInstance == X!Unknown = Unknown /\ X!Sizes = Sizes
  BY DEF X!Unknown, Unknown, X!Sizes, Sizes

\* The sizes of a folder.
LEMMA FolderFacts ==
  ASSUME NEW g, X!FolderOK(g)
  PROVE  /\ Len(g.subs) \in Nat /\ DOMAIN g.subs = 1 .. Len(g.subs)
         /\ g.actual \in Nat /\ g.root \in Sizes
         /\ g.damaged \in BOOLEAN /\ g.encrypted \in BOOLEAN
         /\ \A k \in 1 .. Len(g.subs) : /\ g.subs[k].size \in Sizes
                                        /\ g.subs[k].crc \in X!Verdicts
  <1> DEFINE R == [size : X!Sizes, crc : X!Verdicts]
             t == g.subs
  <1>1. t \in Seq(R)
    BY DEF X!FolderOK
  <1>2. ASSUME NEW e \in R PROVE e.size \in X!Sizes /\ e.crc \in X!Verdicts
    OBVIOUS
  <1> HIDE DEF R, t
  <1>3. Len(t) \in Nat /\ DOMAIN t = 1 .. Len(t) /\ \A k \in 1 .. Len(t) : t[k] \in R
    BY <1>1
  <1>4. \A k \in 1 .. Len(t) : t[k].size \in X!Sizes /\ t[k].crc \in X!Verdicts
    BY <1>2, <1>3
  <1>5. /\ Len(g.subs) \in Nat /\ DOMAIN g.subs = 1 .. Len(g.subs)
        /\ \A k \in 1 .. Len(g.subs) : /\ g.subs[k].size \in Sizes
                                       /\ g.subs[k].crc \in X!Verdicts
    BY <1>3, <1>4, UnknownInstance DEF t
  <1>6. g.actual \in Nat /\ g.root \in Sizes /\ g.damaged \in BOOLEAN /\ g.encrypted \in BOOLEAN
    BY UnknownInstance DEF X!FolderOK
  <1> QED
    BY <1>5, <1>6

\* The place of a member with a stream.
LEMMA MemberFacts ==
  ASSUME ShapeInv, X!OpenArchive(archive), NEW j \in X!Streamed(archive.members)
  PROVE  /\ archive.hasFiles
         /\ Len(archive.members) \in Nat
         /\ j \in 1 .. Len(archive.members) /\ j \in DOMAIN archive.members
         /\ archive.members[j].kind = "stream"
         /\ archive.members[j].folder \in 1 .. Len(archive.folders)
         /\ archive.members[j].sub \in
              1 .. Len(archive.folders[archive.members[j].folder].subs)
         /\ X!Place(archive.members[j]) = <<archive.members[j].folder, archive.members[j].sub>>
  <1>1. /\ DOMAIN archive.members = 1 .. Len(archive.members) /\ Len(archive.members) \in Nat
    BY DEF ShapeInv
  <1>2. j \in DOMAIN archive.members /\ archive.members[j].kind = "stream"
    BY DEF X!Streamed
  <1>3. archive.hasFiles
    BY <1>1, <1>2 DEF X!OpenArchive
  <1>4. X!Place(archive.members[j]) \in X!Substreams(archive.folders)
    BY <1>3 DEF X!OpenArchive, X!MembersCover
  <1>5. X!Place(archive.members[j]) = <<archive.members[j].folder, archive.members[j].sub>>
    BY DEF X!Place
  <1>6. PICK f \in DOMAIN archive.folders :
          \E k \in DOMAIN archive.folders[f].subs : X!Place(archive.members[j]) = <<f, k>>
    BY <1>4 DEF X!Substreams
  <1>7. PICK k \in DOMAIN archive.folders[f].subs : X!Place(archive.members[j]) = <<f, k>>
    BY <1>6
  <1>8. archive.members[j].folder = f /\ archive.members[j].sub = k
    BY <1>5, <1>7
  <1>9. f \in 1 .. Len(archive.folders) /\ X!FolderOK(archive.folders[f])
    BY DEF ShapeInv, X!OpenArchive
  <1>10. DOMAIN archive.folders[f].subs = 1 .. Len(archive.folders[f].subs)
    BY <1>9, FolderFacts
  <1> QED
    BY <1>1, <1>2, <1>3, <1>5, <1>7, <1>8, <1>9, <1>10

\* Members with a stream come in natural order.
LEMMA MemberOrder ==
  ASSUME ShapeInv, X!OpenArchive(archive),
         NEW i \in X!Streamed(archive.members), NEW j \in X!Streamed(archive.members), i < j
  PROVE  X!Before(X!Place(archive.members[i]), X!Place(archive.members[j]))
  <1>1. archive.hasFiles
    BY MemberFacts
  <1> QED
    BY <1>1 DEF X!OpenArchive, X!MembersCover

\* Every substream has a member, if there are files.
LEMMA SubstreamMember ==
  ASSUME ShapeInv, X!OpenArchive(archive), archive.hasFiles,
         NEW f \in 1 .. Len(archive.folders), NEW k \in 1 .. Len(archive.folders[f].subs)
  PROVE  \E i \in X!Streamed(archive.members) : X!Place(archive.members[i]) = <<f, k>>
  <1>1. f \in DOMAIN archive.folders /\ X!FolderOK(archive.folders[f])
    BY DEF ShapeInv, X!OpenArchive
  <1>2. k \in DOMAIN archive.folders[f].subs
    BY <1>1, FolderFacts
  <1>3. <<f, k>> \in X!Substreams(archive.folders)
    BY <1>1, <1>2 DEF X!Substreams
  <1> QED
    BY <1>3 DEF X!OpenArchive, X!MembersCover

LEMMA BeforeIs ==
  ASSUME NEW a, NEW b, NEW c, NEW d
  PROVE  X!Before(<<a, b>>, <<c, d>>) <=> a < c \/ (a = c /\ b < d)
  BY DEF X!Before
-----------------------------------------------------------------------------
(***************************************************************************)
(* Decoding a folder, by its results                                       *)
(***************************************************************************)
Results == {"ok"} \cup X!Errors

LEMMA DamageType ==
  ASSUME NEW g, NEW r
  PROVE  X!Damage(g, r) \in {"password", r}
  BY DEF X!Damage

LEMMA DecodeFacts ==
  ASSUME NEW g, X!FolderOK(g), NEW m \in Int
  PROVE  /\ X!DecodeResult(g, m) \in {"ok", "limit", "format", "password"}
         /\ X!DecodeResult(g, m) = "ok" => ~ g.damaged /\ g.actual <= m
  <1> DEFINE big == g.root # X!Unknown /\ g.root > m
  <1>1. g.actual \in Nat /\ g.damaged \in BOOLEAN
    BY FolderFacts
  <1>2. X!Damage(g, "format") \in {"password", "format"}
    BY DamageType
  <1>3. CASE big
    <2>1. ~ (~ g.damaged /\ g.actual <= m)
      BY <1>1, <1>3 DEF X!FolderOK
    <2>2. X!DecodeResult(g, m) \in {"limit"}
      BY <1>1, <1>3, <2>1 DEF X!DecodeResult
    <2> QED
      BY <2>2
  <1>4. CASE ~ big /\ g.damaged
    BY <1>2, <1>4 DEF X!DecodeResult
  <1>5. CASE ~ big /\ ~ g.damaged
    <2>1. g.actual > m <=> ~ (g.actual <= m)
      BY <1>1
    <2> QED
      BY <1>5, <2>1 DEF X!DecodeResult
  <1> QED
    BY <1>3, <1>4, <1>5

LEMMA MaximumType ==
  ASSUME NEW g, NEW r
  PROVE  X!MaximumResult(g, r) \in {"ok", "limit", "unsupported", "internal"}
  BY DEF X!MaximumResult

LEMMA AccountedFacts ==
  ASSUME NEW g, X!FolderOK(g), total \in Nat, limits.total \in Nat,
         \A r \in Int : X!MaximumOutput(g, r) \in Int
  PROVE  /\ X!AccountedResult(g) \in Results
         /\ X!AccountedResult(g) = "ok" =>
              /\ X!FolderResult(g, limits.total - total) = "ok"
              /\ total + g.actual <= limits.total
  <1> DEFINE d == X!FolderResult(g, limits.total - total)
  <1>1. d \in Results
    <2>1. X!MaximumOutput(g, limits.total - total) \in Int
      OBVIOUS
    <2>2. X!DecodeResult(g, X!MaximumOutput(g, limits.total - total)) \in Results
      BY <2>1, DecodeFacts DEF Results, X!Errors
    <2>3. X!MaximumResult(g, limits.total - total) \in Results
      BY MaximumType DEF Results, X!Errors
    <2> QED
      BY <2>2, <2>3 DEF X!FolderResult
  <1>2. X!AccountedResult(g) = IF d = "ok" /\ total + g.actual > limits.total THEN "limit" ELSE d
    BY DEF X!AccountedResult
  <1>3. g.actual \in Nat
    BY FolderFacts
  <1> HIDE DEF d
  <1>4. X!AccountedResult(g) \in Results
    BY <1>1, <1>2 DEF Results, X!Errors
  <1>5. X!AccountedResult(g) = "ok" => d = "ok" /\ total + g.actual <= limits.total
    BY <1>2, <1>3, SMTT(40)
  <1> QED
    BY <1>4, <1>5 DEF d

LEMMA AdditionalType ==
  ASSUME NEW g
  PROVE  X!AdditionalVerdict(g) \in {"ok", "checksum", "password", "unsupported", "format"}
  <1>1. X!Damage(g, "checksum") \in {"password", "checksum"}
    BY DamageType
  <1> QED
    BY <1>1 DEF X!AdditionalVerdict

LEMMA MembersVerdictType ==
  ASSUME NEW i
  PROVE  X!MembersVerdict(i) \in {"ok", "checksum", "password", "internal", "format"}
  <1>1. X!Damage(archive.folders[i], "checksum") \in {"password", "checksum"}
    BY DamageType
  <1> QED
    BY <1>1 DEF X!MembersVerdict

\* The values that folder_decode_maximum adds up.
PermittedSizes(g) ==
  [k \in DOMAIN g.subs |-> IF g.subs[k].size = Unknown THEN limits.entry ELSE g.subs[k].size]

LEMMA PermittedIs ==
  ASSUME NEW g, X!FolderOK(g), limits.entry \in Nat
  PROVE  /\ X!Permitted(g) = SumFunctionOnSet(PermittedSizes(g), 1 .. Len(g.subs))
         /\ X!Permitted(g) \in Nat
         /\ IsFiniteSet(1 .. Len(g.subs))
         /\ \A k \in 1 .. Len(g.subs) : PermittedSizes(g)[k] \in Nat
  <1> DEFINE p == PermittedSizes(g)
             n == Len(g.subs)
  <1>1. n \in Nat /\ DOMAIN g.subs = 1 .. n /\ \A k \in 1 .. n : g.subs[k].size \in Sizes
    BY FolderFacts
  <1>2. DOMAIN p = 1 .. n /\ \A k \in 1 .. n : p[k] \in Nat
    BY <1>1 DEF PermittedSizes, Sizes
  <1>3. X!Permitted(g) = X!SumFunction(p)
    BY UnknownInstance DEF X!Permitted, PermittedSizes
  <1>4. X!SumFunction(p) = X!SumFunctionOnSet(p, DOMAIN p)
    BY DEF X!SumFunction
  <1>5. X!SumFunctionOnSet(p, DOMAIN p) = SumFunctionOnSet(p, DOMAIN p)
    BY SumInstance
  <1>6. IsFiniteSet(1 .. n)
    BY <1>1, FS_Interval
  <1> HIDE DEF p, n
  <1>7. SumFunctionOnSet(p, 1 .. n) \in Nat
    BY <1>2, <1>6, SumNatural
  <1>8. X!Permitted(g) = SumFunctionOnSet(p, 1 .. n)
    BY <1>2, <1>3, <1>4, <1>5
  <1> QED
    BY <1>2, <1>6, <1>7, <1>8 DEF p, n

LEMMA MaximumOutputType ==
  ASSUME NEW g, X!FolderOK(g), limits.entry \in Nat, NEW r \in Int
  PROVE  X!MaximumOutput(g, r) \in Int /\ X!MaximumOutput(g, r) <= r
  <1>1. X!Permitted(g) \in Nat
    BY PermittedIs
  <1> QED
    BY <1>1 DEF X!MaximumOutput, X!Smaller
-----------------------------------------------------------------------------
(***************************************************************************)
(* Steps that preserve BoundInv                                            *)
(***************************************************************************)
LEMMA LimitTypes ==
  ASSUME ShapeInv
  PROVE  limits.entry \in Nat /\ limits.total \in Nat /\ limits.header \in Nat
  BY DEF ShapeInv

LEMMA FolderAt ==
  ASSUME ShapeInv, X!OpenArchive(archive), NEW i \in DOMAIN archive.folders
  PROVE  i \in 1 .. Len(archive.folders) /\ X!FolderOK(archive.folders[i])
  BY DEF ShapeInv, X!OpenArchive

\* Nothing of what was written or decoded has changed.
LEMMA WrittenFrame ==
  ASSUME got' = got
  PROVE  Written' = Written /\ Spans' = Spans
  BY DEF Written, Spans

LEMMA WrittenType ==
  ASSUME BoundInv
  PROVE  /\ Written \in Nat /\ total \in Nat /\ limits.total \in Nat /\ total <= limits.total
         /\ DOMAIN got = 1 .. Len(archive.members) /\ IsFiniteSet(DOMAIN got)
         /\ \A m \in DOMAIN got : Spans[m] \in Nat /\ Spans[m] = Span(got[m])
  <1>1. limits.entry \in Nat /\ limits.total \in Nat
    BY LimitTypes DEF BoundInv
  <1>2. DOMAIN got = 1 .. Len(archive.members) /\ Len(archive.members) \in Nat
    BY DEF BoundInv, ShapeInv
  <1>3. IsFiniteSet(DOMAIN got)
    BY <1>2, FS_Interval
  <1>4. \A m \in DOMAIN got : Spans[m] = Span(got[m])
    BY DEF Spans
  <1>5. \A m \in DOMAIN got : Span(got[m]) \in Nat
    BY <1>1 DEF BoundInv, WrittenInv
  <1>6. Written \in Nat
    BY <1>3, <1>4, <1>5, SumNatural DEF Written
  <1> QED
    BY <1>1, <1>2, <1>3, <1>4, <1>5, <1>6 DEF BoundInv, StageInv

\* Before extraction, only the loop of verify moves.
LEMMA VerifyGoesOn ==
  ASSUME BoundInv, stage \in {"additional", "verify"}, stage' \in {"additional", "verify"},
         item' \in Nat \ {0}, total' \in 0 .. limits.total, total <= total',
         UNCHANGED <<archive, limits, verified, extracted, folder, next, offset, end, cursor,
                     delivered, decodes, begun, got, finished>>
  PROVE  BoundInv'
  <1>1. ShapeInv'
    BY DEF BoundInv, ShapeInv
  <1>2. StageInv'
    BY DEF BoundInv, StageInv, Fresh
  <1>3. OrderInv' /\ ChunkInv'
    BY DEF OrderInv, ChunkInv, Running
  <1>4. DecodesInv'
    BY DEF BoundInv, DecodesInv, Running
  <1>5. PositionInv'
    BY DEF BoundInv, StageInv, Fresh, PositionInv
  <1>6. WrittenInv'
    <2>1. Written' = Written
      BY WrittenFrame
    <2>2. Written \in Nat /\ total \in Nat /\ limits.total \in Nat
      BY WrittenType
    <2> QED
      BY <2>1, <2>2 DEF BoundInv, WrittenInv, Running
  <1> QED
    BY <1>1, <1>2, <1>3, <1>4, <1>5, <1>6 DEF BoundInv

\* verify returns and extraction starts.
LEMMA VerifyReturnsBound ==
  ASSUME BoundInv, OpenInv, stage \in {"additional", "verify"}, NEW r \in Results,
         X!VerifyReturns(r)
  PROVE  BoundInv'
  <1>1. /\ verified' = r /\ stage' = "members" /\ item' = 1 /\ total' = 0
        /\ UNCHANGED <<archive, limits, extracted, folder, next, offset, end, cursor,
                       delivered, decodes, begun, got, finished>>
    BY DEF X!VerifyReturns, X!loopVars, X!sinkVars
  <1>2. X!OpenArchive(archive) /\ ShapeInv /\ Fresh /\ extracted = "none"
    BY DEF OpenInv, BoundInv, StageInv
  <1>3. ShapeInv'
    BY <1>1, <1>2 DEF ShapeInv
  <1>4. StageInv'
    <2>1. limits.total \in Nat
      BY <1>2, LimitTypes
    <2>2. verified' \in {"none", "ok"} \cup X!Errors
      BY <1>1 DEF Results
    <2> QED
      BY <1>1, <1>2, <2>1, <2>2 DEF BoundInv, StageInv
  <1>5. OrderInv'
    <2> SUFFICES ASSUME NEW j \in X!Streamed(archive.members)
                 PROVE  ~ j < 1 /\ ~ X!Before(X!Place(archive.members[j]), <<0, 1>>)
      BY <1>1, <1>2 DEF OrderInv, Fresh
    <2>1. /\ j \in 1 .. Len(archive.members) /\ Len(archive.members) \in Nat
          /\ archive.members[j].folder \in 1 .. Len(archive.folders)
          /\ X!Place(archive.members[j]) = <<archive.members[j].folder, archive.members[j].sub>>
      BY <1>2, MemberFacts
    <2> QED
      BY <2>1, BeforeIs
  <1>6. DecodesInv'
    BY <1>1, <1>2 DEF DecodesInv, Fresh
  <1>7. PositionInv'
    BY <1>1 DEF BoundInv, PositionInv
  <1>8. ChunkInv'
    BY <1>1 DEF ChunkInv
  <1>9. WrittenInv'
    <2>1. \A m \in DOMAIN got : got[m] = << >>
      BY <1>2 DEF Fresh
    <2>2. Written = 0
      <3>1. \A m \in DOMAIN got : Spans[m] = 0
        BY <2>1 DEF Spans, Span
      <3> QED
        BY <3>1, WrittenType, SumZero DEF Written
    <2>3. Written' = 0
      BY <1>1, <2>2, WrittenFrame
    <2>4. Ahead' = 0
      BY <1>1, <1>2 DEF Ahead, Fresh
    <2> QED
      BY <1>1, <2>1, <2>3, <2>4 DEF BoundInv, WrittenInv
  <1> QED
    BY <1>3, <1>4, <1>5, <1>6, <1>7, <1>8, <1>9 DEF BoundInv

\* extract_entries_to returns.
LEMMA ReturnBound ==
  ASSUME BoundInv, Running, NEW r \in Results \cup {"sink"}, extracted' = r, stage' = "done",
         UNCHANGED <<archive, limits, verified, item, total, folder, next, offset, end, cursor,
                     decodes, got>>
  PROVE  BoundInv'
  <1>1. ShapeInv'
    BY DEF BoundInv, ShapeInv
  <1>2. StageInv'
    <2>1. extracted' \in {"none", "ok", "sink"} \cup X!Errors
      BY DEF Results
    <2> QED
      BY <2>1 DEF BoundInv, StageInv
  <1>3. OrderInv' /\ ChunkInv'
    BY DEF OrderInv, ChunkInv, Running
  <1>4. DecodesInv'
    BY DEF BoundInv, DecodesInv, Running
  <1>5. PositionInv'
    BY DEF BoundInv, PositionInv
  <1>6. WrittenInv'
    BY WrittenFrame DEF BoundInv, WrittenInv, Running
  <1> QED
    BY <1>1, <1>2, <1>3, <1>4, <1>5, <1>6 DEF BoundInv

LEMMA VerifyAdditionalBound ==
  ASSUME BoundInv, OpenInv, X!VerifyAdditional
  PROVE  BoundInv'
  <1> DEFINE f == archive.additional[item]
             m == X!Smaller(limits.header - total, limits.total - total)
             decoded == X!DecodeResult(f, m)
             verdict == IF decoded = "ok" THEN X!AdditionalVerdict(f) ELSE decoded
  <1>1. stage = "additional" /\ item \in DOMAIN archive.additional
    BY DEF X!VerifyAdditional
  <1>2. X!OpenArchive(archive) /\ X!FolderOK(f)
    BY <1>1 DEF OpenInv, X!OpenArchive
  <1>3. total \in Nat /\ limits.total \in Nat /\ limits.header \in Nat /\ item \in Nat \ {0}
        /\ f.actual \in Nat
    BY <1>2, WrittenType, LimitTypes, FolderFacts DEF BoundInv, StageInv
  <1>4. m \in Int /\ m <= limits.total - total
    BY <1>3 DEF X!Smaller
  <1> HIDE DEF m
  <1>5. /\ decoded \in {"ok", "limit", "format", "password"}
        /\ decoded = "ok" => f.actual <= m
    BY <1>2, <1>4, DecodeFacts
  <1>6. verdict \in Results /\ verdict # "internal"
    BY <1>5, AdditionalType DEF Results, X!Errors
  <1>7. CASE verdict = "ok" /\ total' = total + f.actual /\ item' = item + 1
             /\ UNCHANGED <<archive, limits, stage, verified, extracted, X!loopVars, X!sinkVars>>
    <2>1. decoded = "ok"
      BY <1>7
    <2>2. total' \in 0 .. limits.total /\ total <= total' /\ item' \in Nat \ {0}
      BY <1>3, <1>4, <1>5, <1>7, <2>1
    <2>3. stage' \in {"additional", "verify"}
      BY <1>1, <1>7
    <2>4. UNCHANGED <<archive, limits, verified, extracted, folder, next, offset, end, cursor,
                      delivered, decodes, begun, got, finished>>
      BY <1>7 DEF X!loopVars, X!sinkVars
    <2> QED
      BY <1>1, <2>2, <2>3, <2>4, VerifyGoesOn
  <1>8. CASE X!VerifyReturns(verdict)
    BY <1>1, <1>6, <1>8, VerifyReturnsBound
  <1> QED
    BY <1>7, <1>8 DEF X!VerifyAdditional, m

LEMMA AdditionalDoneBound ==
  ASSUME BoundInv, X!AdditionalDone
  PROVE  BoundInv'
  <1>1. /\ stage = "additional" /\ stage' = "verify" /\ item' = 1 /\ total' = total
        /\ UNCHANGED <<archive, limits, verified, extracted, folder, next, offset, end, cursor,
                       delivered, decodes, begun, got, finished>>
    BY DEF X!AdditionalDone, X!loopVars, X!sinkVars
  <1>2. total' \in 0 .. limits.total /\ total <= total'
    BY <1>1, WrittenType
  <1> QED
    BY <1>1, <1>2, VerifyGoesOn

LEMMA VerifyFolderBound ==
  ASSUME BoundInv, OpenInv, X!VerifyFolder
  PROVE  BoundInv'
  <1> DEFINE f == archive.folders[item]
             decoded == X!AccountedResult(f)
             verdict == IF decoded = "ok" THEN X!MembersVerdict(item) ELSE decoded
  <1>1. stage = "verify" /\ item \in DOMAIN archive.folders
    BY DEF X!VerifyFolder
  <1>2. X!FolderOK(f)
    BY <1>1, FolderAt DEF OpenInv, BoundInv
  <1>3. /\ total \in Nat /\ limits.total \in Nat /\ limits.entry \in Nat /\ item \in Nat \ {0}
        /\ f.actual \in Nat
    BY <1>2, WrittenType, LimitTypes, FolderFacts DEF BoundInv, StageInv
  <1>4. decoded \in Results /\ (decoded = "ok" => total + f.actual <= limits.total)
    BY <1>2, <1>3, AccountedFacts, MaximumOutputType
  <1>5. verdict \in Results
    BY <1>4, MembersVerdictType DEF Results, X!Errors
  <1>6. CASE verdict = "ok" /\ total' = total + f.actual /\ item' = item + 1
             /\ UNCHANGED <<archive, limits, stage, verified, extracted, X!loopVars, X!sinkVars>>
    <2>1. decoded = "ok"
      BY <1>6
    <2>2. total' \in 0 .. limits.total /\ total <= total' /\ item' \in Nat \ {0}
      BY <1>3, <1>4, <1>6, <2>1
    <2>3. stage' \in {"additional", "verify"}
      BY <1>1, <1>6
    <2>4. UNCHANGED <<archive, limits, verified, extracted, folder, next, offset, end, cursor,
                      delivered, decodes, begun, got, finished>>
      BY <1>6 DEF X!loopVars, X!sinkVars
    <2> QED
      BY <1>1, <2>2, <2>3, <2>4, VerifyGoesOn
  <1>7. CASE X!VerifyReturns(verdict)
    BY <1>1, <1>5, <1>7, VerifyReturnsBound
  <1> QED
    BY <1>6, <1>7 DEF X!VerifyFolder

LEMMA VerifyDoneBound ==
  ASSUME BoundInv, OpenInv, X!VerifyDone
  PROVE  BoundInv'
  <1>1. stage = "verify"
    BY DEF X!VerifyDone
  <1>2. PICK r \in Results : X!VerifyReturns(r)
    BY DEF X!VerifyDone, Results, X!Errors
  <1> QED
    BY <1>1, <1>2, VerifyReturnsBound

\* The member under the loop of extract_entries_to.
LEMMA AtMember ==
  ASSUME BoundInv, OpenInv, stage = "members", item \in DOMAIN archive.members,
         X!Member.kind = "stream"
  PROVE  /\ item \in X!Streamed(archive.members) /\ item \in 1 .. Len(archive.members)
         /\ X!Member = archive.members[item]
         /\ X!Member.folder \in 1 .. Len(archive.folders)
         /\ X!Current = archive.folders[X!Member.folder] /\ X!FolderOK(X!Current)
         /\ X!Member.sub \in 1 .. Len(X!Current.subs)
         /\ X!Place(archive.members[item]) = <<X!Member.folder, X!Member.sub>>
         /\ ~ X!Before(<<X!Member.folder, X!Member.sub>>, <<folder, next>>)
  <1>1. X!Member = archive.members[item] /\ X!Current = archive.folders[X!Member.folder]
    BY DEF X!Member, X!Current
  <1>2. item \in X!Streamed(archive.members)
    BY <1>1 DEF X!Streamed
  <1>3. X!OpenArchive(archive) /\ ShapeInv
    BY DEF OpenInv, BoundInv
  <1>4. /\ item \in 1 .. Len(archive.members)
        /\ X!Member.folder \in 1 .. Len(archive.folders)
        /\ X!Member.sub \in 1 .. Len(X!Current.subs)
        /\ X!Place(archive.members[item]) = <<X!Member.folder, X!Member.sub>>
    BY <1>1, <1>2, <1>3, MemberFacts
  <1>5. X!FolderOK(X!Current)
    BY <1>1, <1>3, <1>4 DEF X!OpenArchive, ShapeInv
  <1>6. item \in Nat
    BY DEF BoundInv, StageInv
  <1>7. ~ X!Before(X!Place(archive.members[item]), <<folder, next>>)
    BY <1>2, <1>6 DEF BoundInv, OrderInv, Running
  <1> QED
    BY <1>1, <1>2, <1>4, <1>5, <1>7

\* The loop moves past a member without a stream.
LEMMA MemberPassed ==
  ASSUME BoundInv, OpenInv, stage = "members", item \in DOMAIN archive.members,
         item \notin X!Streamed(archive.members), item' = item + 1,
         UNCHANGED <<archive, limits, stage, verified, extracted, total, folder, next, offset,
                     end, cursor, decodes, got>>
  PROVE  BoundInv'
  <1>1. item \in Nat \ {0} /\ X!OpenArchive(archive) /\ ShapeInv
    BY DEF BoundInv, StageInv, OpenInv
  <1>2. ShapeInv'
    BY <1>1 DEF ShapeInv
  <1>3. StageInv'
    BY <1>1 DEF BoundInv, StageInv
  <1>4. OrderInv'
    <2> SUFFICES ASSUME NEW j \in X!Streamed(archive.members)
                 PROVE  j < item + 1 <=> X!Before(X!Place(archive.members[j]), <<folder, next>>)
      BY DEF OrderInv
    <2>1. j \in 1 .. Len(archive.members) /\ Len(archive.members) \in Nat
      BY <1>1, MemberFacts
    <2>2. j < item + 1 <=> j < item
      BY <1>1, <2>1
    <2> QED
      BY <2>2 DEF BoundInv, OrderInv, Running
  <1>5. DecodesInv'
    BY DEF BoundInv, DecodesInv, Running
  <1>6. PositionInv'
    BY DEF BoundInv, PositionInv
  <1>7. ChunkInv'
    BY DEF ChunkInv
  <1>8. WrittenInv'
    <2>1. Written' = Written /\ Ahead' = Ahead
      BY WrittenFrame DEF Ahead
    <2>2. \A m \in DOMAIN got : m >= item + 1 => m >= item
      BY <1>1, WrittenType DEF ShapeInv
    <2>3. \A m \in DOMAIN got : m >= item => got[m] = << >>
      BY DEF BoundInv, WrittenInv, Running
    <2> QED
      BY <2>1, <2>2, <2>3 DEF BoundInv, WrittenInv, Running
  <1> QED
    BY <1>2, <1>3, <1>4, <1>5, <1>6, <1>7, <1>8 DEF BoundInv

LEMMA SkipMemberBound ==
  ASSUME BoundInv, OpenInv, X!SkipMember
  PROVE  BoundInv'
  <1>1. /\ stage = "members" /\ item \in DOMAIN archive.members /\ item' = item + 1
        /\ X!Member.kind \in {"dir", "anti"}
        /\ UNCHANGED <<archive, limits, stage, verified, extracted, total, folder, next, offset,
                       end, cursor, decodes, got>>
    BY DEF X!SkipMember, X!loopVars, X!sinkVars
  <1>2. item \notin X!Streamed(archive.members)
    BY <1>1 DEF X!Streamed, X!Member
  <1> QED
    BY <1>1, <1>2, MemberPassed

LEMMA EmptyFileBound ==
  ASSUME BoundInv, OpenInv, X!EmptyFile
  PROVE  BoundInv'
  <1>1. /\ stage = "members" /\ item \in DOMAIN archive.members
        /\ X!Member.kind = "empty"
        /\ UNCHANGED <<total, folder, next, offset, end, cursor, decodes, got>>
    BY DEF X!EmptyFile, X!loopVars
  <1>2. item \notin X!Streamed(archive.members)
    BY <1>1 DEF X!Streamed, X!Member
  <1>3. CASE item' = item + 1 /\ UNCHANGED <<archive, limits, stage, verified, extracted>>
    BY <1>1, <1>2, <1>3, MemberPassed
  <1>4. CASE X!Return("sink")
    BY <1>1, <1>4, ReturnBound DEF X!Return, Running
  <1> QED
    BY <1>3, <1>4 DEF X!EmptyFile

\* The folder that the loop enters lies behind the one it leaves.
LEMMA EntersLater ==
  ASSUME BoundInv, OpenInv, stage = "members", item \in DOMAIN archive.members,
         X!Member.kind = "stream", folder # X!Member.folder
  PROVE  folder < X!Member.folder
  <1>1. /\ X!Member.folder \in 1 .. Len(archive.folders) /\ folder \in 0 .. Len(archive.folders)
        /\ Len(archive.folders) \in Nat
        /\ ~ X!Before(<<X!Member.folder, X!Member.sub>>, <<folder, next>>)
    BY AtMember DEF BoundInv, PositionInv, ShapeInv
  <1>2. ~ X!Member.folder < folder
    BY <1>1, BeforeIs
  <1> QED
    BY <1>1, <1>2

\* A folder starts at its first byte.
LEMMA FirstStart ==
  ASSUME NEW g
  PROVE  X!SubStart(g, 1) = 0
  <1>1. X!SubStart(g, 1) = X!SumFunctionOnSet([j \in DOMAIN g.subs |-> g.subs[j].size], 1 .. 0)
    BY DEF X!SubStart, X!Offset
  <1>2. 1 .. 0 = {}
    OBVIOUS
  <1> QED
    BY <1>1, <1>2, SumInstance, SumEmpty

LEMMA EnterFolderBound ==
  ASSUME BoundInv, OpenInv, X!EnterFolder
  PROVE  BoundInv'
  <1> DEFINE F == X!Member.folder
             g == X!Current
             decoded == X!AccountedResult(g)
             verdict == IF X!LeftUnmapped THEN "internal"
                        ELSE IF decoded = "ok" /\ X!Mismatch(g.crc)
                             THEN X!Damage(g, "checksum")
                        ELSE decoded
  <1>1. /\ stage = "members" /\ item \in DOMAIN archive.members
        /\ X!Member.kind = "stream" /\ folder # F
        /\ UNCHANGED <<begun, got, finished>>
    BY DEF X!EnterFolder, X!sinkVars
  <1>2. /\ F \in 1 .. Len(archive.folders) /\ g = archive.folders[F] /\ X!FolderOK(g)
        /\ item \in X!Streamed(archive.members) /\ item \in Nat \ {0}
        /\ X!Place(archive.members[item]) = <<F, X!Member.sub>>
        /\ X!Member.sub \in 1 .. Len(g.subs)
    BY <1>1, AtMember DEF BoundInv, StageInv
  <1>3. folder < F
    BY <1>1, EntersLater
  <1>4. ShapeInv /\ X!OpenArchive(archive) /\ Len(archive.folders) \in Nat
    BY <1>1 DEF BoundInv, OpenInv, ShapeInv
  <1>5. /\ total \in Nat /\ limits.total \in Nat /\ limits.entry \in Nat
        /\ g.actual \in Nat /\ Len(g.subs) \in Nat
    BY <1>2, <1>4, WrittenType, LimitTypes, FolderFacts
  <1>6. decoded \in Results /\ (decoded = "ok" => total + g.actual <= limits.total)
    BY <1>2, <1>5, AccountedFacts, MaximumOutputType
  <1>7. X!Damage(g, "checksum") \in {"password", "checksum"}
    BY DamageType
  <1>8. verdict \in Results /\ (verdict = "ok" => decoded = "ok")
    BY <1>6, <1>7 DEF Results, X!Errors
  <1> HIDE DEF verdict, decoded
  <1>9. CASE /\ verdict = "ok" /\ total' = total + g.actual
             /\ decodes' = [decodes EXCEPT ![F] = @ + 1]
             /\ folder' = F /\ next' = 1 /\ offset' = 0 /\ end' = 0 /\ cursor' = 0
             /\ UNCHANGED <<archive, limits, stage, verified, extracted, item, delivered>>
    <2> HIDE DEF F, g
    <2>1. decodes \in [1 .. Len(archive.folders) -> Nat]
      BY <1>4 DEF ShapeInv
    <2>2. /\ decodes' \in [1 .. Len(archive.folders) -> Nat]
          /\ decodes'[F] = decodes[F] + 1
          /\ \A f \in 1 .. Len(archive.folders) : f # F => decodes'[f] = decodes[f]
      BY <1>2, <1>9, <2>1
    <2>3. ShapeInv'
      BY <1>1, <1>4, <1>9, <2>2 DEF ShapeInv
    <2>4. StageInv'
      <3>1. total' \in 0 .. limits.total
        BY <1>5, <1>6, <1>8, <1>9
      <3> QED
        BY <1>1, <1>9, <3>1 DEF BoundInv, StageInv
    <2>5. OrderInv'
      <3> SUFFICES ASSUME NEW j \in X!Streamed(archive.members)
                   PROVE  j < item <=> X!Before(X!Place(archive.members[j]), <<F, 1>>)
        BY <1>9 DEF OrderInv
      <3> DEFINE a == archive.members[j].folder
                 b == archive.members[j].sub
      <3>1. /\ j \in Nat /\ a \in 1 .. Len(archive.folders)
            /\ b \in 1 .. Len(archive.folders[a].subs)
            /\ X!Place(archive.members[j]) = <<a, b>>
        BY <1>4, MemberFacts
      <3>2. b \in Nat \ {0} /\ a \in Nat
        <4>1. X!FolderOK(archive.folders[a])
          BY <1>4, <3>1 DEF X!OpenArchive, ShapeInv
        <4>2. Len(archive.folders[a].subs) \in Nat
          BY <4>1, FolderFacts
        <4> QED
          BY <3>1, <4>2
      <3>3. j < item <=> X!Before(<<a, b>>, <<folder, next>>)
        BY <1>1, <3>1 DEF BoundInv, OrderInv, Running
      <3>4. next \in Nat /\ folder \in Nat /\ F \in Nat
        BY <1>2, <1>4 DEF BoundInv, PositionInv
      <3>5. j < item => a < F
        BY <1>3, <3>2, <3>3, <3>4, BeforeIs
      <3>6. a < F => j < item
        <4> SUFFICES ASSUME ~ j < item PROVE ~ a < F
          OBVIOUS
        <4>1. CASE j = item
          BY <1>2, <3>1, <3>4, <4>1
        <4>2. CASE item < j
          <5>1. X!Before(<<F, X!Member.sub>>, <<a, b>>)
            BY <1>2, <1>4, <3>1, <4>2, MemberOrder
          <5> QED
            BY <3>2, <3>4, <5>1, BeforeIs
        <4> QED
          BY <1>2, <3>1, <4>1, <4>2
      <3>7. X!Before(<<a, b>>, <<F, 1>>) <=> a < F
        BY <3>2, <3>4, BeforeIs
      <3> QED
        BY <3>1, <3>5, <3>6, <3>7
    <2>6. DecodesInv'
      <3>1. \A f \in 1 .. Len(archive.folders) :
              decodes[f] <= 1 /\ (f > folder => decodes[f] = 0)
        BY <1>1, <2>1 DEF BoundInv, DecodesInv, Running
      <3>2. decodes[F] = 0
        BY <1>2, <1>3, <1>4, <3>1 DEF BoundInv, PositionInv
      <3>3. \A f \in 1 .. Len(archive.folders) : f > F => f > folder /\ f # F
        BY <1>2, <1>3, <1>4 DEF BoundInv, PositionInv
      <3>4. \A f \in 1 .. Len(archive.folders) :
              decodes'[f] <= 1 /\ (f > F => decodes'[f] = 0)
        BY <2>2, <3>1, <3>2, <3>3
      <3>5. DOMAIN decodes' = 1 .. Len(archive.folders)
        BY <2>2
      <3> QED
        BY <1>9, <3>4, <3>5 DEF DecodesInv
    <2>7. PositionInv'
      <3>1. X!SubStart(g, 1) = 0
        BY FirstStart
      <3>2. archive'.folders[folder'] = g
        BY <1>2, <1>9
      <3> QED
        BY <1>2, <1>4, <1>5, <1>9, <3>1, <3>2, SMTT(40) DEF PositionInv
    <2>8. ChunkInv'
      BY <1>1, <1>9 DEF ChunkInv
    <2>9. WrittenInv'
      <3>1. Written' = Written /\ Written \in Nat /\ Written <= total
        BY <1>1, WrittenFrame, WrittenType DEF BoundInv, WrittenInv
      <3>2. Ahead' = g.actual
        <4>1. Ahead' = g.actual - 0
          BY <1>1, <1>2, <1>3, <1>9 DEF Ahead
        <4> QED
          BY <1>5, <4>1
      <3>3. Written' <= total' /\ Written' + Ahead' <= total'
        BY <1>5, <1>9, <3>1, <3>2
      <3>4. \A m \in DOMAIN got : m >= item => got[m] = << >>
        BY <1>1 DEF BoundInv, WrittenInv, Running
      <3>5. \A m \in DOMAIN got : Span(got[m]) \in 0 .. limits.entry
        BY DEF BoundInv, WrittenInv
      <3> QED
        BY <1>1, <1>9, <3>3, <3>4, <3>5 DEF WrittenInv
    <2> QED
      BY <2>3, <2>4, <2>5, <2>6, <2>7, <2>8, <2>9 DEF BoundInv
  <1>10. CASE X!Return(verdict) /\ UNCHANGED <<total, X!loopVars>>
    BY <1>1, <1>8, <1>10, ReturnBound DEF X!Return, Running, X!loopVars
  <1> QED
    BY <1>9, <1>10 DEF X!EnterFolder, verdict, decoded

LEMMA RangeResultType ==
  ASSUME TRUE
  PROVE  X!RangeResult \in {"ok", "internal", "unsupported", "format", "limit"}
  BY DEF X!RangeResult

\* What the checks on a member's range leave.
LEMMA RangeOk ==
  ASSUME BoundInv, OpenInv, stage = "members", item \in DOMAIN archive.members,
         X!Member.kind = "stream", folder = X!Member.folder, X!RangeResult = "ok"
  PROVE  LET g == archive.folders[folder]
             stop == X!SubEnd(g, next, offset) IN
         /\ folder \in 1 .. Len(archive.folders) /\ g = X!Current /\ X!FolderOK(g)
         /\ X!Member.sub = next /\ next \in 1 .. Len(g.subs)
         /\ g.subs[next].size = Unknown => next = Len(g.subs)
         /\ stop \in Nat /\ offset \in Nat /\ g.actual \in Nat
         /\ offset <= stop /\ stop <= g.actual /\ stop - offset <= limits.entry
  <1> DEFINE g == archive.folders[folder]
             stop == X!SubEnd(g, next, offset)
  <1>1. /\ X!Member.folder \in 1 .. Len(archive.folders) /\ X!FolderOK(g) /\ g = X!Current
        /\ X!Member.sub \in 1 .. Len(g.subs)
    BY AtMember
  <1>2. X!Member.sub = next
    BY DEF X!RangeResult
  <1>3. g.subs[next].size = Unknown => next = Len(g.subs)
    BY <1>1, UnknownInstance DEF X!RangeResult
  <1>4. ~ stop > g.actual /\ ~ stop - offset > limits.entry
    BY <1>1 DEF X!RangeResult
  <1>5. /\ g.subs[next].size \in Sizes /\ g.actual \in Nat /\ Len(g.subs) \in Nat
        /\ limits.entry \in Nat
    BY <1>1, <1>2, FolderFacts, LimitTypes DEF BoundInv
  <1>6. offset \in Nat /\ offset <= cursor /\ cursor <= end /\ end <= g.actual
        /\ cursor \in Nat /\ end \in Nat
    <2>1. folder # 0
      BY <1>1
    <2> QED
      BY <2>1 DEF BoundInv, PositionInv
  <1>7. stop = IF g.subs[next].size = Unknown THEN g.actual ELSE offset + g.subs[next].size
    BY UnknownInstance DEF X!SubEnd
  <1> HIDE DEF stop, g
  <1>8. stop \in Nat /\ offset <= stop
    BY <1>5, <1>6, <1>7, SMTT(40) DEF Sizes
  <1>9. /\ folder \in 1 .. Len(archive.folders) /\ g = X!Current /\ X!FolderOK(g)
        /\ X!Member.sub = next /\ next \in 1 .. Len(g.subs)
        /\ g.subs[next].size = Unknown => next = Len(g.subs)
        /\ stop \in Nat /\ offset \in Nat /\ g.actual \in Nat
        /\ offset <= stop /\ stop <= g.actual /\ stop - offset <= limits.entry
    BY <1>1, <1>2, <1>3, <1>4, <1>5, <1>6, <1>8
  <1> QED
    BY <1>9 DEF stop, g

LEMMA BeginMemberBound ==
  ASSUME BoundInv, OpenInv, X!BeginMember
  PROVE  BoundInv'
  <1>1. /\ stage = "members" /\ item \in DOMAIN archive.members
        /\ X!Member.kind = "stream" /\ folder = X!Member.folder
        /\ UNCHANGED <<total, folder, next, offset, delivered, decodes, got, finished>>
    BY DEF X!BeginMember
  <1>2. CASE /\ X!RangeResult = "ok"
             /\ end' = X!SubEnd(X!Current, next, offset) /\ cursor' = offset
             /\ stage' = "chunks"
             /\ UNCHANGED <<archive, limits, verified, extracted, item>>
    <2> DEFINE g == archive.folders[folder]
               stop == X!SubEnd(g, next, offset)
    <2>1. /\ folder \in 1 .. Len(archive.folders) /\ g = X!Current /\ X!FolderOK(g)
          /\ X!Member.sub = next /\ next \in 1 .. Len(g.subs)
          /\ g.subs[next].size = Unknown => next = Len(g.subs)
          /\ stop \in Nat /\ offset \in Nat /\ g.actual \in Nat
          /\ offset <= stop /\ stop <= g.actual /\ stop - offset <= limits.entry
      BY <1>1, <1>2, RangeOk
    <2>2. end' = stop
      BY <1>2, <2>1
    <2>3. /\ item \in X!Streamed(archive.members)
          /\ X!Place(archive.members[item]) = <<folder, next>>
      BY <1>1, <2>1, AtMember
    <2> HIDE DEF stop, g
    <2>4. ShapeInv'
      BY <1>1, <1>2 DEF BoundInv, ShapeInv
    <2>5. StageInv'
      BY <1>1, <1>2 DEF BoundInv, StageInv
    <2>6. OrderInv'
      BY <1>1, <1>2 DEF BoundInv, OrderInv, Running
    <2>7. DecodesInv'
      BY <1>1, <1>2 DEF BoundInv, DecodesInv, Running
    <2>8. PositionInv'
      <3>1. /\ folder # 0 /\ archive'.folders[folder'] = g /\ archive'.folders = archive.folders
            /\ archive.folders[folder] = g
        BY <1>1, <1>2, <2>1 DEF g
      <3>2. /\ folder \in 0 .. Len(archive.folders) /\ next \in Nat \ {0}
            /\ next \in 1 .. Len(g.subs) + 1
            /\ next <= Len(g.subs) => offset = X!SubStart(g, next)
        BY <3>1 DEF BoundInv, PositionInv
      <3> QED
        BY <1>1, <1>2, <2>1, <2>2, <3>1, <3>2 DEF PositionInv
    <2>9. ChunkInv'
      <3>1. archive'.folders[folder'] = g /\ limits' = limits /\ archive' = archive
        BY <1>1, <1>2 DEF g
      <3>2. end' = X!SubEnd(g, next, offset)
        BY <2>2 DEF stop
      <3>3. end' - offset <= limits.entry
        BY <2>1, <2>2
      <3> QED
        BY <1>1, <1>2, <2>1, <2>3, <3>1, <3>2, <3>3 DEF ChunkInv
    <2>10. WrittenInv'
      <3>1. Written' = Written
        BY <1>1, WrittenFrame
      <3>2. Ahead' = Ahead
        BY <1>1, <1>2 DEF Ahead
      <3>3. \A m \in DOMAIN got : m >= item => got[m] = << >>
        BY <1>1 DEF BoundInv, WrittenInv, Running
      <3>4. got[item] = << >>
        <4>1. item \in DOMAIN got /\ item \in Nat
          BY <1>1, WrittenType DEF BoundInv, ShapeInv, StageInv
        <4> QED
          BY <3>3, <4>1
      <3>5. /\ \A m \in DOMAIN got : Span(got[m]) \in 0 .. limits.entry
            /\ Written <= total /\ Written + Ahead <= total
        BY <1>1 DEF BoundInv, WrittenInv, Running
      <3> QED
        BY <1>1, <1>2, <3>1, <3>2, <3>3, <3>4, <3>5 DEF WrittenInv
    <2> QED
      BY <2>4, <2>5, <2>6, <2>7, <2>8, <2>9, <2>10 DEF BoundInv
  <1>3. CASE X!Return("sink") /\ UNCHANGED <<end, cursor>>
    BY <1>1, <1>3, ReturnBound DEF X!Return, Running
  <1>4. CASE X!Return(X!RangeResult) /\ UNCHANGED <<end, cursor>>
    <2>1. X!RangeResult \in Results
      BY RangeResultType DEF Results, X!Errors
    <2> QED
      BY <1>1, <1>4, <2>1, ReturnBound DEF X!Return, Running
  <1> QED
    BY <1>2, <1>3, <1>4 DEF X!BeginMember

\* The facts of a member being written.
LEMMA InChunks ==
  ASSUME BoundInv, OpenInv, stage = "chunks"
  PROVE  LET g == archive.folders[folder] IN
         /\ item \in X!Streamed(archive.members) /\ item \in DOMAIN got /\ item \in Nat \ {0}
         /\ item \in 1 .. Len(archive.members) /\ item \in DOMAIN archive.members
         /\ X!Place(archive.members[item]) = <<folder, next>>
         /\ X!Member = archive.members[item] /\ X!Current = g
         /\ folder \in 1 .. Len(archive.folders) /\ X!FolderOK(g)
         /\ next \in 1 .. Len(g.subs) /\ Len(g.subs) \in Nat
         /\ offset \in Nat /\ cursor \in Nat /\ end \in Nat /\ g.actual \in Nat
         /\ offset <= cursor /\ cursor <= end /\ end <= g.actual
         /\ end = X!SubEnd(g, next, offset) /\ offset = X!SubStart(g, next)
         /\ g.subs[next].size = Unknown => next = Len(g.subs)
         /\ end - offset <= limits.entry
  <1> DEFINE g == archive.folders[folder]
  <1>1. /\ item \in X!Streamed(archive.members)
        /\ X!Place(archive.members[item]) = <<folder, next>>
        /\ end = X!SubEnd(g, next, offset)
        /\ g.subs[next].size = Unknown => next = Len(g.subs)
        /\ end - offset <= limits.entry
    BY DEF BoundInv, ChunkInv
  <1>2. X!OpenArchive(archive) /\ ShapeInv
    BY DEF OpenInv, BoundInv
  <1>3. /\ item \in 1 .. Len(archive.members) /\ item \in DOMAIN archive.members
        /\ archive.members[item].folder = folder /\ archive.members[item].sub = next
        /\ folder \in 1 .. Len(archive.folders) /\ next \in 1 .. Len(g.subs)
    BY <1>1, <1>2, MemberFacts
  <1>4. X!Member = archive.members[item] /\ X!Current = g
    BY <1>3 DEF X!Member, X!Current
  <1>5. X!FolderOK(g)
    BY <1>2, <1>3 DEF X!OpenArchive, ShapeInv
  <1>6. Len(g.subs) \in Nat /\ g.actual \in Nat
    BY <1>5, FolderFacts
  <1>7. folder # 0 /\ next <= Len(g.subs)
    BY <1>3, <1>6
  <1>8. /\ offset \in Nat /\ cursor \in Nat /\ end \in Nat
        /\ offset <= cursor /\ cursor <= end /\ end <= g.actual
        /\ offset = X!SubStart(g, next)
    BY <1>7 DEF BoundInv, PositionInv
  <1>9. item \in DOMAIN got /\ item \in Nat \ {0}
    BY <1>3, WrittenType DEF BoundInv, StageInv
  <1> HIDE DEF g
  <1>10. /\ item \in X!Streamed(archive.members) /\ item \in DOMAIN got /\ item \in Nat \ {0}
         /\ item \in 1 .. Len(archive.members) /\ item \in DOMAIN archive.members
         /\ X!Place(archive.members[item]) = <<folder, next>>
         /\ X!Member = archive.members[item] /\ X!Current = g
         /\ folder \in 1 .. Len(archive.folders) /\ X!FolderOK(g)
         /\ next \in 1 .. Len(g.subs) /\ Len(g.subs) \in Nat
         /\ offset \in Nat /\ cursor \in Nat /\ end \in Nat /\ g.actual \in Nat
         /\ offset <= cursor /\ cursor <= end /\ end <= g.actual
         /\ end = X!SubEnd(g, next, offset) /\ offset = X!SubStart(g, next)
         /\ g.subs[next].size = Unknown => next = Len(g.subs)
         /\ end - offset <= limits.entry
    BY <1>1, <1>3, <1>4, <1>5, <1>6, <1>8, <1>9
  <1> QED
    BY <1>10 DEF g

\* A chunk is appended to what its member got.
LEMMA ChunkWritten ==
  ASSUME BoundInv, OpenInv, stage = "chunks", cursor < end, NEW e, e = X!ChunkEnd,
         got' = [got EXCEPT ![item] = Append(@, <<cursor, e>>)]
  PROVE  /\ e \in Nat /\ cursor < e /\ e <= end
         /\ got' \in [1 .. Len(archive.members) -> Seq(Nat \X Nat)] /\ DOMAIN got' = DOMAIN got
         /\ \A m \in DOMAIN got : m # item => got'[m] = got[m]
         /\ got'[item] # << >> /\ got'[item][1][1] = offset
         /\ got'[item][Len(got'[item])][2] = e
         /\ Span(got'[item]) = e - offset
         /\ Written' = Written + (e - cursor)
  <1> DEFINE g == archive.folders[folder]
             c == got[item]
             d == got'[item]
  <1>1. /\ item \in DOMAIN got /\ offset \in Nat /\ cursor \in Nat /\ end \in Nat
        /\ offset <= cursor /\ cursor <= end
    BY InChunks
  <1>2. e \in Nat /\ cursor < e /\ e <= end
    BY <1>1, ChunkAssumption DEF X!ChunkEnd, X!Smaller
  <1>3. /\ got \in [1 .. Len(archive.members) -> Seq(Nat \X Nat)]
        /\ DOMAIN got = 1 .. Len(archive.members)
    BY DEF BoundInv, ShapeInv
  <1>4. c \in Seq(Nat \X Nat) /\ <<cursor, e>> \in Nat \X Nat
    BY <1>1, <1>2, <1>3
  <1>5. d = Append(c, <<cursor, e>>)
    BY <1>1
  <1>6. d \in Seq(Nat \X Nat)
    <2> HIDE DEF c, d
    <2> QED
      BY <1>4, <1>5
  <1>7. /\ got' \in [1 .. Len(archive.members) -> Seq(Nat \X Nat)] /\ DOMAIN got' = DOMAIN got
        /\ \A m \in DOMAIN got : m # item => got'[m] = got[m]
    BY <1>1, <1>3, <1>6
  <1>8. IF c = << >> THEN cursor = offset
        ELSE c[1][1] = offset /\ c[Len(c)][2] = cursor
    BY DEF BoundInv, WrittenInv
  <1> HIDE DEF c, d
  <1>9. d # << >> /\ d[Len(d)] = <<cursor, e>> /\ Len(c) \in Nat /\ Len(d) = Len(c) + 1
    BY <1>4, <1>5
  <1>10. d[1][1] = offset
    <2>1. CASE c = << >>
      <3>1. d[1] = <<cursor, e>>
        BY <1>5, <2>1
      <3> QED
        BY <1>8, <2>1, <3>1
    <2>2. CASE c # << >>
      <3>1. d[1] = c[1]
        BY <1>4, <1>5, <2>2
      <3> QED
        BY <1>8, <2>2, <3>1
    <2> QED
      BY <2>1, <2>2
  <1>11. d[Len(d)][2] = e
    BY <1>9
  <1>12. Span(d) = e - offset
    BY <1>9, <1>10, <1>11 DEF Span
  <1>13. Span(c) = cursor - offset
    <2>1. CASE c = << >>
      <3>1. cursor = offset /\ Span(c) = 0
        BY <1>8, <2>1 DEF Span
      <3> QED
        BY <1>1, <3>1
    <2>2. CASE c # << >>
      BY <1>8, <2>2 DEF Span
    <2> QED
      BY <2>1, <2>2
  <1>14. Written' = Written + (e - cursor)
    <2>1. /\ IsFiniteSet(DOMAIN got)
          /\ \A m \in DOMAIN got : Spans[m] \in Nat /\ Spans[m] = Span(got[m])
      BY WrittenType
    <2>2. DOMAIN Spans' = DOMAIN got /\ \A m \in DOMAIN got : Spans'[m] = Span(got'[m])
      BY <1>7 DEF Spans
    <2>3. \A m \in DOMAIN got \ {item} : Spans'[m] = Spans[m]
      BY <1>7, <2>1, <2>2
    <2>4. Spans'[item] = e - offset /\ Spans[item] = cursor - offset
      BY <1>1, <1>12, <1>13, <2>1, <2>2 DEF c, d
    <2>5. \A m \in DOMAIN got : Spans[m] \in Int /\ Spans'[m] \in Int
      <3> TAKE m \in DOMAIN got
      <3>1. CASE m = item
        BY <1>1, <1>2, <2>1, <2>4, <3>1
      <3>2. CASE m # item
        BY <2>1, <2>3, <3>2
      <3> QED
        BY <3>1, <3>2
    <2>6. /\ SumFunctionOnSet(Spans, DOMAIN got) \in Int
          /\ SumFunctionOnSet(Spans', DOMAIN got) =
               SumFunctionOnSet(Spans, DOMAIN got) + (Spans'[item] - Spans[item])
      BY <1>1, <2>1, <2>3, <2>5, SumChange
    <2>7. Written = SumFunctionOnSet(Spans, DOMAIN got)
      BY DEF Written
    <2>8. Written' = SumFunctionOnSet(Spans', DOMAIN got)
      BY <1>7 DEF Written
    <2> QED
      BY <1>1, <1>2, <2>4, <2>6, <2>7, <2>8
  <1> QED
    BY <1>2, <1>7, <1>9, <1>10, <1>11, <1>12, <1>14 DEF d

LEMMA WriteChunkBound ==
  ASSUME BoundInv, OpenInv, X!WriteChunk
  PROVE  BoundInv'
  <1> DEFINE g == archive.folders[folder]
             e == X!ChunkEnd
  <1>1. /\ stage = "chunks" /\ cursor < end
        /\ got' = [got EXCEPT ![item] = Append(@, <<cursor, e>>)]
        /\ UNCHANGED <<total, folder, next, offset, end, delivered, decodes, begun, finished>>
        /\ UNCHANGED <<archive, limits, verified, item>>
    BY DEF X!WriteChunk, X!Return
  <1>2. /\ item \in X!Streamed(archive.members) /\ item \in DOMAIN got /\ item \in Nat \ {0}
        /\ folder \in 1 .. Len(archive.folders)
        /\ offset \in Nat /\ cursor \in Nat /\ end \in Nat /\ g.actual \in Nat
        /\ offset <= cursor /\ cursor <= end /\ end <= g.actual /\ end - offset <= limits.entry
    BY <1>1, InChunks
  <1>3. /\ e \in Nat /\ cursor < e /\ e <= end
        /\ got' \in [1 .. Len(archive.members) -> Seq(Nat \X Nat)] /\ DOMAIN got' = DOMAIN got
        /\ \A m \in DOMAIN got : m # item => got'[m] = got[m]
        /\ got'[item] # << >> /\ got'[item][1][1] = offset
        /\ got'[item][Len(got'[item])][2] = e
        /\ Span(got'[item]) = e - offset
        /\ Written' = Written + (e - cursor)
    BY <1>1, ChunkWritten
  <1>4. /\ Written \in Nat /\ total \in Nat /\ limits.entry \in Nat
        /\ DOMAIN got = 1 .. Len(archive.members) /\ Len(archive.members) \in Nat
    BY WrittenType, LimitTypes DEF BoundInv, ShapeInv
  <1>5. Written + (g.actual - cursor) <= total
    <2>1. Written + Ahead <= total /\ folder # 0
      BY <1>1, <1>2 DEF BoundInv, WrittenInv, Running
    <2> QED
      BY <1>1, <2>1 DEF Ahead
  <1> HIDE DEF g, e
  <1>6. ShapeInv'
    BY <1>1, <1>3 DEF BoundInv, ShapeInv
  <1>7. Span(got'[item]) \in 0 .. limits.entry
    BY <1>2, <1>3, <1>4, SMTT(40)
  <1>8. \A m \in DOMAIN got' : Span(got'[m]) \in 0 .. limits.entry
    <2>1. \A m \in DOMAIN got : Span(got[m]) \in 0 .. limits.entry
      BY DEF BoundInv, WrittenInv
    <2> TAKE m \in DOMAIN got'
    <2>2. CASE m = item
      BY <1>7, <2>2
    <2>3. CASE m # item
      BY <1>3, <2>1, <2>3
    <2> QED
      BY <2>2, <2>3
  <1>9. Written' \in Nat /\ Written' + (g.actual - e) <= total /\ Written' <= total
    BY <1>2, <1>3, <1>4, <1>5
  <1>10. \A m \in DOMAIN got' : m >= item => got'[m] = << >> \/ m = item
    <2>1. \A m \in DOMAIN got : m >= item => got[m] = << >> \/ m = item
      BY <1>1 DEF BoundInv, WrittenInv, Running
    <2> QED
      BY <1>3, <2>1
  <1>11. CASE cursor' = e /\ stage' = stage /\ extracted' = extracted
    <2>1. StageInv'
      BY <1>1, <1>11 DEF BoundInv, StageInv
    <2>2. OrderInv'
      BY <1>1, <1>11 DEF BoundInv, OrderInv, Running
    <2>3. DecodesInv'
      BY <1>1, <1>11 DEF BoundInv, DecodesInv, Running
    <2>4. PositionInv'
      <3>1. /\ folder \in 0 .. Len(archive.folders) /\ next \in Nat \ {0}
            /\ next \in 1 .. Len(g.subs) + 1
            /\ next <= Len(g.subs) => offset = X!SubStart(g, next)
        BY <1>2 DEF BoundInv, PositionInv, g
      <3>2. archive'.folders[folder'] = g /\ archive'.folders = archive.folders
        BY <1>1 DEF g
      <3>3. offset <= e
        BY <1>2, <1>3
      <3> QED
        BY <1>1, <1>2, <1>3, <1>11, <3>1, <3>2, <3>3 DEF PositionInv
    <2>5. ChunkInv'
      BY <1>1, <1>11 DEF BoundInv, ChunkInv
    <2>6. WrittenInv'
      <3>1. Ahead' = g.actual - e
        BY <1>1, <1>2, <1>11 DEF Ahead, g
      <3>2. Running' /\ item' = item /\ stage' = "chunks" /\ limits' = limits /\ total' = total
            /\ cursor' = e /\ offset' = offset
        BY <1>1, <1>11 DEF Running
      <3> QED
        BY <1>3, <1>8, <1>9, <1>10, <3>1, <3>2 DEF WrittenInv
    <2> QED
      BY <1>6, <2>1, <2>2, <2>3, <2>4, <2>5, <2>6 DEF BoundInv
  <1>12. CASE X!Return("sink") /\ cursor' = cursor
    <2>1. stage' = "done" /\ extracted' = "sink"
      BY <1>12 DEF X!Return
    <2>2. StageInv'
      BY <1>1, <2>1 DEF BoundInv, StageInv
    <2>3. OrderInv' /\ ChunkInv'
      BY <2>1 DEF OrderInv, ChunkInv, Running
    <2>4. DecodesInv'
      BY <1>1, <2>1 DEF BoundInv, DecodesInv, Running
    <2>5. PositionInv'
      BY <1>1, <1>12 DEF BoundInv, PositionInv
    <2>6. WrittenInv'
      BY <1>1, <1>8, <1>9, <2>1 DEF WrittenInv, Running
    <2> QED
      BY <1>6, <2>2, <2>3, <2>4, <2>5, <2>6 DEF BoundInv
  <1> QED
    BY <1>11, <1>12 DEF X!WriteChunk, e

\* The start of the substream behind one of known size.
LEMMA NextStart ==
  ASSUME NEW g, X!FolderOK(g), NEW k \in 1 .. Len(g.subs),
         k < Len(g.subs)
  PROVE  /\ X!SubStart(g, k) \in Int
         /\ X!SubStart(g, k + 1) = X!SubStart(g, k) + g.subs[k].size
  <1> DEFINE s == [j \in DOMAIN g.subs |-> g.subs[j].size]
  <1>1. /\ Len(g.subs) \in Nat /\ DOMAIN g.subs = 1 .. Len(g.subs)
        /\ \A j \in 1 .. Len(g.subs) : g.subs[j].size \in Sizes
    BY FolderFacts
  <1>2. \A j \in 1 .. Len(g.subs) : s[j] = g.subs[j].size /\ s[j] \in Int
    BY <1>1 DEF Sizes, Unknown
  <1>3. /\ X!SubStart(g, k) = X!SumFunctionOnSet(s, 1 .. k - 1)
        /\ X!SubStart(g, k + 1) = X!SumFunctionOnSet(s, 1 .. (k + 1) - 1)
    BY DEF X!SubStart, X!Offset
  <1> HIDE DEF s
  <1>4. PICK n \in Nat : n = k - 1
    BY <1>1
  <1>5. n + 1 = k /\ (k + 1) - 1 = n + 1
    BY <1>1, <1>4
  <1>6. \A j \in 1 .. n + 1 : s[j] \in Int
    BY <1>1, <1>2, <1>5
  <1>7. /\ SumFunctionOnSet(s, 1 .. n) \in Int
        /\ SumFunctionOnSet(s, 1 .. n + 1) = SumFunctionOnSet(s, 1 .. n) + s[n + 1]
    BY <1>6, SumNext
  <1>8. X!SubStart(g, k) = SumFunctionOnSet(s, 1 .. n)
    BY <1>3, <1>4, SumInstance
  <1>9. X!SubStart(g, k + 1) = SumFunctionOnSet(s, 1 .. n + 1)
    BY <1>3, <1>5, SumInstance
  <1> QED
    BY <1>2, <1>5, <1>7, <1>8, <1>9

LEMMA FinishMemberBound ==
  ASSUME BoundInv, OpenInv, X!FinishMember
  PROVE  BoundInv'
  <1> DEFINE g == archive.folders[folder]
  <1>1. /\ stage = "chunks" /\ cursor = end
        /\ UNCHANGED <<archive, limits, verified, total, folder, end, cursor, decodes, begun, got>>
    BY DEF X!FinishMember, X!Return
  <1>2. /\ item \in X!Streamed(archive.members) /\ item \in DOMAIN got /\ item \in Nat \ {0}
        /\ X!Place(archive.members[item]) = <<folder, next>> /\ X!Current = g
        /\ folder \in 1 .. Len(archive.folders) /\ X!FolderOK(g)
        /\ next \in 1 .. Len(g.subs) /\ Len(g.subs) \in Nat
        /\ offset \in Nat /\ cursor \in Nat /\ end \in Nat /\ g.actual \in Nat
        /\ offset <= cursor /\ cursor <= end /\ end <= g.actual
        /\ end = X!SubEnd(g, next, offset) /\ offset = X!SubStart(g, next)
        /\ g.subs[next].size = Unknown => next = Len(g.subs)
    BY <1>1, InChunks
  <1>3. ShapeInv /\ X!OpenArchive(archive) /\ Len(archive.folders) \in Nat
        /\ Len(archive.members) \in Nat
    BY <1>1 DEF BoundInv, OpenInv, ShapeInv
  <1> HIDE DEF g
  <1>4. CASE /\ offset' = end /\ next' = next + 1 /\ item' = item + 1 /\ stage' = "members"
             /\ extracted' = extracted
    <2>1. ShapeInv'
      BY <1>1, <1>3 DEF ShapeInv
    <2>2. StageInv'
      BY <1>1, <1>2, <1>4 DEF BoundInv, StageInv
    <2>3. OrderInv'
      <3> SUFFICES ASSUME NEW j \in X!Streamed(archive.members)
                   PROVE  j < item + 1 <=>
                            X!Before(X!Place(archive.members[j]), <<folder, next + 1>>)
        BY <1>1, <1>4 DEF OrderInv
      <3> DEFINE a == archive.members[j].folder
                 b == archive.members[j].sub
      <3>1. /\ j \in Nat /\ a \in 1 .. Len(archive.folders)
            /\ b \in 1 .. Len(archive.folders[a].subs)
            /\ X!Place(archive.members[j]) = <<a, b>>
        BY <1>3, MemberFacts
      <3>2. b \in Nat /\ a \in Nat /\ folder \in Nat /\ next \in Nat
        <4>1. X!FolderOK(archive.folders[a])
          BY <1>3, <3>1 DEF X!OpenArchive, ShapeInv
        <4>2. Len(archive.folders[a].subs) \in Nat
          BY <4>1, FolderFacts
        <4>3. b \in Nat /\ a \in Nat
          BY <1>3, <3>1, <4>2
        <4>4. folder \in Nat /\ next \in Nat
          BY <1>2, <1>3
        <4> QED
          BY <4>3, <4>4
      <3>3. j < item <=> X!Before(<<a, b>>, <<folder, next>>)
        BY <1>1, <3>1 DEF BoundInv, OrderInv, Running
      <3>4. X!Before(<<a, b>>, <<folder, next + 1>>) <=>
              X!Before(<<a, b>>, <<folder, next>>) \/ (a = folder /\ b = next)
        BY <3>2, BeforeIs
      <3>5. (a = folder /\ b = next) <=> j = item
        <4>1. j = item => a = folder /\ b = next
          BY <1>2, <3>1
        <4>2. ASSUME a = folder, b = next, j < item PROVE FALSE
          <5>1. X!Before(<<a, b>>, <<folder, next>>)
            BY <3>3, <4>2
          <5> QED
            BY <3>2, <4>2, <5>1, BeforeIs
        <4>3. ASSUME a = folder, b = next, item < j PROVE FALSE
          <5>1. X!Before(<<folder, next>>, <<a, b>>)
            BY <1>2, <1>3, <3>1, <4>3, MemberOrder
          <5> QED
            BY <3>2, <4>3, <5>1, BeforeIs
        <4> QED
          BY <1>2, <3>1, <4>1, <4>2, <4>3
      <3>6. j < item + 1 <=> j < item \/ j = item
        BY <1>2, <3>1, SMTT(30)
      <3> QED
        BY <3>1, <3>3, <3>4, <3>5, <3>6
    <2>4. DecodesInv'
      BY <1>1, <1>4 DEF BoundInv, DecodesInv, Running
    <2>5. PositionInv'
      <3>1. archive'.folders[folder'] = g /\ archive'.folders = archive.folders
        BY <1>1 DEF g
      <3>2. next + 1 \in 1 .. Len(g.subs) + 1 /\ next + 1 \in Nat \ {0}
        BY <1>2, SMTT(40)
      <3>3. ASSUME next + 1 <= Len(g.subs) PROVE end = X!SubStart(g, next + 1)
        <4>1. next < Len(g.subs)
          BY <1>2, <3>3
        <4>2. end = offset + g.subs[next].size
          BY <1>2, <4>1, UnknownInstance DEF X!SubEnd
        <4>3. X!SubStart(g, next + 1) = X!SubStart(g, next) + g.subs[next].size
          BY <1>2, <4>1, NextStart
        <4> QED
          BY <1>2, <4>2, <4>3
      <3>4. folder \in 0 .. Len(archive.folders)
        BY <1>2, <1>3
      <3> QED
        BY <1>1, <1>2, <1>4, <3>1, <3>2, <3>3, <3>4 DEF PositionInv
    <2>6. ChunkInv'
      BY <1>4 DEF ChunkInv
    <2>7. WrittenInv'
      <3>1. Written' = Written
        BY <1>1, WrittenFrame
      <3>2. Ahead' = Ahead
        BY <1>1, <1>4 DEF Ahead
      <3>3. \A m \in DOMAIN got : m >= item + 1 => got[m] = << >>
        <4>1. \A m \in DOMAIN got : m >= item => got[m] = << >> \/ m = item
          BY <1>1 DEF BoundInv, WrittenInv, Running
        <4>2. \A m \in DOMAIN got : m >= item + 1 => m >= item /\ m # item
          BY <1>2, <1>3, WrittenType, SMTT(40)
        <4> QED
          BY <4>1, <4>2
      <3>4. /\ \A m \in DOMAIN got : Span(got[m]) \in 0 .. limits.entry
            /\ Written <= total /\ Written + Ahead <= total
        BY <1>1 DEF BoundInv, WrittenInv, Running
      <3> QED
        BY <1>1, <1>4, <3>1, <3>2, <3>3, <3>4 DEF WrittenInv
    <2> QED
      BY <2>1, <2>2, <2>3, <2>4, <2>5, <2>6, <2>7 DEF BoundInv
  <1>5. ASSUME NEW r \in Results \cup {"sink"}, X!Return(r), UNCHANGED <<offset, next>>
        PROVE  BoundInv'
    BY <1>1, <1>5, ReturnBound DEF X!Return, Running
  <1>6. X!Damage(X!Current, "checksum") \in Results
    BY DamageType DEF Results, X!Errors
  <1> QED
    BY <1>4, <1>5, <1>6 DEF X!FinishMember

LEMMA ExtractDoneBound ==
  ASSUME BoundInv, X!ExtractDone
  PROVE  BoundInv'
  <1>1. stage = "members" /\ UNCHANGED <<total, folder, next, offset, end, cursor, decodes, got>>
    BY DEF X!ExtractDone, X!loopVars, X!sinkVars
  <1>2. PICK r \in Results : X!Return(r)
    BY DEF X!ExtractDone, Results, X!Errors
  <1> QED
    BY <1>1, <1>2, ReturnBound DEF X!Return, Running

LEMMA InterruptBound ==
  ASSUME BoundInv, OpenInv, X!Interrupt
  PROVE  BoundInv'
  <1>1. "interrupted" \in Results
    BY DEF Results, X!Errors
  <1>2. CASE stage \in {"additional", "verify"} /\ X!VerifyReturns("interrupted")
    BY <1>1, <1>2, VerifyReturnsBound
  <1>3. CASE Running /\ X!Return("interrupted") /\ UNCHANGED <<total, X!loopVars, X!sinkVars>>
    BY <1>1, <1>3, ReturnBound DEF X!Return, X!loopVars, X!sinkVars
  <1> QED
    BY <1>2, <1>3 DEF X!Interrupt, Running

LEMMA OperationBound ==
  ASSUME BoundInv, OpenInv, X!Step \/ X!Interrupt
  PROVE  BoundInv'
  BY VerifyAdditionalBound, AdditionalDoneBound, VerifyFolderBound, VerifyDoneBound,
     SkipMemberBound, EmptyFileBound, EnterFolderBound, BeginMemberBound, WriteChunkBound,
     FinishMemberBound, ExtractDoneBound, InterruptBound DEF X!Step

\* Before Archive::open returns, and in steps of validation.
LEMMA BoundFrame ==
  ASSUME BoundInv, UNCHANGED operationVars
  PROVE  BoundInv'
  <1>1. UNCHANGED <<archive, limits, stage, verified, extracted, item, total, folder, next,
                    offset, end, cursor, delivered, decodes, begun, got, finished>>
    BY DEF operationVars
  <1>2. ShapeInv'
    BY <1>1 DEF BoundInv, ShapeInv
  <1>3. StageInv'
    BY <1>1 DEF BoundInv, StageInv, Fresh
  <1>4. OrderInv' /\ ChunkInv'
    BY <1>1 DEF BoundInv, OrderInv, ChunkInv, Running
  <1>5. DecodesInv'
    BY <1>1 DEF BoundInv, DecodesInv, Running
  <1>6. PositionInv'
    BY <1>1 DEF BoundInv, PositionInv
  <1>7. WrittenInv'
    <2>1. Written' = Written /\ Ahead' = Ahead
      BY <1>1, WrittenFrame DEF Ahead
    <2> QED
      BY <1>1, <2>1 DEF BoundInv, WrittenInv, Running
  <1> QED
    BY <1>2, <1>3, <1>4, <1>5, <1>6, <1>7 DEF BoundInv

LEMMA OpenBound ==
  ASSUME IInv, BoundInv, Open
  PROVE  BoundInv'
  <1>1. PICK x \in Facts(raw) :
          /\ result = "ok" /\ stage = "closed" /\ stage' = "additional"
          /\ archive' = Opened(x) /\ limits' = x.limits
          /\ decodes' = [f \in DOMAIN Opened(x).folders |-> 0]
          /\ got' = [m \in DOMAIN Opened(x).members |-> << >>]
          /\ UNCHANGED <<verified, extracted, item, total, folder, next, offset, end, cursor,
                         delivered, begun, finished>>
    BY DEF Open, X!Open
  <1> DEFINE a == Opened(x)
             n == Len(folders)
             b(f) == a.folders[f]
  <1>2. raw \in RawArchives /\ folders \in Seq(BuiltFolder) /\ members \in Seq(FileRecord)
    BY DEF IInv, MapInv, FoldersInv, FilesInv
  <1>3. n \in Nat /\ DOMAIN folders = 1 .. n
    BY <1>2
  <1>4. a.members = members /\ a.folders = [f \in 1 .. n |-> b(f)]
    BY <1>3 DEF Opened
  <1>5. Len(a.folders) = n /\ DOMAIN a.folders = 1 .. n
    <2> HIDE DEF b, n
    <2> QED
      BY <1>3, <1>4
  <1>6. x.limits \in [entry : Nat, total : Nat, header : Nat]
    BY <1>2, FactsAssumption DEF FactsOK
  <1>7. DOMAIN a.members = 1 .. Len(a.members) /\ Len(a.members) \in Nat
        /\ a.members \in Seq(FileRecord)
    BY <1>2, <1>4
  <1> HIDE DEF a
  <1>8. ShapeInv'
    <2>1. decodes' \in [1 .. Len(a.folders) -> Nat]
      BY <1>1, <1>5 DEF a
    <2>2. << >> \in Seq(Nat \X Nat)
      OBVIOUS
    <2>3. got' \in [1 .. Len(a.members) -> Seq(Nat \X Nat)]
      BY <1>1, <1>7, <2>2 DEF a
    <2>4. archive' = a
      BY <1>1 DEF a
    <2>5. Len(archive'.folders) \in Nat /\ DOMAIN archive'.folders = 1 .. Len(archive'.folders)
      BY <1>3, <1>5, <2>4
    <2>6. archive'.members \in Seq(FileRecord)
      BY <1>7, <2>4
    <2> QED
      BY <1>1, <1>6, <2>1, <2>3, <2>4, <2>5, <2>6 DEF ShapeInv
  <1>9. Fresh'
    <2>1. Fresh
      BY <1>1 DEF BoundInv, StageInv
    <2> QED
      BY <1>1, <2>1 DEF Fresh
  <1>10. StageInv'
    <2>1. limits'.total \in Nat
      BY <1>1, <1>6
    <2>2. item = 1 /\ total = 0
      BY <1>1 DEF BoundInv, StageInv
    <2> QED
      BY <1>1, <1>9, <2>1, <2>2 DEF BoundInv, StageInv
  <1>11. OrderInv' /\ ChunkInv'
    BY <1>1 DEF OrderInv, ChunkInv, Running
  <1>12. DecodesInv'
    BY <1>1, <1>9 DEF DecodesInv, Running, Fresh
  <1>13. PositionInv'
    <2>1. Len(archive'.folders) \in Nat
      BY <1>8 DEF ShapeInv
    <2> QED
      BY <1>9, <2>1 DEF PositionInv, Fresh
  <1>14. WrittenInv'
    <2>1. \A m \in DOMAIN got' : got'[m] = << >>
      BY <1>9 DEF Fresh
    <2>2. DOMAIN got' = 1 .. Len(a.members) /\ IsFiniteSet(DOMAIN got')
      BY <1>1, <1>7, FS_Interval DEF a
    <2>3. \A m \in DOMAIN got' : Spans'[m] = 0 /\ Span(got'[m]) = 0
      BY <2>1 DEF Spans, Span
    <2>4. Written' = SumFunctionOnSet(Spans', DOMAIN got')
      BY DEF Written
    <2>5. Written' = 0
      BY <2>2, <2>3, <2>4, SumZero
    <2>6. total' \in Nat /\ limits'.entry \in Nat
      <3>1. limits'.entry \in Nat /\ limits'.total \in Nat
        BY <1>1, <1>6
      <3> QED
        BY <1>10, <3>1 DEF StageInv
    <2>7. ~ Running' /\ stage' # "chunks"
      BY <1>1 DEF Running
    <2> QED
      BY <2>3, <2>5, <2>6, <2>7 DEF WrittenInv
  <1> QED
    BY <1>8, <1>10, <1>11, <1>12, <1>13, <1>14 DEF BoundInv

LEMMA InitBound ==
  ASSUME Init
  PROVE  BoundInv
  <1>1. X!Init
    BY DEF Init
  <1>2. /\ archive.folders = << >> /\ archive.members = << >>
        /\ limits = [entry |-> 0, total |-> 0, header |-> 0]
        /\ decodes = << >> /\ got = << >>
    BY <1>1 DEF X!Init, X!NoArchive
  <1>3. ShapeInv
    <2>1. Len(archive.folders) = 0 /\ Len(archive.members) = 0
      BY <1>2
    <2>2. << >> \in [1 .. 0 -> Nat] /\ << >> \in [1 .. 0 -> Seq(Nat \X Nat)]
      OBVIOUS
    <2>3. DOMAIN archive.folders = 1 .. 0 /\ archive.members \in Seq(FileRecord)
      BY <1>2
    <2> QED
      BY <1>2, <2>1, <2>2, <2>3 DEF ShapeInv
  <1>4. Fresh
    BY <1>1, <1>2 DEF X!Init, Fresh
  <1>5. StageInv
    BY <1>1, <1>2, <1>4 DEF X!Init, StageInv
  <1>6. OrderInv /\ ChunkInv /\ DecodesInv
    BY <1>1, <1>2 DEF X!Init, OrderInv, ChunkInv, Running, DecodesInv
  <1>7. PositionInv
    BY <1>3, <1>4 DEF PositionInv, Fresh, ShapeInv
  <1>8. WrittenInv
    <2>1. DOMAIN got = {}
      BY <1>2
    <2>2. Written = 0
      BY <2>1, SumEmpty DEF Written
    <2> QED
      BY <1>1, <2>1, <2>2 DEF X!Init, WrittenInv, Running
  <1> QED
    BY <1>3, <1>5, <1>6, <1>7, <1>8 DEF BoundInv

LEMMA NextBound ==
  ASSUME IInv, BoundInv, [Next]_vars
  PROVE  BoundInv'
  <1>1. OpenInv
    BY DEF IInv
  <1>2. CASE Validate \/ ValidateInterrupted \/ UNCHANGED vars
    BY <1>2, BoundFrame DEF Validate, ValidateInterrupted, vars
  <1>3. CASE Open
    BY <1>3, OpenBound
  <1>4. CASE Operate \/ OperateInterrupted
    BY <1>1, <1>4, OperationBound DEF Operate, OperateInterrupted
  <1> QED
    BY <1>2, <1>3, <1>4 DEF Next, Step

\* What the bounds come to.
LEMMA BoundSound ==
  ASSUME BoundInv
  PROVE  OutputIsBounded
  <1>1. X!TypeOK
    BY DEF BoundInv, StageInv, PositionInv, X!TypeOK
  <1>2. X!OutputWithinLimits
    <2>1. \A f \in DOMAIN decodes : decodes[f] <= 1
      BY DEF BoundInv, DecodesInv
    <2>2. \A m \in DOMAIN got :
            got[m] # << >> => got[m][Len(got[m])][2] - got[m][1][1] <= limits.entry
      BY LimitTypes DEF BoundInv, WrittenInv, Span
    <2>3. DOMAIN Spans = DOMAIN got
      BY DEF Spans
    <2>4. X!SumFunction(Spans) = Written
      <3>1. X!SumFunction(Spans) = X!SumFunctionOnSet(Spans, DOMAIN Spans)
        BY DEF X!SumFunction
      <3> QED
        BY <2>3, <3>1, SumInstance DEF Written
    <2>5. X!SumFunction(Spans) <= limits.total
      BY <2>4, WrittenType DEF BoundInv, WrittenInv
    <2>6. X!SumFunction([m \in DOMAIN got |->
                           IF got[m] = << >> THEN 0
                           ELSE got[m][Len(got[m])][2] - got[m][1][1]]) <= limits.total
      BY <2>5 DEF Spans, Span
    <2> QED
      BY <2>1, <2>2, <2>6 DEF X!OutputWithinLimits
  <1> QED
    BY <1>1, <1>2 DEF OutputIsBounded, X!OutputIsBounded

\* archive.rs, extract_entries_to and verify: no folder is decoded twice, no
\* entry is given more than max_entry_output_bytes and the sink in all no more
\* than max_total_output_bytes, and the slices of a member stay in its folder,
\* for archives of any size and whatever the sink does.
THEOREM ExtractionBounded == Spec => []OutputIsBounded
  <1>1. Init => BoundInv
    BY InitBound
  <1>2. IInv /\ BoundInv /\ [Next]_vars => BoundInv'
    BY NextBound
  <1>3. BoundInv => OutputIsBounded
    BY BoundSound
  <1> QED
    BY <1>1, <1>2, <1>3, AlwaysIInv, PTL DEF Spec
-----------------------------------------------------------------------------
(***************************************************************************)
(* Steps that preserve BracketInv                                          *)
(***************************************************************************)
Increasing(s) == \A i, j \in DOMAIN s : i < j => s[i] < s[j]

LEMMA AppendFacts ==
  ASSUME NEW s \in Seq(Nat), NEW e \in Nat
  PROVE  /\ Append(s, e) \in Seq(Nat) /\ Len(s) \in Nat /\ Len(Append(s, e)) = Len(s) + 1
         /\ DOMAIN s = 1 .. Len(s) /\ DOMAIN Append(s, e) = 1 .. Len(s) + 1
         /\ \A i \in 1 .. Len(s) : Append(s, e)[i] = s[i] /\ s[i] \in Nat
         /\ Append(s, e)[Len(s) + 1] = e
  OBVIOUS

LEMMA AppendIncreasing ==
  ASSUME NEW s \in Seq(Nat), NEW e \in Nat, Increasing(s), \A i \in DOMAIN s : s[i] < e
  PROVE  /\ Increasing(Append(s, e))
         /\ \A i \in DOMAIN Append(s, e) : Append(s, e)[i] < e + 1
  <1> DEFINE t == Append(s, e)
             n == Len(s)
  <1>1. /\ n \in Nat /\ DOMAIN s = 1 .. n /\ DOMAIN t = 1 .. n + 1
        /\ \A i \in 1 .. n : t[i] = s[i] /\ s[i] \in Nat
        /\ t[n + 1] = e
    BY AppendFacts
  <1> HIDE DEF t, n
  <1>2. \A i \in 1 .. n + 1 : i # n + 1 => i \in 1 .. n
    BY <1>1
  <1>3. \A i \in 1 .. n + 1 : t[i] \in Nat /\ t[i] < e + 1
    <2> TAKE i \in 1 .. n + 1
    <2>1. CASE i = n + 1
      BY <1>1, <2>1
    <2>2. CASE i # n + 1
      <3>1. i \in 1 .. n
        BY <1>2, <2>2
      <3> QED
        BY <1>1, <3>1
    <2> QED
      BY <2>1, <2>2
  <1>4. ASSUME NEW i \in 1 .. n + 1, NEW j \in 1 .. n + 1, i < j PROVE t[i] < t[j]
    <2>1. i \in 1 .. n
      BY <1>1, <1>4
    <2>2. CASE j = n + 1
      BY <1>1, <2>1, <2>2
    <2>3. CASE j # n + 1
      <3>1. j \in 1 .. n
        BY <1>2, <2>3
      <3> QED
        BY <1>1, <1>4, <2>1, <3>1 DEF Increasing
    <2> QED
      BY <2>2, <2>3
  <1>5. Increasing(t) /\ \A i \in DOMAIN t : t[i] < e + 1
    BY <1>1, <1>3, <1>4 DEF Increasing
  <1> QED
    BY <1>5 DEF t

\* The sink has seen nothing yet.
LEMMA NothingSeen ==
  ASSUME begun' = << >>, finished' = << >>, stage' # "chunks"
  PROVE  BracketInv'
  <1>1. begun' \in Seq(Nat) /\ finished' \in Seq(Nat) /\ Len(begun') = 0 /\ Len(finished') = 0
        /\ DOMAIN begun' = {} /\ DOMAIN finished' = {}
    OBVIOUS
  <1>2. X!SinkSeesBrackets'
    BY <1>1 DEF X!SinkSeesBrackets
  <1> QED
    BY <1>1, <1>2 DEF BracketInv

\* Between two members, the brackets are closed.
LEMMA ClosedBrackets ==
  ASSUME NEW s \in Seq(Nat), Increasing(s), begun' = s, finished' = s, stage' # "chunks",
         Running' => \A i \in DOMAIN s : s[i] < item'
  PROVE  BracketInv'
  <1>1. Len(s) \in Nat
    OBVIOUS
  <1>2. X!SinkSeesBrackets'
    BY <1>1 DEF X!SinkSeesBrackets, Increasing
  <1> QED
    BY <1>2 DEF BracketInv

\* Within a member, one is open.
LEMMA OpenBracket ==
  ASSUME NEW s \in Seq(Nat), NEW e \in Nat, Increasing(s), \A i \in DOMAIN s : s[i] < e,
         finished' = s, begun' = Append(s, e),
         \/ stage' = "chunks" /\ item' = e
         \/ stage' = "done" /\ extracted' \notin {"none", "ok"}
  PROVE  BracketInv'
  <1> DEFINE t == Append(s, e)
             n == Len(s)
  <1>1. /\ n \in Nat /\ DOMAIN s = 1 .. n /\ DOMAIN t = 1 .. n + 1 /\ Len(t) = n + 1
        /\ \A i \in 1 .. n : t[i] = s[i]
        /\ t \in Seq(Nat)
    BY AppendFacts
  <1>2. Increasing(t)
    BY AppendIncreasing
  <1>3. begun' = t /\ finished' = s
    OBVIOUS
  <1> HIDE DEF t, n
  <1>4. X!SinkSeesBrackets'
    <2>1. \A i, j \in DOMAIN t : i < j => t[i] < t[j]
      BY <1>2 DEF Increasing
    <2>2. \A i \in DOMAIN s : s[i] = t[i]
      BY <1>1
    <2>3. Len(t) \in {Len(s), Len(s) + 1}
      BY <1>1 DEF n
    <2>4. stage' = "chunks" \/ extracted' \notin {"none", "ok"}
      OBVIOUS
    <2> QED
      BY <1>3, <2>1, <2>2, <2>3, <2>4 DEF X!SinkSeesBrackets
  <1>5. begun' \in Seq(Nat) /\ finished' \in Seq(Nat)
    BY <1>1, <1>3
  <1>6. Running' => \A i \in DOMAIN s : s[i] < item'
    BY DEF Running
  <1>7. stage' = "chunks" => begun' = Append(finished', item')
    BY <1>3 DEF t
  <1> QED
    BY <1>3, <1>4, <1>5, <1>6, <1>7 DEF BracketInv

LEMMA BracketFacts ==
  ASSUME BracketInv, Running
  PROVE  /\ finished \in Seq(Nat) /\ Increasing(finished)
         /\ \A i \in DOMAIN finished : finished[i] < item
  <1>1. /\ finished \in Seq(Nat) /\ begun \in Seq(Nat) /\ X!SinkSeesBrackets
        /\ \A i \in DOMAIN finished : finished[i] < item
    BY DEF BracketInv
  <1>2. /\ Len(finished) \in Nat /\ DOMAIN finished = 1 .. Len(finished)
        /\ Len(begun) \in Nat /\ DOMAIN begun = 1 .. Len(begun)
    BY <1>1
  <1>3. /\ Len(finished) <= Len(begun)
        /\ \A i, j \in DOMAIN begun : i < j => begun[i] < begun[j]
        /\ \A i \in DOMAIN finished : finished[i] = begun[i]
    <2>1. /\ \A i, j \in DOMAIN begun : i < j => begun[i] < begun[j]
          /\ \A i \in DOMAIN finished : finished[i] = begun[i]
      BY <1>1 DEF X!SinkSeesBrackets
    <2>2. Len(finished) <= Len(begun)
      <3>1. Len(begun) = Len(finished) \/ Len(begun) = Len(finished) + 1
        BY <1>1 DEF X!SinkSeesBrackets
      <3>2. Len(finished) \in Nat
        BY <1>2
      <3> QED
        BY <3>1, <3>2
    <2> QED
      BY <2>1, <2>2
  <1>4. \A i \in DOMAIN finished : i \in DOMAIN begun
    BY <1>2, <1>3
  <1> QED
    BY <1>1, <1>3, <1>4 DEF Increasing

LEMMA OperationBrackets ==
  ASSUME BoundInv, OpenInv, BracketInv, X!Step \/ X!Interrupt
  PROVE  BracketInv'
  <1>0. item \in Nat /\ item + 1 \in Nat
    BY DEF BoundInv, StageInv
  <1>1. ASSUME stage \in {"additional", "verify"}, UNCHANGED <<begun, finished>>,
               stage' # "chunks"
        PROVE  BracketInv'
    BY <1>1, NothingSeen DEF BoundInv, StageInv, Fresh
  <1>2. ASSUME stage = "members"
        PROVE  /\ finished \in Seq(Nat) /\ Increasing(finished) /\ begun = finished
               /\ \A i \in DOMAIN finished : finished[i] < item
               /\ \A i \in DOMAIN finished : finished[i] < item + 1
    <2>1. /\ finished \in Seq(Nat) /\ Increasing(finished) /\ begun = finished
          /\ \A i \in DOMAIN finished : finished[i] < item
      BY <1>2, BracketFacts DEF Running, BracketInv
    <2>2. \A i \in DOMAIN finished : finished[i] \in Nat
      BY <2>1
    <2> QED
      BY <1>0, <2>1, <2>2
  <1>3. ASSUME stage = "chunks"
        PROVE  /\ finished \in Seq(Nat) /\ Increasing(finished) /\ begun = Append(finished, item)
               /\ \A i \in DOMAIN finished : finished[i] < item
    BY <1>3, BracketFacts DEF Running, BracketInv
  \* The ways an action can end, by what the sink has seen.
  <1>4. ASSUME stage = "members", UNCHANGED <<begun, finished>>, stage' # "chunks",
               item' \in {item, item + 1}
        PROVE  BracketInv'
    BY <1>2, <1>4, ClosedBrackets
  <1>5. ASSUME stage = "members", begun' \in {begun, Append(begun, item)}, finished' = finished,
               stage' = "done", extracted' = "sink"
        PROVE  BracketInv'
    <2>1. CASE begun' = begun
      BY <1>2, <1>5, <2>1, ClosedBrackets DEF Running
    <2>2. CASE begun' = Append(begun, item)
      BY <1>0, <1>2, <1>5, <2>2, OpenBracket
    <2> QED
      BY <1>5, <2>1, <2>2
  <1>6. ASSUME stage = "chunks", UNCHANGED <<begun, finished>>,
               \/ stage' = "chunks" /\ item' = item
               \/ stage' = "done" /\ extracted' \notin {"none", "ok"}
        PROVE  BracketInv'
    BY <1>0, <1>3, <1>6, OpenBracket
  <1>7. ASSUME Running, finished' = Append(finished, item), begun' = Append(finished, item),
               item' = item + 1, stage' = "members"
        PROVE  BracketInv'
    <2>1. /\ finished \in Seq(Nat) /\ Increasing(finished)
          /\ \A i \in DOMAIN finished : finished[i] < item
      BY <1>7, BracketFacts
    <2>2. /\ Append(finished, item) \in Seq(Nat) /\ Increasing(Append(finished, item))
          /\ \A i \in DOMAIN Append(finished, item) : Append(finished, item)[i] < item + 1
      BY <1>0, <2>1, AppendFacts, AppendIncreasing
    <2> QED
      BY <1>7, <2>2, ClosedBrackets
  <1>8. CASE X!VerifyAdditional
    BY <1>1, <1>8 DEF X!VerifyAdditional, X!VerifyReturns, X!sinkVars
  <1>9. CASE X!AdditionalDone
    BY <1>1, <1>9 DEF X!AdditionalDone, X!sinkVars
  <1>10. CASE X!VerifyFolder
    BY <1>1, <1>10 DEF X!VerifyFolder, X!VerifyReturns, X!sinkVars
  <1>11. CASE X!VerifyDone
    BY <1>1, <1>11 DEF X!VerifyDone, X!VerifyReturns, X!sinkVars
  <1>12. CASE X!SkipMember
    BY <1>4, <1>12 DEF X!SkipMember, X!sinkVars
  <1>13. CASE X!EmptyFile
    <2>1. stage = "members" /\ begun = finished /\ Running
      BY <1>2, <1>13 DEF X!EmptyFile, Running
    <2>2. CASE /\ begun' = Append(begun, item) /\ finished' = Append(finished, item)
               /\ item' = item + 1 /\ stage' = stage
      BY <1>7, <2>1, <2>2
    <2>3. CASE begun' \in {begun, Append(begun, item)} /\ X!Return("sink") /\ finished' = finished
      BY <1>5, <2>1, <2>3 DEF X!Return
    <2> QED
      BY <1>13, <2>2, <2>3 DEF X!EmptyFile
  <1>14. CASE X!EnterFolder
    <2>1. stage = "members" /\ UNCHANGED <<begun, finished>> /\ stage' # "chunks" /\ item' = item
      BY <1>14 DEF X!EnterFolder, X!sinkVars, X!Return
    <2> QED
      BY <1>4, <2>1
  <1>15. CASE X!BeginMember
    <2>1. stage = "members" /\ finished' = finished /\ item' = item
      BY <1>15 DEF X!BeginMember, X!Return
    <2>2. CASE begun' = Append(begun, item) /\ stage' = "chunks"
      BY <1>0, <1>2, <2>1, <2>2, OpenBracket
    <2>3. CASE begun' \in {begun, Append(begun, item)} /\ X!Return("sink")
      BY <1>5, <2>1, <2>3 DEF X!Return
    <2>4. CASE begun' = begun /\ X!Return(X!RangeResult)
      <3>1. stage' # "chunks"
        BY <2>4 DEF X!Return
      <3> QED
        BY <1>4, <2>1, <2>4, <3>1
    <2> QED
      BY <1>15, <2>2, <2>3, <2>4 DEF X!BeginMember
  <1>16. CASE X!WriteChunk
    <2>1. stage = "chunks" /\ UNCHANGED <<begun, finished, item>>
      BY <1>16 DEF X!WriteChunk, X!Return
    <2>2. stage' = "chunks" \/ (stage' = "done" /\ extracted' = "sink")
      BY <1>16 DEF X!WriteChunk, X!Return
    <2> QED
      BY <1>6, <2>1, <2>2
  <1>17. CASE X!FinishMember
    <2>1. stage = "chunks" /\ begun' = begun /\ Running
      BY <1>17 DEF X!FinishMember, Running
    <2>2. CASE finished' = Append(finished, item) /\ item' = item + 1 /\ stage' = "members"
      <3>1. begun' = Append(finished, item)
        BY <1>3, <2>1
      <3> QED
        BY <1>7, <2>1, <2>2, <3>1
    <2>3. ASSUME NEW r, r \notin {"none", "ok"}, X!Return(r), finished' = finished
          PROVE  BracketInv'
      BY <1>6, <2>1, <2>3 DEF X!Return
    <2>4. X!Damage(X!Current, "checksum") \notin {"none", "ok"}
      BY DamageType
    <2> QED
      BY <1>17, <2>2, <2>3, <2>4 DEF X!FinishMember
  <1>18. CASE X!ExtractDone
    <2>1. stage = "members" /\ UNCHANGED <<begun, finished, item>> /\ stage' # "chunks"
      BY <1>18 DEF X!ExtractDone, X!Return, X!sinkVars
    <2> QED
      BY <1>4, <2>1
  <1>19. CASE X!Interrupt
    <2>1. UNCHANGED <<begun, finished>>
      BY <1>19 DEF X!Interrupt, X!VerifyReturns, X!sinkVars
    <2>2. CASE stage \in {"additional", "verify"} /\ stage' = "members"
      BY <1>1, <2>1, <2>2
    <2>3. CASE stage = "members" /\ X!Return("interrupted")
      BY <1>4, <2>1, <2>3 DEF X!Return
    <2>4. CASE stage = "chunks" /\ X!Return("interrupted")
      BY <1>6, <2>1, <2>4 DEF X!Return
    <2> QED
      BY <1>19, <2>2, <2>3, <2>4 DEF X!Interrupt, X!VerifyReturns
  <1> QED
    BY <1>8, <1>9, <1>10, <1>11, <1>12, <1>13, <1>14, <1>15, <1>16, <1>17, <1>18, <1>19
    DEF X!Step
-----------------------------------------------------------------------------
(***************************************************************************)
(* Steps that preserve CountInv                                            *)
(***************************************************************************)
FilesBefore == {m \in X!Files : m < item}

LEMMA SubStartType ==
  ASSUME NEW g, X!FolderOK(g), NEW k \in 1 .. Len(g.subs)
  PROVE  /\ X!SubStart(g, k) \in Int
         /\ X!SubEnd(g, k, X!SubStart(g, k)) \in Int
  <1> DEFINE s == [j \in DOMAIN g.subs |-> g.subs[j].size]
  <1>1. /\ Len(g.subs) \in Nat /\ DOMAIN g.subs = 1 .. Len(g.subs) /\ g.actual \in Nat
        /\ \A j \in 1 .. Len(g.subs) : g.subs[j].size \in Sizes
    BY FolderFacts
  <1>2. \A j \in 1 .. Len(g.subs) : s[j] \in Int /\ g.subs[j].size \in Int
    BY <1>1 DEF Sizes, Unknown
  <1>3. X!SubStart(g, k) = X!SumFunctionOnSet(s, 1 .. k - 1)
    BY DEF X!SubStart, X!Offset
  <1> HIDE DEF s
  <1>4. IsFiniteSet(1 .. k - 1) /\ \A j \in 1 .. k - 1 : s[j] \in Int
    <2>1. 1 \in Int /\ k - 1 \in Int
      BY <1>1
    <2>2. IsFiniteSet(1 .. k - 1)
      BY <2>1, FS_Interval, Zenon
    <2>3. \A j \in 1 .. k - 1 : j \in 1 .. Len(g.subs)
      BY <1>1
    <2> QED
      BY <1>2, <2>2, <2>3
  <1>5. SumFunctionOnSet(s, 1 .. k - 1) \in Int
    BY <1>4, SumCongruence
  <1>6. X!SubStart(g, k) \in Int
    BY <1>3, <1>5, SumInstance
  <1> QED
    BY <1>1, <1>2, <1>6 DEF X!SubEnd

\* The size of a member's range.
LEMMA RangeSizeIs ==
  ASSUME BoundInv, OpenInv, stage # "closed", NEW m \in X!Streamed(archive.members)
  PROVE  LET g == archive.folders[archive.members[m].folder]
             k == archive.members[m].sub IN
         /\ RangeSizes[m] = X!SubEnd(g, k, X!SubStart(g, k)) - X!SubStart(g, k)
         /\ RangeSizes[m] \in Int
  <1> DEFINE g == archive.folders[archive.members[m].folder]
             k == archive.members[m].sub
  <1>1. X!OpenArchive(archive) /\ ShapeInv
    BY DEF BoundInv, OpenInv
  <1>2. X!FolderOK(g) /\ k \in 1 .. Len(g.subs)
    BY <1>1, MemberFacts DEF X!OpenArchive, ShapeInv
  <1>3. X!SubStart(g, k) \in Int /\ X!SubEnd(g, k, X!SubStart(g, k)) \in Int
    BY <1>2, SubStartType
  <1>4. X!RangeOf(m) = <<X!SubStart(g, k), X!SubEnd(g, k, X!SubStart(g, k))>>
    BY DEF X!RangeOf
  <1>5. RangeSizes[m] = X!RangeOf(m)[2] - X!RangeOf(m)[1]
    BY DEF RangeSizes
  <1>6. RangeSizes[m] = X!SubEnd(g, k, X!SubStart(g, k)) - X!SubStart(g, k)
    BY <1>4, <1>5
  <1> HIDE DEF g, k
  <1>7. RangeSizes[m] \in Int
    BY <1>3, <1>6
  <1> QED
    BY <1>6, <1>7 DEF g, k

LEMMA ArchiveFrame ==
  ASSUME archive' = archive
  PROVE  RangeSizes' = RangeSizes /\ X!Files' = X!Files
         /\ X!Streamed(archive.members)' = X!Streamed(archive.members)
  BY DEF RangeSizes, X!RangeOf, X!SubEnd, X!Files

\* The sets of what was passed, one member further.
LEMMA PassedSets ==
  ASSUME BoundInv, OpenInv, Running, item \in DOMAIN archive.members,
         archive' = archive, item' = item + 1
  PROVE  /\ FilesBefore' = IF item \in X!Files THEN FilesBefore \cup {item} ELSE FilesBefore
         /\ StreamedBefore' = IF item \in X!Streamed(archive.members)
                              THEN StreamedBefore \cup {item} ELSE StreamedBefore
         /\ item \notin StreamedBefore /\ IsFiniteSet(StreamedBefore)
         /\ StreamedBefore \subseteq X!Streamed(archive.members)
  <1>1. item \in Nat /\ DOMAIN archive.members = 1 .. Len(archive.members)
        /\ Len(archive.members) \in Nat
    BY DEF BoundInv, StageInv, ShapeInv
  <1>2. \A m \in DOMAIN archive.members : m < item + 1 <=> m < item \/ m = item
    BY <1>1
  <1>3. X!Files \subseteq DOMAIN archive.members
        /\ X!Streamed(archive.members) \subseteq DOMAIN archive.members
    BY DEF X!Files, X!Streamed
  <1>4. FilesBefore' = {m \in X!Files : m < item + 1}
    BY ArchiveFrame DEF FilesBefore
  <1>5. StreamedBefore' = {m \in X!Streamed(archive.members) : m < item + 1}
    BY DEF StreamedBefore
  <1>6. FilesBefore' = IF item \in X!Files THEN FilesBefore \cup {item} ELSE FilesBefore
    BY <1>2, <1>3, <1>4 DEF FilesBefore
  <1>7. StreamedBefore' = IF item \in X!Streamed(archive.members)
                          THEN StreamedBefore \cup {item} ELSE StreamedBefore
    BY <1>2, <1>3, <1>5 DEF StreamedBefore
  <1>8. item \notin StreamedBefore /\ StreamedBefore \subseteq X!Streamed(archive.members)
    BY <1>1 DEF StreamedBefore
  <1>9. IsFiniteSet(StreamedBefore)
    <2>1. IsFiniteSet(1 .. Len(archive.members))
      <3>1. 1 \in Int /\ Len(archive.members) \in Int
        BY <1>1
      <3> QED
        BY <3>1, FS_Interval, Zenon
    <2>2. StreamedBefore \subseteq 1 .. Len(archive.members)
      BY <1>1, <1>3, <1>8
    <2> QED
      BY <2>1, <2>2, FS_Subset
  <1> QED
    BY <1>6, <1>7, <1>8, <1>9

LEMMA FinishedAppend ==
  ASSUME finished \in Seq(Nat), item \in Nat, finished' = Append(finished, item)
  PROVE  X!FinishedSet' = X!FinishedSet \cup {item}
  <1> DEFINE n == Len(finished)
             t == finished'
  <1>1. /\ n \in Nat /\ DOMAIN finished = 1 .. n /\ DOMAIN t = 1 .. n + 1
        /\ \A i \in 1 .. n : t[i] = finished[i]
        /\ t[n + 1] = item
    BY AppendFacts
  <1> HIDE DEF n, t
  <1>2. \A i : i \in 1 .. n + 1 <=> i \in 1 .. n \/ i = n + 1
    BY <1>1
  <1>3. {t[i] : i \in DOMAIN t} = {finished[i] : i \in DOMAIN finished} \cup {item}
    BY <1>1, <1>2
  <1>4. X!FinishedSet' = {t[i] : i \in DOMAIN t}
    BY DEF X!FinishedSet, t
  <1> QED
    BY <1>3, <1>4 DEF X!FinishedSet

LEMMA CountKept ==
  ASSUME CountInv, Running, archive' = archive, item' = item, finished' = finished,
         delivered' = delivered, extracted' # "ok"
  PROVE  CountInv'
  <1>1. X!FinishedSet' = X!FinishedSet /\ FilesBefore' = FilesBefore
        /\ StreamedBefore' = StreamedBefore /\ RangeSizes' = RangeSizes
    BY ArchiveFrame DEF X!FinishedSet, FilesBefore, StreamedBefore
  <1>2. X!OkIsComplete'
    BY DEF X!OkIsComplete
  <1> QED
    BY <1>1, <1>2 DEF CountInv, FilesBefore

LEMMA CountReturn ==
  ASSUME ~ Running', extracted' # "ok"
  PROVE  CountInv'
  BY DEF CountInv, X!OkIsComplete

\* The loop moves past a member, finished if it is a file.
LEMMA CountPassed ==
  ASSUME BoundInv, OpenInv, BracketInv, CountInv, Running, item \in DOMAIN archive.members,
         archive' = archive, item' = item + 1, extracted' # "ok",
         IF item \in X!Files THEN finished' = Append(finished, item) ELSE finished' = finished,
         IF item \in X!Streamed(archive.members)
         THEN delivered' = delivered + RangeSizes[item] ELSE delivered' = delivered
  PROVE  CountInv'
  <1>1. /\ FilesBefore' = IF item \in X!Files THEN FilesBefore \cup {item} ELSE FilesBefore
        /\ StreamedBefore' = IF item \in X!Streamed(archive.members)
                             THEN StreamedBefore \cup {item} ELSE StreamedBefore
        /\ item \notin StreamedBefore /\ IsFiniteSet(StreamedBefore)
        /\ StreamedBefore \subseteq X!Streamed(archive.members)
    BY PassedSets
  <1>2. /\ X!FinishedSet = FilesBefore
        /\ delivered = SumFunctionOnSet(RangeSizes, StreamedBefore)
    BY DEF CountInv, FilesBefore
  <1>3. X!FinishedSet' = FilesBefore'
    <2>1. finished \in Seq(Nat) /\ item \in Nat
      BY DEF BracketInv, BoundInv, StageInv
    <2>2. CASE item \in X!Files
      BY <1>1, <1>2, <2>1, <2>2, FinishedAppend
    <2>3. CASE item \notin X!Files
      BY <1>1, <1>2, <2>3 DEF X!FinishedSet
    <2> QED
      BY <2>2, <2>3
  <1>4. delivered' = SumFunctionOnSet(RangeSizes', StreamedBefore')
    <2>1. RangeSizes' = RangeSizes
      BY ArchiveFrame
    <2>2. CASE item \in X!Streamed(archive.members)
      <3>1. \A y \in StreamedBefore \cup {item} : RangeSizes[y] \in Int
        <4>1. stage # "closed"
          BY DEF Running
        <4> QED
          BY <1>1, <2>2, <4>1, RangeSizeIs
      <3>2. SumFunctionOnSet(RangeSizes, StreamedBefore \cup {item}) =
              SumFunctionOnSet(RangeSizes, StreamedBefore) + RangeSizes[item]
        BY <1>1, <3>1, SumAdd
      <3> QED
        BY <1>1, <1>2, <2>1, <2>2, <3>2
    <2>3. CASE item \notin X!Streamed(archive.members)
      BY <1>1, <1>2, <2>1, <2>3
    <2> QED
      BY <2>2, <2>3
  <1>5. X!OkIsComplete'
    BY DEF X!OkIsComplete
  <1> QED
    BY <1>3, <1>4, <1>5 DEF CountInv, FilesBefore

LEMMA CountStart ==
  ASSUME BoundInv, OpenInv, stage \in {"additional", "verify"}, NEW r, X!VerifyReturns(r)
  PROVE  CountInv'
  <1>1. /\ stage' = "members" /\ item' = 1
        /\ UNCHANGED <<archive, extracted, delivered, finished>>
    BY DEF X!VerifyReturns, X!loopVars, X!sinkVars
  <1>2. /\ finished = << >> /\ delivered = 0 /\ extracted = "none"
        /\ DOMAIN archive.members = 1 .. Len(archive.members) /\ Len(archive.members) \in Nat
    BY DEF BoundInv, StageInv, Fresh, ShapeInv
  <1>3. \A m \in DOMAIN archive.members : ~ m < 1
    BY <1>2
  <1>4. {m \in X!Files : m < 1} = {} /\ StreamedBefore' = {}
    BY <1>1, <1>3 DEF X!Files, StreamedBefore, X!Streamed
  <1>5. X!FinishedSet' = {} /\ X!Files' = X!Files
    BY <1>1, <1>2, ArchiveFrame DEF X!FinishedSet
  <1>6. SumFunctionOnSet(RangeSizes', StreamedBefore') = 0
    BY <1>4, SumEmpty
  <1>7. X!OkIsComplete'
    BY <1>1, <1>2 DEF X!OkIsComplete
  <1> QED
    BY <1>1, <1>2, <1>4, <1>5, <1>6, <1>7 DEF CountInv

LEMMA ExtractDoneCount ==
  ASSUME BoundInv, CountInv, X!ExtractDone
  PROVE  CountInv'
  <1>1. /\ stage = "members" /\ Running /\ ~ Running' /\ item \notin DOMAIN archive.members
        /\ UNCHANGED <<archive, item, delivered, finished>>
    BY DEF X!ExtractDone, X!Return, X!loopVars, X!sinkVars, Running
  <1>2. /\ DOMAIN archive.members = 1 .. Len(archive.members) /\ Len(archive.members) \in Nat
        /\ item \in Nat \ {0}
    BY DEF BoundInv, StageInv, ShapeInv
  <1>3. \A m \in DOMAIN archive.members : m < item
    BY <1>1, <1>2
  <1>4. FilesBefore = X!Files /\ StreamedBefore = X!Streamed(archive.members)
    BY <1>3 DEF FilesBefore, StreamedBefore, X!Files, X!Streamed
  <1>5. X!FinishedSet = X!Files
        /\ delivered = SumFunctionOnSet(RangeSizes, X!Streamed(archive.members))
    BY <1>1, <1>4 DEF CountInv, FilesBefore
  <1>6. DOMAIN RangeSizes = X!Streamed(archive.members)
    BY DEF RangeSizes
  <1>7. X!SumFunction(RangeSizes) = SumFunctionOnSet(RangeSizes, X!Streamed(archive.members))
    <2>1. X!SumFunction(RangeSizes) = X!SumFunctionOnSet(RangeSizes, DOMAIN RangeSizes)
      BY DEF X!SumFunction
    <2> QED
      BY <1>6, <2>1, SumInstance
  <1>8. delivered = X!SumFunction([m \in X!Streamed(archive.members) |->
                                     X!RangeOf(m)[2] - X!RangeOf(m)[1]])
    BY <1>5, <1>7 DEF RangeSizes
  <1>9. X!OkIsComplete'
    <2>1. X!FinishedSet' = X!Files'
      BY <1>1, <1>5, ArchiveFrame, SMTT(40) DEF X!FinishedSet
    <2>2. delivered' = X!SumFunction([m \in X!Streamed(archive'.members) |->
                                        X!RangeOf(m)'[2] - X!RangeOf(m)'[1]])
      BY <1>1, <1>8 DEF X!RangeOf, X!SubEnd
    <2> QED
      BY <2>1, <2>2 DEF X!OkIsComplete
  <1> QED
    BY <1>1, <1>9 DEF CountInv

LEMMA OperationCount ==
  ASSUME BoundInv, OpenInv, BracketInv, CountInv, X!Step \/ X!Interrupt
  PROVE  CountInv'
  <1>1. ASSUME stage \in {"additional", "verify"}, stage' \in {"additional", "verify"},
               extracted' = extracted
        PROVE  CountInv'
    BY <1>1, CountReturn DEF BoundInv, StageInv, Running
  <1>2. ASSUME NEW r, r # "ok", X!Return(r)
        PROVE  CountInv'
    BY <1>2, CountReturn DEF X!Return, Running
  <1>3. stage # "done" => extracted = "none"
    BY DEF BoundInv, StageInv
  <1>4. CASE X!VerifyAdditional
    <2>1. CASE UNCHANGED <<stage, extracted>>
      BY <1>1, <1>4, <2>1 DEF X!VerifyAdditional
    <2>2. CASE \E r : X!VerifyReturns(r)
      BY <1>4, <2>2, CountStart DEF X!VerifyAdditional
    <2> QED
      BY <1>4, <2>1, <2>2 DEF X!VerifyAdditional
  <1>5. CASE X!AdditionalDone
    BY <1>1, <1>5 DEF X!AdditionalDone
  <1>6. CASE X!VerifyFolder
    <2>1. CASE UNCHANGED <<stage, extracted>>
      BY <1>1, <1>6, <2>1 DEF X!VerifyFolder
    <2>2. CASE \E r : X!VerifyReturns(r)
      BY <1>6, <2>2, CountStart DEF X!VerifyFolder
    <2> QED
      BY <1>6, <2>1, <2>2 DEF X!VerifyFolder
  <1>7. CASE X!VerifyDone
    BY <1>7, CountStart DEF X!VerifyDone
  <1>8. CASE X!SkipMember
    <2>1. /\ Running /\ item \in DOMAIN archive.members /\ item' = item + 1
          /\ UNCHANGED <<archive, extracted, delivered, finished>> /\ extracted # "ok"
          /\ X!Member.kind \in {"dir", "anti"}
      BY <1>3, <1>8 DEF X!SkipMember, X!loopVars, X!sinkVars, Running
    <2>2. item \notin X!Files /\ item \notin X!Streamed(archive.members)
      BY <2>1 DEF X!Files, X!Streamed, X!Member
    <2> QED
      BY <2>1, <2>2, CountPassed
  <1>9. CASE X!EmptyFile
    <2>1. /\ Running /\ item \in DOMAIN archive.members /\ extracted # "ok"
          /\ X!Member.kind = "empty" /\ delivered' = delivered
      BY <1>3, <1>9 DEF X!EmptyFile, X!loopVars, Running
    <2>2. item \in X!Files /\ item \notin X!Streamed(archive.members)
      BY <2>1 DEF X!Files, X!Streamed, X!Member
    <2>3. CASE /\ finished' = Append(finished, item) /\ item' = item + 1
               /\ UNCHANGED <<archive, extracted>>
      BY <2>1, <2>2, <2>3, CountPassed
    <2>4. CASE X!Return("sink")
      BY <1>2, <2>4
    <2> QED
      BY <1>9, <2>3, <2>4 DEF X!EmptyFile
  <1>10. CASE X!EnterFolder
    <2>1. Running /\ finished' = finished /\ extracted # "ok"
      BY <1>3, <1>10 DEF X!EnterFolder, X!sinkVars, Running
    <2>2. CASE UNCHANGED <<archive, extracted, item, delivered>>
      BY <2>1, <2>2, CountKept
    <2>3. CASE \E r : r # "ok" /\ X!Return(r)
      BY <1>2, <2>3
    <2> QED
      BY <1>10, <2>2, <2>3 DEF X!EnterFolder
  <1>11. CASE X!BeginMember
    <2>1. Running /\ UNCHANGED <<finished, delivered>> /\ extracted # "ok"
      BY <1>3, <1>11 DEF X!BeginMember, Running
    <2>2. CASE UNCHANGED <<archive, extracted, item>>
      BY <2>1, <2>2, CountKept
    <2>3. CASE \E r : r # "ok" /\ X!Return(r)
      BY <1>2, <2>3
    <2> QED
      BY <1>11, <2>2, <2>3 DEF X!BeginMember
  <1>12. CASE X!WriteChunk
    <2>1. Running /\ UNCHANGED <<finished, delivered>> /\ extracted # "ok"
      BY <1>3, <1>12 DEF X!WriteChunk, Running
    <2>2. CASE UNCHANGED <<archive, extracted, item>>
      BY <2>1, <2>2, CountKept
    <2>3. CASE X!Return("sink")
      BY <1>2, <2>3
    <2> QED
      BY <1>12, <2>2, <2>3 DEF X!WriteChunk
  <1>13. CASE X!FinishMember
    <2>1. stage = "chunks" /\ Running /\ extracted # "ok"
      BY <1>3, <1>13 DEF X!FinishMember, Running
    <2>2. CASE /\ finished' = Append(finished, item) /\ delivered' = delivered + (end - offset)
               /\ item' = item + 1 /\ UNCHANGED <<archive, extracted>>
      <3> DEFINE g == archive.folders[folder]
      <3>1. /\ item \in X!Streamed(archive.members) /\ item \in DOMAIN archive.members
            /\ X!Place(archive.members[item]) = <<folder, next>>
            /\ end = X!SubEnd(g, next, offset) /\ offset = X!SubStart(g, next)
        BY <2>1, InChunks
      <3>2. archive.members[item].folder = folder /\ archive.members[item].sub = next
        BY <3>1 DEF X!Place
      <3>3. RangeSizes[item] = X!SubEnd(g, next, X!SubStart(g, next)) - X!SubStart(g, next)
        BY <2>1, <3>1, <3>2, RangeSizeIs
      <3>4. RangeSizes[item] = end - offset
        BY <3>1, <3>3
      <3>5. item \in X!Files
        BY <3>1 DEF X!Files, X!Streamed
      <3> QED
        BY <2>1, <2>2, <3>1, <3>4, <3>5, CountPassed
    <2>3. X!Damage(X!Current, "checksum") # "ok"
      BY DamageType
    <2> QED
      BY <1>2, <1>13, <2>2, <2>3 DEF X!FinishMember
  <1>14. CASE X!ExtractDone
    BY <1>14, ExtractDoneCount
  <1>15. CASE X!Interrupt
    <2>1. CASE stage \in {"additional", "verify"} /\ X!VerifyReturns("interrupted")
      BY <2>1, CountStart
    <2>2. CASE X!Return("interrupted")
      BY <1>2, <2>2
    <2> QED
      BY <1>15, <2>1, <2>2 DEF X!Interrupt
  <1> QED
    BY <1>4, <1>5, <1>6, <1>7, <1>8, <1>9, <1>10, <1>11, <1>12, <1>13, <1>14, <1>15
    DEF X!Step
-----------------------------------------------------------------------------
(***************************************************************************)
(* The iterator of verify                                                  *)
(***************************************************************************)

\* The members with a stream, up to one of them.
LEMMA StreamedUpTo ==
  ASSUME MapInv, result = "ok", raw.hasFiles, NEW m \in 1 .. Len(members)
  PROVE  {j \in X!Streamed(members) : j <= m} = StreamsUpTo(m)
  <1>1. /\ members \in Seq(FileRecord) /\ Len(members) = Len(raw.emptyStream)
        /\ streamCursor = Len(mappings)
    BY DEF MapInv, FilesInv
  <1>2. Len(members) \in Nat /\ DOMAIN members = 1 .. Len(members) /\ m \in Nat
    BY <1>1
  <1>3. Len(mappings) = Rank(Len(members)) /\ Len(mappings) \in Nat
    BY <1>1 DEF MapInv, MappingInv
  <1>4. ASSUME NEW j \in X!Streamed(members), j <= m
        PROVE  j \in StreamsUpTo(m)
    <2>1. j \in 1 .. Len(members) /\ members[j].kind = "stream"
      BY <1>2 DEF X!Streamed
    <2>2. ~ raw.emptyStream[j]
      BY <2>1 DEF MapInv, PlacesInv
    <2>3. j \in 1 .. m
      BY <1>2, <1>4, <2>1
    <2> QED
      BY <2>2, <2>3 DEF StreamsUpTo
  <1>5. ASSUME NEW j \in 1 .. Len(members), ~ raw.emptyStream[j]
        PROVE  Rank(j) = Rank(j - 1) + 1 /\ Rank(j - 1) \in Nat /\ j - 1 \in Nat
    <2>1. PICK i \in Nat : i = j - 1
      BY <1>2
    <2>2. i + 1 = j
      BY <1>2, <2>1
    <2>3. Rank(i + 1) = Rank(i) + 1
      BY <1>5, <2>2, RankNext
    <2> QED
      BY <2>1, <2>2, <2>3, UpToFinite
  <1>6. ASSUME NEW j \in 1 .. m, ~ raw.emptyStream[j]
        PROVE  j \in X!Streamed(members) /\ j <= m
    <2>1. j \in 1 .. Len(members) /\ j \in Nat
      BY <1>2
    <2>2. Rank(j) = Rank(j - 1) + 1 /\ Rank(j - 1) \in Nat /\ j - 1 \in Nat
      BY <1>5, <1>6, <2>1
    <2>3. Rank(j) <= Rank(Len(members))
      BY <1>2, <2>1, RankMonotone
    <2>4. Rank(j) \in 1 .. streamCursor
      BY <1>1, <1>3, <2>2, <2>3
    <2>5. PICK i \in 1 .. Len(members) : members[i].kind = "stream" /\ Rank(i) = Rank(j)
      BY <2>4 DEF MapInv, PlacesInv
    <2>6. ~ raw.emptyStream[i]
      BY <2>5 DEF MapInv, PlacesInv
    <2>7. Rank(i) = Rank(i - 1) + 1 /\ Rank(i - 1) \in Nat /\ i - 1 \in Nat
      BY <1>5, <2>6
    <2>8. ~ i < j
      <3> SUFFICES ASSUME i < j PROVE FALSE
        OBVIOUS
      <3>1. i \in Nat /\ i <= j - 1
        BY <1>2, <2>1
      <3>2. Rank(i) <= Rank(j - 1)
        BY <2>2, <3>1, RankMonotone
      <3> QED
        BY <2>2, <2>5, <2>7, <3>2
    <2>9. ~ j < i
      <3> SUFFICES ASSUME j < i PROVE FALSE
        OBVIOUS
      <3>1. j <= i - 1
        BY <1>2, <2>1
      <3>2. Rank(j) <= Rank(i - 1)
        BY <2>1, <2>7, <3>1, RankMonotone
      <3> QED
        BY <2>2, <2>5, <2>7, <3>2
    <2>10. i = j
      BY <1>2, <2>1, <2>8, <2>9
    <2> QED
      BY <1>2, <2>1, <2>5, <2>10 DEF X!Streamed
  <1> QED
    BY <1>4, <1>6 DEF StreamsUpTo

LEMMA CardinalityInstance ==
  ASSUME NEW S
  PROVE  X!Cardinality(S) = Cardinality(S)
  BY DEF X!Cardinality, Cardinality

\* The archive that opens: the iterator yields a folder's members one after the
\* other, and has no member left behind the last.
LEMMA OpenIterator ==
  ASSUME MapInv, result = "ok", raw.hasFiles, NEW x \in Facts(raw), archive' = Opened(x)
  PROVE  /\ \A i \in DOMAIN archive'.folders : \A k \in DOMAIN archive'.folders[i].subs :
              X!IteratorPlace(i, k)' = <<i, k>>
         /\ Cardinality(X!Streamed(archive'.members)) = X!SumFunction(X!SubCounts')
  <1> DEFINE n == Len(folders)
             a == Opened(x)
  <1>1. /\ n \in Nat /\ DOMAIN folders = 1 .. n
        /\ DOMAIN SubsOf = 1 .. n
        /\ \A f \in 1 .. n : /\ SubsOf[f] \in Nat
                             /\ SubsOf[f] = Len(folders[f].subs)
                             /\ DOMAIN folders[f].subs = 1 .. SubsOf[f]
    BY SubsOfType DEF MapInv
  <1>2. /\ DOMAIN a.folders = 1 .. n /\ a.members = members
        /\ \A f \in 1 .. n : DOMAIN a.folders[f].subs = 1 .. SubsOf[f]
    BY <1>1 DEF Opened
  <1>3. \A f \in 1 .. n : Len(a.folders[f].subs) = SubsOf[f]
    <2> TAKE f \in 1 .. n
    <2>1. X!FolderOK(a.folders[f])
      BY <1>1, OpenedFolder
    <2>2. /\ Len(a.folders[f].subs) \in Nat
          /\ DOMAIN a.folders[f].subs = 1 .. Len(a.folders[f].subs)
      BY <2>1, FolderFacts
    <2> DEFINE p == Len(a.folders[f].subs)
               q == SubsOf[f]
    <2>3. p \in Nat /\ q \in Nat /\ 1 .. p = 1 .. q
      BY <1>1, <1>2, <2>2
    <2> HIDE DEF p, q
    <2>4. p = q
      BY <2>3
    <2> QED
      BY <2>4 DEF p, q
  <1>4. X!SubCounts' = SubsOf
    <2>1. X!SubCounts' = [j \in DOMAIN a.folders |-> Len(a.folders[j].subs)]
      BY DEF X!SubCounts
    <2>2. [j \in DOMAIN a.folders |-> Len(a.folders[j].subs)] = [j \in 1 .. n |-> SubsOf[j]]
      BY <1>2, <1>3
    <2>3. SubsOf = [j \in 1 .. n |-> SubsOf[j]]
      BY <1>1 DEF SubsOf
    <2> QED
      BY <2>1, <2>2, <2>3
  <1>5. /\ Pairs(mappings, SubsOf, n) /\ Len(mappings) = Rank(Len(raw.emptyStream))
        /\ members \in Seq(FileRecord) /\ Len(members) = Len(raw.emptyStream)
        /\ streamCursor = Len(mappings)
    BY DEF MapInv, MappingInv, FilesInv
  <1>6. Len(members) \in Nat /\ DOMAIN members = 1 .. Len(members)
    BY <1>5
  <1>7. archive' = a
    OBVIOUS
  <1> HIDE DEF a, n
  <1>8. ASSUME NEW m \in X!Streamed(members)
        PROVE  /\ m \in 1 .. Len(members) /\ m \in Nat /\ members[m].kind = "stream"
               /\ X!Yielded(m)' = Rank(m)
               /\ X!Place(members[m]) = mappings[Rank(m)]
    <2>1. m \in 1 .. Len(members) /\ members[m].kind = "stream"
      BY <1>6 DEF X!Streamed
    <2>2. {j \in X!Streamed(members) : j <= m} = StreamsUpTo(m)
      BY <2>1, StreamedUpTo
    <2>3. X!Yielded(m)' = X!Cardinality({j \in X!Streamed(members) : j <= m})
      BY <1>2, <1>7 DEF X!Yielded
    <2>4. X!Yielded(m)' = Rank(m)
      BY <2>2, <2>3, CardinalityInstance DEF Rank
    <2>5. Place(members[m]) = mappings[Rank(m)]
      BY <2>1 DEF MapInv, PlacesInv
    <2>6. X!Place(members[m]) = mappings[Rank(m)]
      BY <2>5 DEF X!Place, Place
    <2> QED
      BY <1>6, <2>1, <2>4, <2>6
  <1>9. ASSUME NEW i \in 1 .. n, NEW k \in 1 .. SubsOf[i]
        PROVE  X!IteratorPlace(i, k)' = <<i, k>>
    <2> DEFINE r == SumFunctionOnSet(SubsOf, 1 .. i - 1) + k
               nth == {m \in X!Streamed(members) : X!Yielded(m)' = r}
    <2>1. r \in 1 .. Len(mappings) /\ mappings[r] = <<i, k>>
      BY <1>5, <1>9 DEF Pairs
    <2>2. X!SumFunctionOnSet(X!SubCounts', 1 .. i - 1) + k = r
      BY <1>4, SumInstance
    <2> HIDE DEF r
    <2>3. PICK m \in 1 .. Len(members) : members[m].kind = "stream" /\ Rank(m) = r
      BY <1>5, <2>1 DEF MapInv, PlacesInv
    <2>4. m \in X!Streamed(members)
      BY <1>6, <2>3 DEF X!Streamed
    <2>5. m \in nth
      BY <1>8, <2>3, <2>4
    <2>6. ASSUME NEW j \in nth PROVE j = m
      <3>1. j \in X!Streamed(members) /\ Rank(j) = r
        BY <1>8
      <3>2. j \in 1 .. Len(members) /\ members[j].kind = "stream"
        BY <1>8, <3>1
      <3>3. ~ j < m
        <4>1. j < m => Rank(j) < Rank(m)
          BY <2>3, <3>2 DEF MapInv, PlacesInv
        <4>2. Rank(m) \in Nat
          BY <1>6, <2>3, UpToFinite
        <4> QED
          BY <2>3, <3>1, <4>1, <4>2
      <3>4. ~ m < j
        <4>1. m < j => Rank(m) < Rank(j)
          BY <2>3, <3>2 DEF MapInv, PlacesInv
        <4>2. Rank(m) \in Nat
          BY <1>6, <2>3, UpToFinite
        <4> QED
          BY <2>3, <3>1, <4>1, <4>2
      <3> QED
        BY <1>6, <2>3, <3>2, <3>3, <3>4
    <2> HIDE DEF nth
    <2>7. nth = {m} /\ m \in Nat
      <3>1. nth = {m}
        BY <2>5, <2>6
      <3>2. m \in Nat
        BY <1>6
      <3> QED
        BY <3>1, <3>2
    <2>8. X!Min({m}) = m
      BY <2>7 DEF X!Min
    <2>9. X!IteratorPlace(i, k)' =
            IF nth = {} THEN <<0, 0>> ELSE X!Place(members[X!Min(nth)])
      BY <1>2, <1>7, <2>2 DEF X!IteratorPlace, nth
    <2>10. X!IteratorPlace(i, k)' = X!Place(members[m])
      BY <2>7, <2>8, <2>9
    <2>11. X!Place(members[m]) = mappings[Rank(m)]
      BY <1>8, <2>4
    <2> QED
      BY <2>1, <2>3, <2>10, <2>11
  <1>10. Cardinality(X!Streamed(members)) = Len(mappings)
    <2>1. X!Streamed(members) = StreamsUpTo(Len(members))
      <3>1. CASE Len(members) = 0
        BY <1>6, <3>1 DEF X!Streamed, StreamsUpTo
      <3>2. CASE Len(members) # 0
        <4>1. Len(members) \in 1 .. Len(members)
          BY <1>6, <3>2
        <4>2. {j \in X!Streamed(members) : j <= Len(members)} = StreamsUpTo(Len(members))
          BY <4>1, StreamedUpTo
        <4>3. \A j \in X!Streamed(members) : j <= Len(members)
          BY <1>6 DEF X!Streamed
        <4> QED
          BY <4>2, <4>3
      <3> QED
        BY <3>1, <3>2
    <2> QED
      BY <1>5, <2>1 DEF Rank
  <1>11. X!SumFunction(X!SubCounts') = Len(mappings)
    <2>1. X!SumFunction(SubsOf) = X!SumFunctionOnSet(SubsOf, DOMAIN SubsOf)
      BY DEF X!SumFunction
    <2>2. X!SumFunction(SubsOf) = SumFunctionOnSet(SubsOf, 1 .. n)
      BY <1>1, <2>1, SumInstance DEF n
    <2>3. Len(mappings) = SumFunctionOnSet(SubsOf, 1 .. n)
      BY <1>5 DEF Pairs
    <2> QED
      BY <1>4, <2>2, <2>3
  <1>12. \A i \in DOMAIN archive'.folders : \A k \in DOMAIN archive'.folders[i].subs :
           X!IteratorPlace(i, k)' = <<i, k>>
    BY <1>2, <1>7, <1>9
  <1>13. Cardinality(X!Streamed(archive'.members)) = X!SumFunction(X!SubCounts')
    BY <1>2, <1>7, <1>10, <1>11
  <1> QED
    BY <1>12, <1>13
-----------------------------------------------------------------------------
(***************************************************************************)
(* No mapping error fires                                                  *)
(***************************************************************************)

\* Substreams of known size add up to the root output.
LEMMA KnownFolder ==
  ASSUME NEW g, X!FolderOK(g), limits.entry \in Nat, g.subs # << >>, ~ X!UnknownFinal(g)
  PROVE  g.root = X!Permitted(g)
  <1> DEFINE n == Len(g.subs)
             p == PermittedSizes(g)
             s == [j \in DOMAIN g.subs |-> g.subs[j].size]
  <1>1. n \in Nat /\ DOMAIN g.subs = 1 .. n /\ \A k \in 1 .. n : g.subs[k].size \in Sizes
    BY FolderFacts
  <1>2. \A k \in 1 .. n : g.subs[k].size # Unknown
    BY <1>1, UnknownInstance DEF X!UnknownFinal
  <1>3. /\ X!Permitted(g) = SumFunctionOnSet(p, 1 .. n) /\ IsFiniteSet(1 .. n)
        /\ \A k \in 1 .. n : p[k] \in Nat
    BY PermittedIs
  <1>4. \A k \in 1 .. n : p[k] = s[k] /\ p[k] = g.subs[k].size
    BY <1>1, <1>2 DEF PermittedSizes
  <1>5. n # 0
    <2>1. g.subs \in Seq([size : X!Sizes, crc : X!Verdicts])
      BY DEF X!FolderOK
    <2> QED
      BY <2>1
  <1>6. /\ n = 1 => g.subs[1].size = g.root
        /\ n > 1 => (g.subs[n].size # X!Unknown <=>
                       g.root # X!Unknown /\ \A k \in 1 .. n - 1 : g.subs[k].size # X!Unknown)
        /\ n > 1 /\ g.subs[n].size # X!Unknown => X!Offset(g.subs, n) = g.root
    BY DEF X!FolderOK, X!FolderCovered
  <1>7. X!Offset(g.subs, n) = SumFunctionOnSet(s, 1 .. n)
    BY SumInstance DEF X!Offset
  <1> HIDE DEF p, s, n
  <1>8. CASE n = 1
    <2>1. SumFunctionOnSet(p, 1 .. 0 + 1) = SumFunctionOnSet(p, 1 .. 0) + p[0 + 1]
      <3>1. 0 \in Nat /\ \A i \in 1 .. 0 + 1 : p[i] \in Int
        BY <1>3, <1>8
      <3> QED
        BY <3>1, SumNext, Zenon
    <2>2. 1 .. 0 = {} /\ 0 + 1 = 1
      OBVIOUS
    <2>3. SumFunctionOnSet(p, 1 .. 0) = 0
      BY <2>2, SumEmpty
    <2>4. SumFunctionOnSet(p, 1 .. 1) = p[1] /\ 1 \in 1 .. n
      BY <1>3, <1>8, <2>1, <2>2, <2>3
    <2> QED
      BY <1>3, <1>4, <1>6, <1>8, <2>4
  <1>9. CASE n # 1
    <2>1. n > 1 /\ n \in 1 .. n
      BY <1>1, <1>5, <1>9
    <2>2. X!Offset(g.subs, n) = g.root
      BY <1>2, <1>6, <2>1, UnknownInstance
    <2>3. SumFunctionOnSet(p, 1 .. n) = SumFunctionOnSet(s, 1 .. n)
      <3>1. \A x \in 1 .. n : p[x] = s[x] /\ p[x] \in Int
        BY <1>3, <1>4
      <3> QED
        BY <1>3, <3>1, SumCongruence, Zenon
    <2> QED
      BY <1>3, <1>7, <2>2, <2>3
  <1> QED
    BY <1>8, <1>9

\* "Folder substream sizes do not equal its root output size": never.
LEMMA AccountedNotInternal ==
  ASSUME NEW g, X!FolderOK(g), ShapeInv, total \in Nat
  PROVE  X!AccountedResult(g) # "internal"
  <1> DEFINE r == limits.total - total
             d == X!FolderResult(g, r)
  <1>1. limits.entry \in Nat /\ r \in Int
    BY LimitTypes
  <1>2. X!MaximumOutput(g, r) \in Int
    BY <1>1, MaximumOutputType
  <1>3. X!DecodeResult(g, X!MaximumOutput(g, r)) # "internal"
    BY <1>2, DecodeFacts
  <1>4. X!MaximumResult(g, r) # "internal"
    <2>1. ~ (g.subs # << >> /\ ~ X!UnknownFinal(g) /\ g.root # X!Permitted(g))
      BY <1>1, KnownFolder
    <2> QED
      BY <2>1 DEF X!MaximumResult
  <1>5. d # "internal"
    BY <1>3, <1>4 DEF X!FolderResult
  <1>6. X!AccountedResult(g) = IF d = "ok" /\ total + g.actual > limits.total THEN "limit" ELSE d
    BY DEF X!AccountedResult
  <1> QED
    BY <1>5, <1>6

\* The members that are left include that of the next substream.
LEMMA NextMember ==
  ASSUME BoundInv, OpenInv, IteratorInv, stage = "members", folder # 0,
         next <= Len(archive.folders[folder].subs)
  PROVE  \E i \in X!Streamed(archive.members) :
           X!Place(archive.members[i]) = <<folder, next>> /\ ~ i < item
  <1>1. folder \in 1 .. Len(archive.folders) /\ next \in 1 .. Len(archive.folders[folder].subs)
    <2>1. /\ folder \in 0 .. Len(archive.folders) /\ next \in Nat \ {0}
          /\ Len(archive.folders) \in Nat
          /\ next \in 1 .. Len(archive.folders[folder].subs) + 1
      BY DEF BoundInv, PositionInv, ShapeInv
    <2>2. folder \in 1 .. Len(archive.folders)
      BY <2>1
    <2>3. X!FolderOK(archive.folders[folder])
      BY <2>2 DEF BoundInv, OpenInv, ShapeInv, X!OpenArchive
    <2>4. Len(archive.folders[folder].subs) \in Nat
      BY <2>3, FolderFacts
    <2> QED
      BY <2>1, <2>2, <2>4
  <1>2. archive.hasFiles /\ ShapeInv /\ X!OpenArchive(archive)
    BY DEF IteratorInv, BoundInv, OpenInv
  <1>3. PICK i \in X!Streamed(archive.members) : X!Place(archive.members[i]) = <<folder, next>>
    BY <1>1, <1>2, SubstreamMember
  <1>4. i < item <=> X!Before(<<folder, next>>, <<folder, next>>)
    BY <1>3 DEF BoundInv, OrderInv, Running
  <1>5. ~ X!Before(<<folder, next>>, <<folder, next>>)
    <2>1. folder \in Int /\ next \in Int
      BY <1>1
    <2> QED
      BY <2>1, BeforeIs
  <1> QED
    BY <1>3, <1>4, <1>5

\* A member that is up and the one of the next substream, not yet passed.
LEMMA NextIsUp ==
  ASSUME BoundInv, OpenInv, IteratorInv, stage = "members", item \in DOMAIN archive.members,
         X!Member.kind = "stream", folder # 0, next <= Len(archive.folders[folder].subs)
  PROVE  X!Member.folder = folder /\ X!Member.sub = next
  <1>1. PICK i \in X!Streamed(archive.members) :
          X!Place(archive.members[i]) = <<folder, next>> /\ ~ i < item
    BY NextMember
  <1>2. /\ item \in X!Streamed(archive.members) /\ item \in 1 .. Len(archive.members)
        /\ X!Member.folder \in Nat /\ X!Member.sub \in Nat
        /\ X!Place(archive.members[item]) = <<X!Member.folder, X!Member.sub>>
        /\ ~ X!Before(<<X!Member.folder, X!Member.sub>>, <<folder, next>>)
    <2>1. Len(archive.folders) \in Nat /\ Len(X!Current.subs) \in Nat
      BY AtMember, FolderFacts DEF BoundInv, ShapeInv
    <2> QED
      BY <2>1, AtMember
  <1>3. ShapeInv /\ X!OpenArchive(archive) /\ folder \in Nat /\ next \in Nat
        /\ i \in 1 .. Len(archive.members) /\ Len(archive.members) \in Nat
    <2>1. ShapeInv /\ X!OpenArchive(archive)
      BY DEF BoundInv, OpenInv
    <2> QED
      BY <2>1, MemberFacts DEF BoundInv, PositionInv, ShapeInv
  <1>4. CASE i = item
    BY <1>1, <1>2, <1>4
  <1>5. CASE i # item
    <2>1. item < i
      BY <1>1, <1>2, <1>3, <1>5
    <2>2. X!Before(X!Place(archive.members[item]), X!Place(archive.members[i]))
      BY <1>2, <1>3, <2>1, MemberOrder
    <2> QED
      BY <1>1, <1>2, <2>2
  <1> QED
    BY <1>4, <1>5

\* "Left folder substreams unmapped": never, when a new folder is entered and
\* at the end; and a member is the next of its folder.
LEMMA NothingUnmapped ==
  ASSUME BoundInv, OpenInv, IteratorInv, stage = "members"
  PROVE  /\ item \notin DOMAIN archive.members => ~ X!LeftUnmapped
         /\ X!EnterFolder => ~ X!LeftUnmapped
         /\ X!BeginMember => X!RangeResult # "internal"
  <1>1. folder # 0 => /\ next \in 1 .. Len(archive.folders[folder].subs) + 1
                      /\ Len(archive.folders[folder].subs) \in Nat
    <2>1. ASSUME folder # 0
          PROVE  /\ folder \in 1 .. Len(archive.folders)
                 /\ next \in 1 .. Len(archive.folders[folder].subs) + 1
      BY <2>1 DEF BoundInv, PositionInv, ShapeInv
    <2>2. ASSUME folder # 0 PROVE Len(archive.folders[folder].subs) \in Nat
      <3>1. X!FolderOK(archive.folders[folder])
        BY <2>1, <2>2 DEF BoundInv, OpenInv, ShapeInv, X!OpenArchive
      <3> QED
        BY <3>1, FolderFacts
    <2> QED
      BY <2>1, <2>2
  <1>2. ASSUME X!LeftUnmapped
        PROVE  folder # 0 /\ next <= Len(archive.folders[folder].subs)
    BY <1>1, <1>2 DEF X!LeftUnmapped
  <1>3. ASSUME item \notin DOMAIN archive.members PROVE ~ X!LeftUnmapped
    <2> SUFFICES ASSUME X!LeftUnmapped PROVE FALSE
      OBVIOUS
    <2>1. PICK i \in X!Streamed(archive.members) : ~ i < item
      BY <1>2, NextMember
    <2>2. /\ i \in DOMAIN archive.members /\ DOMAIN archive.members = 1 .. Len(archive.members)
          /\ Len(archive.members) \in Nat /\ item \in Nat \ {0}
      BY DEF X!Streamed, BoundInv, ShapeInv, StageInv
    <2> QED
      BY <1>3, <2>1, <2>2
  <1>4. ASSUME X!EnterFolder PROVE ~ X!LeftUnmapped
    <2>1. item \in DOMAIN archive.members /\ X!Member.kind = "stream" /\ folder # X!Member.folder
      BY <1>4 DEF X!EnterFolder
    <2> QED
      BY <1>2, <2>1, NextIsUp
  <1>5. ASSUME X!BeginMember PROVE X!RangeResult # "internal"
    <2>1. item \in DOMAIN archive.members /\ X!Member.kind = "stream" /\ folder = X!Member.folder
      BY <1>5 DEF X!BeginMember
    <2>2. /\ X!Member.folder \in 1 .. Len(archive.folders)
          /\ X!Current = archive.folders[X!Member.folder]
          /\ X!Member.sub \in 1 .. Len(X!Current.subs)
          /\ ~ X!Before(<<X!Member.folder, X!Member.sub>>, <<folder, next>>)
      BY <2>1, AtMember
    <2>3. folder # 0 /\ folder \in Nat
      BY <2>1, <2>2
    <2>4. ~ X!Member.sub < next
      BY <2>1, <2>2, BeforeIs
    <2>5. next <= Len(archive.folders[folder].subs)
      BY <1>1, <2>1, <2>2, <2>3, <2>4
    <2>6. X!Member.sub = next
      BY <2>1, <2>3, <2>5, NextIsUp
    <2> QED
      BY <2>6 DEF X!RangeResult
  <1> QED
    BY <1>3, <1>4, <1>5

\* The iterator's places belong to the archive alone.
LEMMA PlacesKept ==
  ASSUME archive' = archive
  PROVE  /\ \A i, k : X!IteratorPlace(i, k)' = X!IteratorPlace(i, k)
         /\ X!SubCounts' = X!SubCounts
  <1>1. X!SubCounts' = X!SubCounts
    BY DEF X!SubCounts
  <1>2. \A m : X!Yielded(m)' = X!Yielded(m)
    BY DEF X!Yielded
  <1>3. \A i, k : X!IteratorPlace(i, k)' = X!IteratorPlace(i, k)
    BY <1>1, <1>2 DEF X!IteratorPlace
  <1> QED
    BY <1>1, <1>3

\* An archive without files has nothing for the iterator to yield.
LEMMA NothingYielded ==
  ASSUME archive.members = << >>, NEW i, NEW k
  PROVE  X!IteratorPlace(i, k) = <<0, 0>> /\ X!Streamed(archive.members) = {}
  <1>1. X!Streamed(archive.members) = {}
    BY DEF X!Streamed
  <1> QED
    BY <1>1 DEF X!IteratorPlace

LEMMA LeastMin ==
  ASSUME NEW S \in SUBSET Nat, S # {}
  PROVE  X!Min(S) \in S
  BY LeastElement DEF X!Min

\* verify_folder_members: no mapping error on an archive with files, and on
\* one without only folders without substreams pass.
LEMMA FolderVerdict ==
  ASSUME BoundInv, OpenInv, IteratorInv, stage # "closed", NEW i \in DOMAIN archive.folders
  PROVE  /\ X!MembersVerdict(i) # "internal"
         /\ X!MembersVerdict(i) = "ok" /\ ~ archive.hasFiles => archive.folders[i].subs = << >>
  <1> DEFINE f == archive.folders[i]
             bad == {k \in DOMAIN f.subs :
                       \/ X!IteratorPlace(i, k) # <<i, k>>
                       \/ X!SubEnd(f, k, X!SubStart(f, k)) > f.actual
                       \/ X!Mismatch(f.subs[k].crc)}
             v == X!MembersVerdict(i)
             k1 == X!Min(bad)
             damage == X!Damage(f, "checksum")
  <1>1. v = IF bad = {} THEN (IF X!Mismatch(f.crc) THEN damage ELSE "ok")
            ELSE IF X!IteratorPlace(i, k1) # <<i, k1>>
                 THEN (IF archive.hasFiles THEN "internal" ELSE "format")
            ELSE IF X!SubEnd(f, k1, X!SubStart(f, k1)) > f.actual THEN "format"
            ELSE damage
    BY DEF X!MembersVerdict
  <1>2. damage \in {"password", "checksum"}
    BY DamageType
  <1>3. X!OpenArchive(archive) /\ X!FolderOK(f)
    BY DEF OpenInv, X!OpenArchive
  <1>4. DOMAIN f.subs = 1 .. Len(f.subs) /\ Len(f.subs) \in Nat
    BY <1>3, FolderFacts
  <1>5. bad # {} => k1 \in bad /\ k1 \in DOMAIN f.subs
    <2>1. bad \in SUBSET Nat
      BY <1>4
    <2> HIDE DEF bad
    <2>2. bad # {} => k1 \in bad
      BY <2>1, LeastMin
    <2> QED
      BY <2>2 DEF bad
  <1>6. ASSUME archive.hasFiles PROVE bad # {} => X!IteratorPlace(i, k1) = <<i, k1>>
    BY <1>5, <1>6 DEF IteratorInv
  <1>7. ASSUME ~ archive.hasFiles, bad = {} PROVE f.subs = << >>
    <2>1. archive.members = << >>
      BY <1>3, <1>7 DEF X!OpenArchive
    <2>2. \A k \in DOMAIN f.subs : X!IteratorPlace(i, k) = <<0, 0>>
      BY <2>1, NothingYielded
    <2>3. i # 0
      BY DEF BoundInv, ShapeInv
    <2>4. DOMAIN f.subs = {}
      BY <1>7, <2>2, <2>3
    <2>5. f.subs \in Seq([size : X!Sizes, crc : X!Verdicts])
      BY <1>3 DEF X!FolderOK
    <2> HIDE DEF f
    <2>6. Len(f.subs) = 0
      BY <1>4, <2>4
    <2> QED
      BY <2>5, <2>6
  <1> HIDE DEF bad, k1, damage, v
  <1>8. v # "internal"
    BY <1>1, <1>2, <1>6
  <1>9. v = "ok" => bad = {}
    BY <1>1, <1>2
  <1> QED
    BY <1>7, <1>8, <1>9 DEF v

\* "Folder substream has no mapped member": verify has gone through all.
LEMMA VerifyEnds ==
  ASSUME BoundInv, OpenInv, IteratorInv, stage = "verify", item \notin DOMAIN archive.folders
  PROVE  X!Cardinality(X!Streamed(archive.members)) = X!SumFunction(X!SubCounts)
  <1>1. CASE archive.hasFiles
    BY <1>1, CardinalityInstance DEF IteratorInv
  <1>2. CASE ~ archive.hasFiles
    <2>1. X!OpenArchive(archive)
      BY DEF OpenInv
    <2>2. X!Streamed(archive.members) = {}
      BY <1>2, <2>1, NothingYielded DEF X!OpenArchive
    <2>3. X!Cardinality(X!Streamed(archive.members)) = 0
      BY <2>2, CardinalityInstance, FS_EmptySet
    <2>4. DOMAIN archive.folders = 1 .. Len(archive.folders) /\ Len(archive.folders) \in Nat
          /\ item \in Nat \ {0}
      BY DEF BoundInv, ShapeInv, StageInv
    <2>5. \A i \in DOMAIN archive.folders : i < item
      BY <2>4
    <2>6. \A i \in DOMAIN archive.folders : archive.folders[i].subs = << >>
      BY <1>2, <2>5 DEF IteratorInv
    <2>7. DOMAIN X!SubCounts = DOMAIN archive.folders
          /\ \A i \in DOMAIN archive.folders : X!SubCounts[i] = 0
      BY <2>6 DEF X!SubCounts
    <2>8. IsFiniteSet(DOMAIN archive.folders)
      BY <2>4, FS_Interval
    <2>9. SumFunctionOnSet(X!SubCounts, DOMAIN X!SubCounts) = 0
      BY <2>7, <2>8, SumZero
    <2>10. X!SumFunction(X!SubCounts) = 0
      BY <2>9, SumInstance DEF X!SumFunction
    <2> QED
      BY <2>3, <2>10
  <1> QED
    BY <1>1, <1>2

LEMMA OperationIterator ==
  ASSUME BoundInv, OpenInv, IteratorInv, X!Step \/ X!Interrupt
  PROVE  IteratorInv'
  <1>1. archive' = archive /\ stage # "closed"
    BY OperationFrame
  <1>2. stage' # "closed" /\ archive'.hasFiles =>
          /\ \A i \in DOMAIN archive'.folders : \A k \in DOMAIN archive'.folders[i].subs :
               X!IteratorPlace(i, k)' = <<i, k>>
          /\ Cardinality(X!Streamed(archive'.members)) = X!SumFunction(X!SubCounts')
    BY <1>1, PlacesKept DEF IteratorInv
  <1>3. ASSUME stage' = "verify"
        PROVE  X!AdditionalDone \/ X!VerifyFolder
    BY <1>3 DEF X!Step, X!Interrupt, X!VerifyAdditional, X!VerifyDone, X!SkipMember,
       X!EmptyFile, X!EnterFolder, X!BeginMember, X!WriteChunk, X!FinishMember,
       X!ExtractDone, X!VerifyReturns, X!Return
  <1>4. ASSUME stage' = "verify", ~ archive.hasFiles, NEW i \in DOMAIN archive.folders, i < item'
        PROVE  archive.folders[i].subs = << >>
    <2>1. i \in Nat \ {0} /\ item \in Nat
      BY DEF BoundInv, ShapeInv, StageInv
    <2>2. CASE X!AdditionalDone
      BY <1>4, <2>1, <2>2 DEF X!AdditionalDone
    <2>3. CASE X!VerifyFolder
      <3>1. stage = "verify" /\ item \in DOMAIN archive.folders
        BY <2>3 DEF X!VerifyFolder
      <3>2. item' = item + 1 /\ X!MembersVerdict(item) = "ok"
        BY <1>4, <2>3 DEF X!VerifyFolder, X!VerifyReturns
      <3>3. i < item \/ i = item
        BY <1>4, <2>1, <3>2
      <3>4. archive.folders[item].subs = << >>
        BY <1>1, <1>4, <3>1, <3>2, FolderVerdict
      <3> QED
        BY <1>4, <3>1, <3>3, <3>4 DEF IteratorInv
    <2> QED
      BY <1>3, <1>4, <2>2, <2>3
  <1>5. folder' # 0 => archive.hasFiles
    <2>1. CASE folder' = folder
      BY <2>1 DEF IteratorInv
    <2>2. CASE folder' # folder
      <3>1. X!EnterFolder
        BY <2>2 DEF X!Step, X!Interrupt, X!VerifyAdditional, X!AdditionalDone, X!VerifyFolder,
           X!VerifyDone, X!SkipMember, X!EmptyFile, X!BeginMember, X!WriteChunk, X!FinishMember,
           X!ExtractDone, X!VerifyReturns, X!loopVars
      <3>2. item \in X!Streamed(archive.members)
        BY <3>1 DEF X!EnterFolder, X!Streamed, X!Member
      <3>3. ShapeInv /\ X!OpenArchive(archive)
        BY <1>1 DEF BoundInv, OpenInv
      <3> QED
        BY <3>2, <3>3, MemberFacts
    <2> QED
      BY <2>1, <2>2
  <1> QED
    BY <1>1, <1>2, <1>4, <1>5 DEF IteratorInv

LEMMA OperationNotInternal ==
  ASSUME BoundInv, OpenInv, IteratorInv, X!NoInternalError, X!Step \/ X!Interrupt
  PROVE  X!NoInternalError'
  <1>1. verified # "internal" /\ extracted # "internal"
    BY DEF X!NoInternalError
  <1>2. stage # "closed" /\ X!OpenArchive(archive) /\ ShapeInv /\ total \in Nat
    <2>1. stage # "closed"
      BY OperationFrame
    <2>2. limits.total \in Nat /\ total \in 0 .. limits.total
      BY LimitTypes DEF BoundInv, StageInv
    <2> QED
      BY <2>1, <2>2 DEF BoundInv, OpenInv
  <1>3. ASSUME NEW r, r # "internal", X!VerifyReturns(r)
        PROVE  X!NoInternalError'
    BY <1>1, <1>3 DEF X!VerifyReturns, X!NoInternalError
  <1>4. ASSUME NEW r, r # "internal", X!Return(r)
        PROVE  X!NoInternalError'
    BY <1>1, <1>4 DEF X!Return, X!NoInternalError
  <1>5. ASSUME UNCHANGED <<verified, extracted>>
        PROVE  X!NoInternalError'
    BY <1>1, <1>5 DEF X!NoInternalError
  <1>6. CASE X!VerifyAdditional
    <2> DEFINE f == archive.additional[item]
               maximum == X!Smaller(limits.header - total, limits.total - total)
               decoded == X!DecodeResult(f, maximum)
               verdict == IF decoded = "ok" THEN X!AdditionalVerdict(f) ELSE decoded
    <2>1. X!FolderOK(f)
      BY <1>2, <1>6 DEF X!VerifyAdditional, X!OpenArchive
    <2>2. maximum \in Int
      BY <1>2, LimitTypes DEF X!Smaller
    <2>3. decoded # "internal"
      BY <2>1, <2>2, DecodeFacts
    <2>4. verdict # "internal"
      BY <2>3, AdditionalType
    <2>5. UNCHANGED <<verified, extracted>> \/ X!VerifyReturns(verdict)
      BY <1>6 DEF X!VerifyAdditional
    <2> QED
      BY <1>3, <1>5, <2>4, <2>5
  <1>7. CASE X!AdditionalDone
    BY <1>5, <1>7 DEF X!AdditionalDone
  <1>8. CASE X!VerifyFolder
    <2> DEFINE f == archive.folders[item]
               decoded == X!AccountedResult(f)
               verdict == IF decoded = "ok" THEN X!MembersVerdict(item) ELSE decoded
    <2>1. item \in DOMAIN archive.folders
      BY <1>8 DEF X!VerifyFolder
    <2>2. decoded # "internal"
      BY <1>2, <2>1, AccountedNotInternal DEF X!OpenArchive
    <2>3. X!MembersVerdict(item) # "internal"
      BY <1>2, <2>1, FolderVerdict
    <2>4. UNCHANGED <<verified, extracted>> \/ X!VerifyReturns(verdict)
      BY <1>8 DEF X!VerifyFolder
    <2> QED
      BY <1>3, <1>5, <2>2, <2>3, <2>4
  <1>9. CASE X!VerifyDone
    <2>1. X!VerifyReturns("ok")
      BY <1>9, VerifyEnds DEF X!VerifyDone
    <2> QED
      BY <1>3, <2>1
  <1>10. CASE X!SkipMember
    BY <1>5, <1>10 DEF X!SkipMember
  <1>11. CASE X!EmptyFile
    <2>1. UNCHANGED <<verified, extracted>> \/ X!Return("sink")
      BY <1>11 DEF X!EmptyFile
    <2> QED
      BY <1>4, <1>5, <2>1
  <1>12. CASE X!EnterFolder
    <2> DEFINE decoded == X!AccountedResult(X!Current)
               verdict == IF X!LeftUnmapped THEN "internal"
                          ELSE IF decoded = "ok" /\ X!Mismatch(X!Current.crc)
                               THEN X!Damage(X!Current, "checksum")
                          ELSE decoded
    <2>1. stage = "members" /\ item \in DOMAIN archive.members /\ X!Member.kind = "stream"
      BY <1>12 DEF X!EnterFolder
    <2>2. X!FolderOK(X!Current)
      BY <2>1, AtMember
    <2>3. decoded # "internal"
      BY <1>2, <2>2, AccountedNotInternal
    <2>4. ~ X!LeftUnmapped
      BY <1>12, <2>1, NothingUnmapped
    <2>5. X!Damage(X!Current, "checksum") # "internal"
      BY DamageType
    <2>6. verdict # "internal"
      BY <2>3, <2>4, <2>5
    <2>7. UNCHANGED <<verified, extracted>> \/ X!Return(verdict)
      BY <1>12 DEF X!EnterFolder
    <2> QED
      BY <1>4, <1>5, <2>6, <2>7
  <1>13. CASE X!BeginMember
    <2>1. stage = "members"
      BY <1>13 DEF X!BeginMember
    <2>2. X!RangeResult # "internal"
      BY <1>13, <2>1, NothingUnmapped
    <2>3. \/ UNCHANGED <<verified, extracted>>
          \/ X!Return("sink")
          \/ X!Return(X!RangeResult)
      BY <1>13 DEF X!BeginMember
    <2> QED
      BY <1>4, <1>5, <2>2, <2>3
  <1>14. CASE X!WriteChunk
    <2>1. UNCHANGED <<verified, extracted>> \/ X!Return("sink")
      BY <1>14 DEF X!WriteChunk
    <2> QED
      BY <1>4, <1>5, <2>1
  <1>15. CASE X!FinishMember
    <2>1. X!Damage(X!Current, "checksum") # "internal"
      BY DamageType
    <2>2. \/ UNCHANGED <<verified, extracted>>
          \/ X!Return("sink")
          \/ X!Return(X!Damage(X!Current, "checksum"))
      BY <1>15 DEF X!FinishMember
    <2> QED
      BY <1>4, <1>5, <2>1, <2>2
  <1>16. CASE X!ExtractDone
    <2>1. ~ X!LeftUnmapped
      BY <1>16, NothingUnmapped DEF X!ExtractDone
    <2>2. X!Return("ok")
      BY <1>16, <2>1 DEF X!ExtractDone
    <2> QED
      BY <1>4, <2>2
  <1>17. CASE X!Interrupt
    <2>1. X!VerifyReturns("interrupted") \/ X!Return("interrupted")
      BY <1>17 DEF X!Interrupt
    <2> QED
      BY <1>3, <1>4, <2>1
  <1> QED
    BY <1>6, <1>7, <1>8, <1>9, <1>10, <1>11, <1>12, <1>13, <1>14, <1>15, <1>16, <1>17
    DEF X!Step
-----------------------------------------------------------------------------
(***************************************************************************)
(* The sink is served                                                      *)
(***************************************************************************)
LEMMA ServedFrame ==
  ASSUME ServedInv, UNCHANGED operationVars
  PROVE  ServedInv'
  <1>1. UNCHANGED <<archive, limits, stage, verified, extracted, item, total, folder, next,
                    offset, end, cursor, delivered, decodes, begun, got, finished>>
    BY DEF operationVars
  <1>2. BracketInv'
    BY <1>1 DEF ServedInv, BracketInv, X!SinkSeesBrackets, Running
  <1>3. CountInv'
    <2>1. StreamedBefore' = StreamedBefore /\ RangeSizes' = RangeSizes /\ X!Files' = X!Files
      BY <1>1, ArchiveFrame DEF StreamedBefore
    <2>2. X!FinishedSet' = X!FinishedSet
      BY <1>1 DEF X!FinishedSet
    <2>3. X!OkIsComplete'
      <3>1. X!SumFunction(RangeSizes)' = X!SumFunction(RangeSizes)
        BY <2>1
      <3> QED
        BY <1>1, <2>1, <2>2, <3>1 DEF ServedInv, CountInv, X!OkIsComplete, RangeSizes
    <2> QED
      BY <1>1, <2>1, <2>2, <2>3 DEF ServedInv, CountInv, Running
  <1>4. IteratorInv'
    BY <1>1, PlacesKept DEF ServedInv, IteratorInv
  <1>5. X!NoInternalError'
    BY <1>1 DEF ServedInv, X!NoInternalError
  <1> QED
    BY <1>2, <1>3, <1>4, <1>5 DEF ServedInv

LEMMA OpenServed ==
  ASSUME IInv, BoundInv, ServedInv, Open
  PROVE  ServedInv'
  <1>1. PICK x \in Facts(raw) :
          /\ result = "ok" /\ stage = "closed" /\ stage' = "additional"
          /\ archive' = Opened(x)
          /\ UNCHANGED <<verified, extracted, item, folder, delivered, begun, finished>>
    BY DEF Open, X!Open
  <1>2. Fresh /\ extracted = "none"
    BY <1>1 DEF BoundInv, StageInv
  <1>3. BracketInv'
    BY <1>1, <1>2, NothingSeen DEF Fresh
  <1>4. CountInv'
    BY <1>1, <1>2 DEF CountInv, Running, X!OkIsComplete
  <1>5. IteratorInv'
    <2>1. archive'.hasFiles = raw.hasFiles
      BY <1>1 DEF Opened
    <2>2. ASSUME raw.hasFiles
          PROVE  /\ \A i \in DOMAIN archive'.folders : \A k \in DOMAIN archive'.folders[i].subs :
                      X!IteratorPlace(i, k)' = <<i, k>>
                 /\ Cardinality(X!Streamed(archive'.members)) = X!SumFunction(X!SubCounts')
      BY <1>1, <2>2, OpenIterator DEF IInv
    <2>3. folder' = 0
      BY <1>1, <1>2 DEF Fresh
    <2> QED
      BY <1>1, <2>1, <2>2, <2>3 DEF IteratorInv
  <1>6. X!NoInternalError'
    BY <1>1 DEF ServedInv, X!NoInternalError
  <1> QED
    BY <1>3, <1>4, <1>5, <1>6 DEF ServedInv

LEMMA InitServed ==
  ASSUME Init
  PROVE  ServedInv
  <1>1. /\ stage = "closed" /\ begun = << >> /\ finished = << >> /\ folder = 0
        /\ verified = "none" /\ extracted = "none"
    BY DEF Init, X!Init
  <1>2. BracketInv
    <2>1. begun \in Seq(Nat) /\ finished \in Seq(Nat) /\ Len(begun) = 0 /\ Len(finished) = 0
          /\ DOMAIN begun = {} /\ DOMAIN finished = {}
      BY <1>1
    <2>2. X!SinkSeesBrackets
      BY <2>1 DEF X!SinkSeesBrackets
    <2> QED
      BY <1>1, <2>1, <2>2 DEF BracketInv
  <1>3. CountInv
    BY <1>1 DEF CountInv, Running, X!OkIsComplete
  <1>4. IteratorInv /\ X!NoInternalError
    BY <1>1 DEF IteratorInv, X!NoInternalError
  <1> QED
    BY <1>2, <1>3, <1>4 DEF ServedInv

LEMMA NextServed ==
  ASSUME IInv, BoundInv, ServedInv, [Next]_vars
  PROVE  ServedInv'
  <1>1. OpenInv
    BY DEF IInv
  <1>2. CASE Validate \/ ValidateInterrupted \/ UNCHANGED vars
    BY <1>2, ServedFrame DEF Validate, ValidateInterrupted, vars
  <1>3. CASE Open
    BY <1>3, OpenServed
  <1>4. CASE Operate \/ OperateInterrupted
    <2>1. X!Step \/ X!Interrupt
      BY <1>4 DEF Operate, OperateInterrupted
    <2> QED
      BY <1>1, <2>1, OperationBrackets, OperationCount, OperationIterator, OperationNotInternal
      DEF ServedInv
  <1> QED
    BY <1>2, <1>3, <1>4 DEF Next, Step

\* archive.rs, extract_entries_to: begin_entry and finish_entry come in pairs
\* and in member order, "on error, no later member is started and the current
\* member is not finalized", success means that every file was finished and its
\* bytes counted, and the mapping errors of verify and extraction never fire,
\* for archives of any size and whatever the sink does.
THEOREM SinkServed == Spec => []SinkIsServed
  <1>1. Init => BoundInv /\ ServedInv
    BY InitBound, InitServed
  <1>2. IInv /\ BoundInv /\ ServedInv /\ [Next]_vars => BoundInv' /\ ServedInv'
    BY NextBound, NextServed
  <1>3. ServedInv => SinkIsServed
    BY DEF ServedInv, BracketInv, CountInv, SinkIsServed, X!SinkIsServed
  <1> QED
    BY <1>1, <1>2, <1>3, AlwaysIInv, PTL DEF Spec
-----------------------------------------------------------------------------
(***************************************************************************)
(* The operations agree                                                    *)
(***************************************************************************)

\* A folder that decodes within an allowance decodes within a larger one.
LEMMA ResultGrows ==
  ASSUME NEW g, X!FolderOK(g), limits.entry \in Nat, NEW r \in Int, NEW q \in Int, r <= q,
         X!FolderResult(g, r) = "ok"
  PROVE  X!FolderResult(g, q) = "ok"
  <1>1. X!MaximumResult(g, r) = "ok" /\ X!DecodeResult(g, X!MaximumOutput(g, r)) = "ok"
    BY DEF X!FolderResult
  <1>2. g.actual \in Nat /\ g.root \in Sizes /\ (g.root # Unknown => g.actual = g.root)
    BY FolderFacts, UnknownInstance DEF X!FolderOK
  <1>3. X!Permitted(g) \in Nat
    BY PermittedIs
  <1>4. /\ X!MaximumOutput(g, r) \in Int /\ X!MaximumOutput(g, q) \in Int
        /\ X!MaximumOutput(g, r) <= X!MaximumOutput(g, q)
    BY <1>3 DEF X!MaximumOutput, X!Smaller
  <1>5. ~ g.damaged /\ g.actual <= X!MaximumOutput(g, r)
    BY <1>1, <1>4, DecodeFacts
  <1>6. X!MaximumOutput(g, r) <= r
    BY MaximumOutputType
  <1>7. g.root # Unknown => ~ g.root > X!MaximumOutput(g, q) /\ ~ g.root > q
    <2> SUFFICES ASSUME g.root # Unknown
                 PROVE  ~ g.root > X!MaximumOutput(g, q) /\ ~ g.root > q
      OBVIOUS
    <2>1. g.root = g.actual
      BY <1>2
    <2> QED
      BY <1>2, <1>4, <1>5, <1>6, <2>1
  <1>8. X!MaximumResult(g, q) = "ok"
    BY <1>1, <1>7, UnknownInstance DEF X!MaximumResult
  <1>9. X!DecodeResult(g, X!MaximumOutput(g, q)) = "ok"
    <2> DEFINE M == X!MaximumOutput(g, q)
    <2>1. ~ (g.root # X!Unknown /\ g.root > M)
      BY <1>7, UnknownInstance
    <2>2. ~ g.damaged /\ g.actual <= M /\ ~ g.actual > M
      <3>1. M \in Int /\ g.actual <= M
        BY <1>2, <1>4, <1>5
      <3> QED
        BY <1>2, <1>5, <3>1
    <2> HIDE DEF M
    <2>3. X!DecodeResult(g, M) = "ok"
      BY <2>1, <2>2 DEF X!DecodeResult
    <2> QED
      BY <2>3 DEF M
  <1> QED
    BY <1>8, <1>9 DEF X!FolderResult

\* Its substreams are small enough, and only the last may have no size.
LEMMA ResultSubs ==
  ASSUME NEW g, X!FolderOK(g), limits.entry \in Nat, NEW r \in Int,
         X!FolderResult(g, r) = "ok", NEW k \in 1 .. Len(g.subs)
  PROVE  /\ g.subs[k].size = Unknown => k = Len(g.subs)
         /\ g.subs[k].size # Unknown => g.subs[k].size <= limits.entry
  <1>1. X!MaximumResult(g, r) = "ok"
    BY DEF X!FolderResult
  <1>2. {j \in DOMAIN g.subs : X!Refused(g, j)} = {}
    BY <1>1 DEF X!MaximumResult
  <1>3. k \in DOMAIN g.subs /\ g.subs[k].size \in Sizes
    BY FolderFacts
  <1>4. ~ X!Refused(g, k)
    BY <1>2, <1>3
  <1>5. g.subs[k].size # Unknown => ~ g.subs[k].size > limits.entry
    BY <1>4, UnknownInstance DEF X!Refused
  <1>6. g.subs[k].size = Unknown => k = Len(g.subs)
    BY <1>4, UnknownInstance DEF X!Refused
  <1>7. g.subs[k].size # Unknown => g.subs[k].size <= limits.entry
    BY <1>3, <1>5 DEF Sizes
  <1> QED
    BY <1>6, <1>7

\* What the last substream gets is no more than an entry may have.
LEMMA FinalSlice ==
  ASSUME NEW g, X!FolderOK(g), limits.entry \in Nat, NEW r \in Int,
         X!FolderResult(g, r) = "ok", NEW n \in Nat \ {0}, n = Len(g.subs),
         g.subs[n].size = Unknown
  PROVE  g.actual - X!SubStart(g, n) <= limits.entry
  <1> DEFINE p == PermittedSizes(g)
             s == [j \in DOMAIN g.subs |-> g.subs[j].size]
  <1>1. DOMAIN g.subs = 1 .. n /\ g.actual \in Nat /\ \A k \in 1 .. n : g.subs[k].size \in Sizes
    BY FolderFacts
  <1>2. /\ X!Permitted(g) = SumFunctionOnSet(p, 1 .. n)
        /\ \A k \in 1 .. n : p[k] \in Nat
    BY PermittedIs
  <1>3. X!DecodeResult(g, X!MaximumOutput(g, r)) = "ok"
    BY DEF X!FolderResult
  <1>4. X!MaximumOutput(g, r) \in Int
    BY MaximumOutputType
  <1>5. g.actual <= X!MaximumOutput(g, r)
    BY <1>3, <1>4, DecodeFacts
  <1>6. g.subs # << >>
    <2>1. Len(<< >>) = 0
      OBVIOUS
    <2> QED
      BY <2>1
  <1>7. X!Permitted(g) \in Nat
    BY PermittedIs
  <1>8. g.actual <= X!Permitted(g)
    <2>1. X!MaximumOutput(g, r) = IF X!Permitted(g) <= r THEN X!Permitted(g) ELSE r
      BY <1>6 DEF X!MaximumOutput, X!Smaller
    <2> QED
      BY <1>1, <1>4, <1>5, <1>7, <2>1
  <1>9. PICK l \in Nat : n = l + 1
    <2>1. n - 1 \in Nat /\ n = n - 1 + 1
      OBVIOUS
    <2> QED
      BY <2>1
  <1>10. \A k \in 1 .. l : p[k] = s[k] /\ p[k] \in Int
    <2> TAKE k \in 1 .. l
    <2>1. k \in 1 .. n /\ k # n
      BY <1>9
    <2>2. g.subs[k].size # Unknown
      BY <2>1, ResultSubs
    <2>3. k \in DOMAIN g.subs
      BY <1>1, <2>1
    <2>4. p[k] = g.subs[k].size /\ s[k] = g.subs[k].size
      BY <2>2, <2>3 DEF PermittedSizes
    <2>5. p[k] \in Nat
      BY <1>2, <2>1
    <2> HIDE DEF p, s
    <2> QED
      BY <2>4, <2>5
  <1>11. p[n] = limits.entry
    <2>1. n \in 1 .. n
      OBVIOUS
    <2> QED
      BY <1>1, <2>1 DEF PermittedSizes
  <1>12. X!SubStart(g, n) = SumFunctionOnSet(s, 1 .. n - 1)
    BY SumInstance DEF X!SubStart, X!Offset
  <1> HIDE DEF p, s
  <1>13. SumFunctionOnSet(p, 1 .. l + 1) = SumFunctionOnSet(p, 1 .. l) + p[l + 1]
         /\ SumFunctionOnSet(p, 1 .. l) \in Int
    <2>1. \A k \in 1 .. l + 1 : p[k] \in Int
      BY <1>2, <1>9
    <2> QED
      BY <2>1, SumNext, Zenon
  <1>14. SumFunctionOnSet(p, 1 .. l) = SumFunctionOnSet(s, 1 .. l)
    <2>1. 1 \in Int /\ l \in Int
      OBVIOUS
    <2>2. IsFiniteSet(1 .. l)
      BY <2>1, FS_Interval, Zenon
    <2> QED
      BY <1>10, <2>2, SumCongruence, Zenon
  <1>15. n - 1 = l
    BY <1>9
  <1>16. X!Permitted(g) = X!SubStart(g, n) + limits.entry /\ X!SubStart(g, n) \in Int
    BY <1>2, <1>9, <1>11, <1>12, <1>13, <1>14, <1>15
  <1> QED
    BY <1>1, <1>7, <1>8, <1>16

\* verify_folder_members accepts a folder.
LEMMA VerdictOk ==
  ASSUME NEW i, X!MembersVerdict(i) = "ok"
  PROVE  LET f == archive.folders[i] IN
         /\ ~ X!Mismatch(f.crc)
         /\ \A k \in DOMAIN f.subs : /\ ~ X!SubEnd(f, k, X!SubStart(f, k)) > f.actual
                                     /\ ~ X!Mismatch(f.subs[k].crc)
  <1> DEFINE f == archive.folders[i]
             bad == {k \in DOMAIN f.subs :
                       \/ X!IteratorPlace(i, k) # <<i, k>>
                       \/ X!SubEnd(f, k, X!SubStart(f, k)) > f.actual
                       \/ X!Mismatch(f.subs[k].crc)}
             k1 == X!Min(bad)
             damage == X!Damage(f, "checksum")
             v == X!MembersVerdict(i)
  <1>1. v = IF bad = {} THEN (IF X!Mismatch(f.crc) THEN damage ELSE "ok")
            ELSE IF X!IteratorPlace(i, k1) # <<i, k1>>
                 THEN (IF archive.hasFiles THEN "internal" ELSE "format")
            ELSE IF X!SubEnd(f, k1, X!SubStart(f, k1)) > f.actual THEN "format"
            ELSE damage
    BY DEF X!MembersVerdict
  <1>2. damage \in {"password", "checksum"} /\ v = "ok"
    BY DamageType
  <1> HIDE DEF bad, k1, damage, v
  <1>3. bad = {} /\ ~ X!Mismatch(f.crc)
    BY <1>1, <1>2
  <1> QED
    BY <1>3 DEF bad

\* The folders before one, and with it.
LEMMA BeforeFacts ==
  ASSUME ShapeInv, X!OpenArchive(archive), NEW i \in 1 .. Len(archive.folders)
  PROVE  /\ ActualBefore(i) \in Nat /\ archive.folders[i].actual \in Nat
         /\ ActualBefore(i + 1) = ActualBefore(i) + archive.folders[i].actual
         /\ \A j \in 1 .. i : ActualBefore(j) \in Nat /\ ActualBefore(j) <= ActualBefore(i)
  <1> DEFINE n == Len(archive.folders)
             a == Actuals
  <1>1. n \in Nat /\ DOMAIN archive.folders = 1 .. n
    BY DEF ShapeInv
  <1>2. \A k \in 1 .. n : a[k] \in Nat /\ a[k] = archive.folders[k].actual
    BY <1>1, FolderFacts DEF Actuals, X!OpenArchive
  <1>3. PICK l \in Nat : i = l + 1
    <2>1. i - 1 \in Nat /\ i = i - 1 + 1
      BY <1>1
    <2> QED
      BY <2>1
  <1> HIDE DEF a, n
  <1>4. i - 1 = l /\ i + 1 - 1 = l + 1
    BY <1>3
  <1>5. \A k \in 1 .. l + 1 : a[k] \in Nat
    BY <1>1, <1>2, <1>3 DEF n
  <1>6. SumFunctionOnSet(a, 1 .. l + 1) = SumFunctionOnSet(a, 1 .. l) + a[l + 1]
    <2>1. \A k \in 1 .. l + 1 : a[k] \in Int
      BY <1>5
    <2> QED
      BY <2>1, SumNext, Zenon
  <1>7. ActualBefore(i + 1) = ActualBefore(i) + archive.folders[i].actual
    BY <1>2, <1>3, <1>4, <1>6 DEF ActualBefore, a, n
  <1>8. \A k \in 1 .. l : a[k] \in Nat
    BY <1>5
  <1>9. IsFiniteSet(1 .. l)
    <2>1. 1 \in Int /\ l \in Int
      OBVIOUS
    <2> QED
      BY <2>1, FS_Interval, Zenon
  <1>10. ASSUME NEW j \in 1 .. i
         PROVE  ActualBefore(j) \in Nat /\ ActualBefore(j) <= ActualBefore(i)
    <2>1. 1 .. j - 1 \subseteq 1 .. l
      BY <1>3
    <2>2. /\ SumFunctionOnSet(a, 1 .. j - 1) \in Nat
          /\ SumFunctionOnSet(a, 1 .. j - 1) <= SumFunctionOnSet(a, 1 .. l)
      BY <1>8, <1>9, <2>1, SumNatural
    <2> QED
      BY <1>4, <2>2 DEF ActualBefore, a
  <1>11. i \in 1 .. i
    BY <1>3
  <1> QED
    BY <1>2, <1>7, <1>10, <1>11 DEF n

LEMMA FirstBefore ==
  ASSUME TRUE
  PROVE  ActualBefore(1) = 0
  <1>1. 1 .. 1 - 1 = {}
    OBVIOUS
  <1> QED
    BY <1>1, SumEmpty DEF ActualBefore

\* What the two operations judge belongs to the archive and the limits.
LEMMA JudgementKept ==
  ASSUME archive' = archive, limits' = limits
  PROVE  /\ \A i : ActualBefore(i)' = ActualBefore(i)
         /\ \A i : Passes(i)' <=> Passes(i)
         /\ \A f : Decodes(f)' <=> Decodes(f)
         /\ \A m : X!ExtractEntry(m)' = X!ExtractEntry(m)
  <1>1. Actuals' = Actuals
    BY DEF Actuals
  <1>2. \A i : ActualBefore(i)' = ActualBefore(i)
    BY <1>1 DEF ActualBefore
  <1>3. \A f : X!Permitted(f)' = X!Permitted(f)
    BY DEF X!Permitted
  <1>4. \A f, r : X!MaximumResult(f, r)' = X!MaximumResult(f, r)
    BY <1>3 DEF X!MaximumResult, X!Refused
  <1>5. \A f, r : X!MaximumOutput(f, r)' = X!MaximumOutput(f, r)
    BY <1>3 DEF X!MaximumOutput
  <1>6. \A f, r : X!FolderResult(f, r)' = X!FolderResult(f, r)
    BY <1>4, <1>5 DEF X!FolderResult
  <1>7. \A i : Passes(i)' <=> Passes(i)
    BY <1>2, <1>6 DEF Passes
  <1>8. \A f : Decodes(f)' <=> Decodes(f)
    BY <1>6 DEF Decodes
  <1>9. \A f, k : X!BoundsResult(f, k)' = X!BoundsResult(f, k)
    BY SMTT(40) DEF X!BoundsResult
  <1>10. \A m : X!ExtractEntry(m)' = X!ExtractEntry(m)
    BY <1>6, <1>9 DEF X!ExtractEntry
  <1> QED
    BY <1>2, <1>7, <1>8, <1>10

\* Steps that neither return nor move the loops.
LEMMA AgreeKept ==
  ASSUME AgreeInv, UNCHANGED <<archive, limits, stage, verified, extracted, item, total, folder,
                               finished>>
  PROVE  AgreeInv'
  <1>1. /\ \A i : ActualBefore(i)' = ActualBefore(i)
        /\ \A i : Passes(i)' <=> Passes(i)
        /\ \A f : Decodes(f)' <=> Decodes(f)
        /\ \A m : X!ExtractEntry(m)' = X!ExtractEntry(m)
    BY JudgementKept
  <1>2. X!FinishedSet' = X!FinishedSet
    BY DEF X!FinishedSet
  <1>3. X!OperationsAgree'
    BY <1>1, <1>2 DEF AgreeInv, X!OperationsAgree, X!VerifiedExtracts, X!FinishedIsExtractable
  <1> QED
    BY <1>1, <1>3 DEF AgreeInv, Running

\* extract_entries_to goes on or returns: what is left to show of a step of it.
LEMMA ExtractAgree ==
  ASSUME BoundInv, AgreeInv, Running, UNCHANGED <<archive, limits, verified>>,
         stage' \in {"members", "chunks", "done"},
         verified = "ok" => extracted' \in {"none", "ok", "sink", "interrupted"},
         Running' => total' <= ActualBefore(folder' + 1),
         Running' /\ folder' # 0 => Decodes(archive.folders[folder']),
         \A m \in X!FinishedSet' : m \in X!FinishedSet \/ X!ExtractEntry(m) = "ok"
  PROVE  AgreeInv'
  <1>1. /\ \A i : ActualBefore(i)' = ActualBefore(i)
        /\ \A i : Passes(i)' <=> Passes(i)
        /\ \A f : Decodes(f)' <=> Decodes(f)
        /\ \A m : X!ExtractEntry(m)' = X!ExtractEntry(m)
    BY JudgementKept
  <1>2. \A m \in X!FinishedSet' : X!ExtractEntry(m)' = "ok"
    BY <1>1 DEF AgreeInv, X!OperationsAgree, X!FinishedIsExtractable
  <1>3. X!OperationsAgree'
    BY <1>2 DEF X!OperationsAgree, X!VerifiedExtracts, X!FinishedIsExtractable
  <1>4. ActualBefore(folder + 1)' = ActualBefore(folder' + 1)
    BY <1>1
  <1>5. Running' /\ folder' # 0 => Decodes(archive.folders[folder])'
    BY <1>1
  <1>6. verified' = "ok" => \A i \in DOMAIN archive'.folders : Passes(i)'
    BY <1>1 DEF AgreeInv
  <1> QED
    BY <1>3, <1>4, <1>5, <1>6 DEF AgreeInv

\* verify returns.
LEMMA VerifyReturnsAgree ==
  ASSUME BoundInv, AgreeInv, stage \in {"additional", "verify"}, NEW r, X!VerifyReturns(r),
         r = "ok" => \A i \in DOMAIN archive.folders : Passes(i)
  PROVE  AgreeInv'
  <1>1. /\ \A i : ActualBefore(i)' = ActualBefore(i)
        /\ \A i : Passes(i)' <=> Passes(i)
    BY JudgementKept DEF X!VerifyReturns
  <1>2. /\ verified' = r /\ stage' = "members" /\ total' = 0
        /\ UNCHANGED <<archive, extracted, folder, finished>>
    BY DEF X!VerifyReturns, X!loopVars, X!sinkVars
  <1>3. folder = 0 /\ finished = << >> /\ extracted = "none"
    BY DEF BoundInv, StageInv, Fresh
  <1>4. X!OperationsAgree'
    <2>1. X!FinishedSet' = {}
      BY <1>2, <1>3 DEF X!FinishedSet
    <2> QED
      BY <1>2, <1>3, <2>1 DEF X!OperationsAgree, X!VerifiedExtracts, X!FinishedIsExtractable
  <1>5. ActualBefore(folder + 1)' = 0
    <2>1. ActualBefore(folder + 1)' = ActualBefore(folder' + 1)
      BY <1>1
    <2>2. folder' + 1 = 1
      BY <1>2, <1>3
    <2> QED
      BY <2>1, <2>2, FirstBefore
  <1>6. verified' = "ok" => \A i \in DOMAIN archive'.folders : Passes(i)'
    BY <1>1, <1>2
  <1> QED
    BY <1>2, <1>3, <1>4, <1>5, <1>6 DEF AgreeInv

\* verify goes on to the next folder.
LEMMA VerifyFolderAgree ==
  ASSUME BoundInv, OpenInv, AgreeInv, X!VerifyFolder
  PROVE  AgreeInv'
  <1> DEFINE f == archive.folders[item]
             decoded == X!AccountedResult(f)
             verdict == IF decoded = "ok" THEN X!MembersVerdict(item) ELSE decoded
  <1>1. stage = "verify" /\ item \in DOMAIN archive.folders
    BY DEF X!VerifyFolder
  <1>2. ShapeInv /\ X!OpenArchive(archive) /\ X!FolderOK(f) /\ item \in 1 .. Len(archive.folders)
    BY <1>1, FolderAt DEF BoundInv, OpenInv
  <1>3. /\ total \in Nat /\ limits.total \in Nat /\ limits.entry \in Nat /\ f.actual \in Nat
        /\ Len(archive.folders) \in Nat
    BY <1>2, WrittenType, LimitTypes, FolderFacts DEF ShapeInv
  <1>4. ActualBefore(item) <= total /\ \A i \in DOMAIN archive.folders : i < item => Passes(i)
    BY <1>1 DEF AgreeInv
  <1>5. ActualBefore(item) \in Nat /\ ActualBefore(item + 1) = ActualBefore(item) + f.actual
    BY <1>2, BeforeFacts
  <1>6. CASE verdict # "ok" /\ X!VerifyReturns(verdict)
    BY <1>1, <1>6, VerifyReturnsAgree
  <1>7. CASE /\ verdict = "ok" /\ total' = total + f.actual /\ item' = item + 1
             /\ UNCHANGED <<archive, limits, stage, verified, extracted, X!loopVars, X!sinkVars>>
    <2>1. decoded = "ok" /\ X!MembersVerdict(item) = "ok"
      BY <1>7
    <2>2. /\ X!FolderResult(f, limits.total - total) = "ok"
          /\ total + f.actual <= limits.total
      <3>1. \A r \in Int : X!MaximumOutput(f, r) \in Int
        BY <1>2, <1>3, MaximumOutputType
      <3> QED
        BY <1>2, <1>3, <2>1, <3>1, AccountedFacts
    <2>3. X!FolderResult(f, limits.total - ActualBefore(item)) = "ok"
      <3>1. limits.total - total \in Int /\ limits.total - ActualBefore(item) \in Int
            /\ limits.total - total <= limits.total - ActualBefore(item)
        BY <1>3, <1>4, <1>5, SMTT(40)
      <3> QED
        BY <1>2, <1>3, <2>2, <3>1, ResultGrows
    <2>4. ActualBefore(item) + f.actual <= limits.total
      BY <1>3, <1>4, <1>5, <2>2, SMTT(40)
    <2>5. Passes(item)
      BY <2>1, <2>3, <2>4, VerdictOk DEF Passes
    <2>6. ActualBefore(item + 1) <= total'
      BY <1>3, <1>4, <1>5, <1>7
    <2>7. \A i \in DOMAIN archive.folders : i < item + 1 => Passes(i)
      <3>1. \A i \in DOMAIN archive.folders : i < item + 1 => i < item \/ i = item
        BY <1>2, <1>3 DEF ShapeInv
      <3> QED
        BY <1>4, <2>5, <3>1
    <2>8. /\ \A i : ActualBefore(i)' = ActualBefore(i)
          /\ \A i : Passes(i)' <=> Passes(i)
          /\ \A m : X!ExtractEntry(m)' = X!ExtractEntry(m)
      BY <1>7, JudgementKept
    <2>9. ActualBefore(item)' <= total' /\ \A i \in DOMAIN archive'.folders : i < item' => Passes(i)'
      <3>1. ActualBefore(item)' = ActualBefore(item + 1)
        BY <1>7, <2>8
      <3> QED
        BY <1>7, <2>6, <2>7, <2>8, <3>1
    <2>10. X!OperationsAgree'
      <3>1. X!FinishedSet' = X!FinishedSet
        BY <1>7 DEF X!FinishedSet, X!sinkVars
      <3> QED
        BY <1>7, <2>8, <3>1
        DEF AgreeInv, X!OperationsAgree, X!VerifiedExtracts, X!FinishedIsExtractable
    <2> QED
      BY <1>1, <1>7, <2>9, <2>10 DEF AgreeInv, Running
  <1> QED
    BY <1>6, <1>7 DEF X!VerifyFolder

\* extract_entries_to enters a folder.
LEMMA EnterFolderAgree ==
  ASSUME BoundInv, OpenInv, IteratorInv, AgreeInv, X!EnterFolder
  PROVE  AgreeInv'
  <1> DEFINE F == X!Member.folder
             g == X!Current
             decoded == X!AccountedResult(g)
             verdict == IF X!LeftUnmapped THEN "internal"
                        ELSE IF decoded = "ok" /\ X!Mismatch(g.crc)
                             THEN X!Damage(g, "checksum")
                        ELSE decoded
  <1>1. /\ stage = "members" /\ item \in DOMAIN archive.members
        /\ X!Member.kind = "stream" /\ folder # F /\ finished' = finished
    BY DEF X!EnterFolder, X!sinkVars
  <1>2. Running /\ X!FinishedSet' = X!FinishedSet
    BY <1>1 DEF Running, X!FinishedSet
  <1>3. /\ F \in 1 .. Len(archive.folders) /\ g = archive.folders[F] /\ X!FolderOK(g)
        /\ folder < F /\ Len(archive.folders) \in Nat /\ folder \in Nat
        /\ ShapeInv /\ X!OpenArchive(archive)
    BY <1>1, AtMember, EntersLater, SMTT(30) DEF BoundInv, PositionInv, ShapeInv, OpenInv
  <1>4. /\ total \in Nat /\ limits.total \in Nat /\ limits.entry \in Nat /\ g.actual \in Nat
    BY <1>3, WrittenType, LimitTypes, FolderFacts
  <1>5. /\ ActualBefore(F) \in Nat /\ ActualBefore(F + 1) = ActualBefore(F) + g.actual
        /\ total <= ActualBefore(F)
    <2>1. ActualBefore(F) \in Nat /\ ActualBefore(F + 1) = ActualBefore(F) + g.actual
          /\ \A j \in 1 .. F : ActualBefore(j) \in Nat /\ ActualBefore(j) <= ActualBefore(F)
      BY <1>3, BeforeFacts
    <2>2. folder + 1 \in 1 .. F
      BY <1>3
    <2>3. total <= ActualBefore(folder + 1)
      BY <1>2 DEF AgreeInv
    <2> QED
      BY <1>4, <2>1, <2>2, <2>3
  <1>6. decoded = "ok" => X!FolderResult(g, limits.total - total) = "ok"
    <2>1. \A r \in Int : X!MaximumOutput(g, r) \in Int
      BY <1>3, <1>4, MaximumOutputType
    <2> QED
      BY <1>3, <1>4, <2>1, AccountedFacts
  <1>7. verified = "ok" => verdict = "ok"
    <2> SUFFICES ASSUME verified = "ok" PROVE verdict = "ok"
      OBVIOUS
    <2>1. F \in DOMAIN archive.folders
      BY <1>3 DEF ShapeInv
    <2>2. Passes(F)
      BY <2>1 DEF AgreeInv
    <2>3. /\ X!FolderResult(g, limits.total - ActualBefore(F)) = "ok"
          /\ ActualBefore(F) + g.actual <= limits.total
          /\ ~ X!Mismatch(g.crc)
      BY <1>3, <2>2 DEF Passes
    <2>4. X!FolderResult(g, limits.total - total) = "ok"
      <3>1. limits.total - total \in Int /\ limits.total - ActualBefore(F) \in Int
            /\ limits.total - ActualBefore(F) <= limits.total - total
        BY <1>4, <1>5
      <3> QED
        BY <1>3, <1>4, <2>3, <3>1, ResultGrows
    <2>5. ~ total + g.actual > limits.total
      BY <1>4, <1>5, <2>3
    <2>6. decoded = "ok"
      BY <2>4, <2>5 DEF X!AccountedResult
    <2>7. ~ X!LeftUnmapped
      BY <1>1, NothingUnmapped
    <2> QED
      BY <2>3, <2>6, <2>7
  <1>8. CASE /\ verdict = "ok" /\ total' = total + g.actual /\ folder' = F
             /\ UNCHANGED <<archive, limits, stage, verified, extracted>>
    <2>1. decoded = "ok" /\ ~ X!Mismatch(g.crc)
      <3>1. X!Damage(g, "checksum") # "ok"
        BY DamageType
      <3> QED
        BY <1>8, <3>1
    <2>2. X!FolderResult(g, limits.total) = "ok"
      <3>1. limits.total - total \in Int /\ limits.total \in Int
            /\ limits.total - total <= limits.total
        BY <1>4
      <3> QED
        BY <1>3, <1>4, <1>6, <2>1, <3>1, ResultGrows
    <2>3. Decodes(archive.folders[folder'])
      BY <1>3, <1>8, <2>1, <2>2 DEF Decodes
    <2>4. total' <= ActualBefore(folder' + 1)
      BY <1>4, <1>5, <1>8
    <2>5. extracted = "none"
      BY <1>1 DEF BoundInv, StageInv
    <2> HIDE DEF verdict
    <2> QED
      BY <1>1, <1>2, <1>8, <2>3, <2>4, <2>5, ExtractAgree
  <1>9. CASE verdict # "ok" /\ X!Return(verdict)
    <2>1. verified # "ok"
      BY <1>7, <1>9
    <2> HIDE DEF verdict
    <2>2. stage' = "done" /\ UNCHANGED <<archive, limits, verified>>
      BY <1>9 DEF X!Return
    <2>3. ~ Running'
      BY <2>2 DEF Running
    <2> QED
      BY <1>2, <2>1, <2>2, <2>3, ExtractAgree
  <1>10. \/ /\ verdict = "ok" /\ total' = total + g.actual /\ folder' = F
            /\ UNCHANGED <<archive, limits, stage, verified, extracted>>
         \/ verdict # "ok" /\ X!Return(verdict)
    BY DEF X!EnterFolder
  <1> QED
    BY <1>8, <1>9, <1>10

\* After verify, no range is refused.
LEMMA RangeAgrees ==
  ASSUME BoundInv, OpenInv, IteratorInv, AgreeInv, X!BeginMember, verified = "ok"
  PROVE  X!RangeResult = "ok"
  <1> DEFINE g == archive.folders[folder]
             stop == X!SubEnd(g, next, offset)
  <1>1. /\ stage = "members" /\ item \in DOMAIN archive.members
        /\ X!Member.kind = "stream" /\ folder = X!Member.folder
    BY DEF X!BeginMember
  <1>2. /\ folder \in 1 .. Len(archive.folders) /\ X!FolderOK(g) /\ g = X!Current
        /\ X!Member.sub \in 1 .. Len(g.subs)
    BY <1>1, AtMember
  <1>3. X!RangeResult # "internal"
    BY <1>1, NothingUnmapped
  <1>4. X!Member.sub = next
    BY <1>3 DEF X!RangeResult
  <1>5. ShapeInv /\ limits.entry \in Nat /\ limits.total \in Nat /\ folder # 0 /\ Running
    BY <1>1, <1>2, LimitTypes DEF BoundInv, Running
  <1>6. X!FolderResult(g, limits.total) = "ok"
    BY <1>5 DEF AgreeInv, Decodes
  <1>7. Passes(folder)
    <2>1. folder \in DOMAIN archive.folders
      BY <1>2, <1>5 DEF ShapeInv
    <2> QED
      BY <2>1 DEF AgreeInv
  <1>8. /\ DOMAIN g.subs = 1 .. Len(g.subs) /\ Len(g.subs) \in Nat /\ g.actual \in Nat
        /\ next \in 1 .. Len(g.subs) /\ g.subs[next].size \in Sizes
    BY <1>2, <1>4, FolderFacts
  <1>9. offset = X!SubStart(g, next) /\ offset \in Nat
    <2>1. next <= Len(g.subs)
      BY <1>8
    <2> QED
      BY <1>5, <2>1 DEF BoundInv, PositionInv
  <1>10. ~ stop > g.actual
    BY <1>7, <1>8, <1>9 DEF Passes
  <1>11. g.subs[next].size = Unknown => next = Len(g.subs)
    BY <1>2, <1>5, <1>6, <1>8, ResultSubs
  <1>12. ~ stop - offset > limits.entry
    <2>1. CASE g.subs[next].size = Unknown
      <3>1. stop = g.actual
        BY <2>1, UnknownInstance DEF X!SubEnd
      <3>2. g.actual - X!SubStart(g, next) <= limits.entry
        <4>1. next \in Nat \ {0} /\ next = Len(g.subs) /\ limits.total \in Int
          BY <1>5, <1>8, <1>11, <2>1
        <4> HIDE DEF g
        <4> QED
          BY <1>2, <1>5, <1>6, <2>1, <4>1, FinalSlice
      <3> HIDE DEF stop, g
      <3> QED
        BY <1>5, <1>8, <1>9, <3>1, <3>2
    <2>2. CASE g.subs[next].size # Unknown
      <3>1. stop = offset + g.subs[next].size
        BY <2>2, UnknownInstance DEF X!SubEnd
      <3>2. g.subs[next].size <= limits.entry
        BY <1>2, <1>5, <1>6, <1>8, <2>2, ResultSubs
      <3>3. g.subs[next].size \in Nat
        BY <1>8, <2>2 DEF Sizes
      <3> HIDE DEF stop, g
      <3> QED
        BY <1>5, <1>9, <3>1, <3>2, <3>3
    <2> QED
      BY <2>1, <2>2
  <1> QED
    BY <1>2, <1>4, <1>10, <1>11, <1>12, UnknownInstance DEF X!RangeResult

\* A member that is complete can be extracted alone.
LEMMA MemberExtractable ==
  ASSUME BoundInv, OpenInv, AgreeInv, stage = "chunks",
         ~ X!Mismatch(X!Current.subs[next].crc)
  PROVE  X!ExtractEntry(item) = "ok"
  <1> DEFINE g == archive.folders[folder]
             m == archive.members[item]
             decoded == X!FolderResult(g, limits.total)
  <1>1. /\ item \in X!Streamed(archive.members)
        /\ X!Place(archive.members[item]) = <<folder, next>>
        /\ X!Current = g /\ folder \in 1 .. Len(archive.folders) /\ X!FolderOK(g)
        /\ next \in 1 .. Len(g.subs) /\ Len(g.subs) \in Nat
        /\ offset \in Nat /\ end \in Nat /\ g.actual \in Nat /\ cursor \in Nat
        /\ offset <= cursor /\ cursor <= end /\ end <= g.actual
        /\ end = X!SubEnd(g, next, offset) /\ offset = X!SubStart(g, next)
        /\ end - offset <= limits.entry
    BY InChunks
  <1>2. m.kind = "stream" /\ m.folder = folder /\ m.sub = next
    BY <1>1 DEF X!Streamed, X!Place
  <1>3. decoded = "ok" /\ ~ X!Mismatch(g.crc)
    <2>1. Running /\ folder # 0
      BY <1>1 DEF Running
    <2> QED
      BY <2>1 DEF AgreeInv, Decodes
  <1>4. limits.entry \in Nat /\ limits.total \in Nat
    BY LimitTypes DEF BoundInv
  <1>5. \A k \in 1 .. Len(g.subs) : /\ g.subs[k].size = Unknown => k = Len(g.subs)
                                    /\ g.subs[k].size # Unknown => g.subs[k].size <= limits.entry
    <2>1. limits.total \in Int
      BY <1>4
    <2> QED
      BY <1>1, <1>3, <1>4, <2>1, ResultSubs
  <1>6. \A k \in 1 .. Len(g.subs) : g.subs[k].size \in Sizes
    BY <1>1, FolderFacts
  <1> HIDE DEF g
  <1>7. ~ (g.subs[next].size # X!Unknown /\ g.subs[next].size > limits.entry)
    <2> SUFFICES ASSUME g.subs[next].size # Unknown PROVE ~ g.subs[next].size > limits.entry
      BY UnknownInstance
    <2>1. g.subs[next].size \in Nat /\ g.subs[next].size <= limits.entry
      BY <1>1, <1>5, <1>6 DEF Sizes
    <2> QED
      BY <1>4, <2>1
  <1>8. X!BoundsResult(g, next) = "ok"
    <2>1. ~ \E j \in 1 .. next - 1 : g.subs[j].size = X!Unknown
      <3> SUFFICES ASSUME NEW j \in 1 .. next - 1, g.subs[j].size = Unknown PROVE FALSE
        BY UnknownInstance
      <3>1. j \in 1 .. Len(g.subs) /\ j # Len(g.subs)
        BY <1>1
      <3> QED
        BY <1>5, <3>1
    <2>2. ~ (g.subs[next].size = X!Unknown /\ next # Len(g.subs))
      BY <1>1, <1>5, UnknownInstance
    <2>3. X!SubEnd(g, next, X!SubStart(g, next)) = end /\ X!SubStart(g, next) = offset
      BY <1>1
    <2>4. ~ end > g.actual /\ ~ end < offset /\ ~ end - offset > limits.entry
      <3> DEFINE a == g.actual
                 l == limits.entry
      <3>1. /\ offset \in Nat /\ end \in Nat /\ a \in Nat /\ cursor \in Nat /\ l \in Nat
            /\ offset <= cursor /\ cursor <= end /\ end <= a /\ end - offset <= l
        BY <1>1, <1>4
      <3> HIDE DEF a, l
      <3>2. ~ end > a /\ ~ end < offset /\ ~ end - offset > l
        BY <3>1
      <3> QED
        BY <3>2 DEF a, l
    <2> QED
      BY <2>1, <2>2, <2>3, <2>4 DEF X!BoundsResult
  <1>9. ~ (X!Mismatch(g.subs[next].crc) \/ X!Mismatch(g.crc))
    BY <1>1, <1>3
  <1>10. m.kind # "empty"
    BY <1>2
  <1> QED
    BY <1>2, <1>3, <1>7, <1>8, <1>9, <1>10 DEF X!ExtractEntry, g

LEMMA OperationAgrees ==
  ASSUME BoundInv, OpenInv, BracketInv, IteratorInv, AgreeInv, X!Step \/ X!Interrupt
  PROVE  AgreeInv'
  \* Steps of extraction that decode nothing and fail for no fault of the data.
  <1>1. ASSUME Running, UNCHANGED <<archive, limits, verified, total, folder>>,
               stage' \in {"members", "chunks", "done"},
               verified = "ok" => extracted' \in {"none", "ok", "sink", "interrupted"},
               \A m \in X!FinishedSet' : m \in X!FinishedSet \/ X!ExtractEntry(m) = "ok"
        PROVE  AgreeInv'
    <2>1. total' <= ActualBefore(folder' + 1)
      BY <1>1 DEF AgreeInv
    <2>2. folder' # 0 => Decodes(archive.folders[folder'])
      BY <1>1 DEF AgreeInv
    <2> QED
      BY <1>1, <2>1, <2>2, ExtractAgree
  <1>2. ASSUME finished' = finished
        PROVE  \A m \in X!FinishedSet' : m \in X!FinishedSet \/ X!ExtractEntry(m) = "ok"
    BY <1>2 DEF X!FinishedSet
  <1>3. ASSUME finished' = Append(finished, item), X!ExtractEntry(item) = "ok"
        PROVE  \A m \in X!FinishedSet' : m \in X!FinishedSet \/ X!ExtractEntry(m) = "ok"
    <2>1. finished \in Seq(Nat) /\ item \in Nat
      BY DEF BracketInv, BoundInv, StageInv
    <2>2. X!FinishedSet' = X!FinishedSet \cup {item}
      BY <1>3, <2>1, FinishedAppend
    <2> QED
      BY <1>3, <2>2
  <1>4. stage # "done" => extracted = "none"
    BY DEF BoundInv, StageInv
  <1>5. CASE X!VerifyAdditional
    <2> DEFINE f == archive.additional[item]
               maximum == X!Smaller(limits.header - total, limits.total - total)
               decoded == X!DecodeResult(f, maximum)
               verdict == IF decoded = "ok" THEN X!AdditionalVerdict(f) ELSE decoded
    <2>1. stage = "additional"
      BY <1>5 DEF X!VerifyAdditional
    <2>2. CASE verdict # "ok" /\ X!VerifyReturns(verdict)
      BY <2>1, <2>2, VerifyReturnsAgree
    <2>3. CASE UNCHANGED <<archive, limits, stage, verified, extracted, X!loopVars, X!sinkVars>>
      <3>1. /\ \A i : Passes(i)' <=> Passes(i)
            /\ \A m : X!ExtractEntry(m)' = X!ExtractEntry(m)
        BY <2>3, JudgementKept
      <3>2. X!FinishedSet' = X!FinishedSet
        BY <2>3 DEF X!FinishedSet, X!sinkVars
      <3>3. X!OperationsAgree'
        BY <2>3, <3>1, <3>2
        DEF AgreeInv, X!OperationsAgree, X!VerifiedExtracts, X!FinishedIsExtractable
      <3> QED
        BY <2>1, <2>3, <3>1, <3>3 DEF AgreeInv, Running
    <2>4. \/ UNCHANGED <<archive, limits, stage, verified, extracted, X!loopVars, X!sinkVars>>
          \/ verdict # "ok" /\ X!VerifyReturns(verdict)
      BY <1>5 DEF X!VerifyAdditional
    <2> QED
      BY <2>2, <2>3, <2>4
  <1>6. CASE X!AdditionalDone
    <2>1. /\ stage = "additional" /\ stage' = "verify" /\ item' = 1
          /\ UNCHANGED <<archive, limits, verified, extracted, total, finished>>
      BY <1>6 DEF X!AdditionalDone, X!sinkVars
    <2>2. verified' = "none" /\ extracted' = "none"
      BY <1>4, <2>1 DEF AgreeInv
    <2>3. ActualBefore(item)' = 0
      <3>1. ActualBefore(item)' = ActualBefore(item')
        BY <2>1, JudgementKept
      <3> QED
        BY <2>1, <3>1, FirstBefore
    <2>4. total' \in Nat
      BY <2>1, WrittenType DEF BoundInv
    <2>5. DOMAIN archive'.folders \subseteq Nat \ {0}
      BY <2>1 DEF BoundInv, ShapeInv
    <2>6. \A i \in DOMAIN archive'.folders : ~ i < item'
      BY <2>1, <2>5
    <2>7. X!OperationsAgree'
      <3>1. finished' = << >>
        BY <2>1 DEF BoundInv, StageInv, Fresh
      <3>2. X!FinishedSet' = {}
        BY <3>1 DEF X!FinishedSet
      <3> QED
        BY <2>2, <3>2 DEF X!OperationsAgree, X!VerifiedExtracts, X!FinishedIsExtractable
    <2>8. ActualBefore(item)' <= total'
      BY <2>3, <2>4
    <2> QED
      BY <2>1, <2>2, <2>6, <2>7, <2>8 DEF AgreeInv, Running
  <1>7. CASE X!VerifyFolder
    BY <1>7, VerifyFolderAgree
  <1>8. CASE X!VerifyDone
    <2>1. stage = "verify" /\ item \notin DOMAIN archive.folders
      BY <1>8 DEF X!VerifyDone
    <2>2. X!VerifyReturns("ok")
      BY <1>8, <2>1, VerifyEnds DEF X!VerifyDone
    <2>3. \A i \in DOMAIN archive.folders : i < item
      BY <2>1 DEF BoundInv, ShapeInv, StageInv
    <2>4. \A i \in DOMAIN archive.folders : Passes(i)
      BY <2>1, <2>3 DEF AgreeInv
    <2> QED
      BY <2>1, <2>2, <2>4, VerifyReturnsAgree
  <1>9. CASE X!SkipMember
    <2>1. /\ Running /\ stage' = "members" /\ extracted' = "none"
          /\ UNCHANGED <<archive, limits, verified, total, folder, finished>>
      BY <1>4, <1>9 DEF X!SkipMember, X!loopVars, X!sinkVars, Running
    <2> QED
      BY <1>1, <1>2, <2>1
  <1>10. CASE X!EmptyFile
    <2>1. /\ Running /\ UNCHANGED <<archive, limits, verified, total, folder>>
          /\ stage = "members" /\ X!Member.kind = "empty"
      BY <1>10 DEF X!EmptyFile, X!loopVars, Running, X!Return
    <2>2. CASE finished' = Append(finished, item) /\ UNCHANGED <<stage, extracted>>
      <3>1. X!ExtractEntry(item) = "ok"
        BY <2>1 DEF X!ExtractEntry, X!Member
      <3>2. \A m \in X!FinishedSet' : m \in X!FinishedSet \/ X!ExtractEntry(m) = "ok"
        BY <1>3, <2>2, <3>1
      <3> QED
        BY <1>1, <1>4, <2>1, <2>2, <3>2
    <2>3. CASE X!Return("sink") /\ finished' = finished
      <3>1. \A m \in X!FinishedSet' : m \in X!FinishedSet \/ X!ExtractEntry(m) = "ok"
        BY <1>2, <2>3
      <3> QED
        BY <1>1, <2>1, <2>3, <3>1 DEF X!Return
    <2> QED
      BY <1>10, <2>2, <2>3 DEF X!EmptyFile
  <1>11. CASE X!EnterFolder
    BY <1>11, EnterFolderAgree
  <1>12. CASE X!BeginMember
    <2>1. /\ Running /\ stage = "members"
          /\ UNCHANGED <<archive, limits, verified, total, folder, finished>>
      BY <1>12 DEF X!BeginMember, Running, X!Return
    <2>2. stage' \in {"chunks", "done"}
      BY <1>12 DEF X!BeginMember, X!Return
    <2>3. verified = "ok" => extracted' \in {"none", "ok", "sink", "interrupted"}
      <3> SUFFICES ASSUME verified = "ok"
                   PROVE  extracted' \in {"none", "ok", "sink", "interrupted"}
        OBVIOUS
      <3>1. X!RangeResult = "ok"
        BY <1>12, RangeAgrees
      <3> QED
        BY <1>4, <1>12, <2>1, <3>1 DEF X!BeginMember, X!Return
    <2> QED
      BY <1>1, <1>2, <2>1, <2>2, <2>3
  <1>13. CASE X!WriteChunk
    <2>1. /\ Running /\ stage = "chunks"
          /\ UNCHANGED <<archive, limits, verified, total, folder, finished>>
      BY <1>13 DEF X!WriteChunk, Running, X!Return
    <2>2. stage' \in {"chunks", "done"} /\ extracted' \in {"none", "sink"}
      BY <1>4, <1>13, <2>1 DEF X!WriteChunk, X!Return
    <2> QED
      BY <1>1, <1>2, <2>1, <2>2
  <1>14. CASE X!FinishMember
    <2>1. /\ Running /\ stage = "chunks"
          /\ UNCHANGED <<archive, limits, verified, total, folder>>
      BY <1>14 DEF X!FinishMember, Running, X!Return
    <2>2. CASE /\ ~ X!Mismatch(X!Current.subs[next].crc)
               /\ finished' = Append(finished, item) /\ stage' = "members"
               /\ extracted' = extracted
      <3>1. X!ExtractEntry(item) = "ok"
        BY <2>1, <2>2, MemberExtractable
      <3>2. \A m \in X!FinishedSet' : m \in X!FinishedSet \/ X!ExtractEntry(m) = "ok"
        BY <1>3, <2>2, <3>1
      <3> QED
        BY <1>1, <1>4, <2>1, <2>2, <3>2
    <2>3. CASE X!Return("sink") /\ finished' = finished
      <3>1. \A m \in X!FinishedSet' : m \in X!FinishedSet \/ X!ExtractEntry(m) = "ok"
        BY <1>2, <2>3
      <3> QED
        BY <1>1, <2>1, <2>3, <3>1 DEF X!Return
    <2>4. CASE /\ X!Mismatch(X!Current.subs[next].crc)
               /\ X!Return(X!Damage(X!Current, "checksum")) /\ finished' = finished
      <3>1. verified # "ok"
        <4> SUFFICES ASSUME verified = "ok" PROVE FALSE
          OBVIOUS
        <4> DEFINE g == archive.folders[folder]
        <4>1. /\ X!Current = g /\ folder \in 1 .. Len(archive.folders) /\ X!FolderOK(g)
              /\ next \in 1 .. Len(g.subs)
          BY <2>1, InChunks
        <4>2. folder \in DOMAIN archive.folders /\ next \in DOMAIN g.subs
          BY <4>1, FolderFacts DEF BoundInv, ShapeInv
        <4>3. Passes(folder)
          BY <4>2 DEF AgreeInv
        <4> QED
          BY <2>4, <4>1, <4>2, <4>3 DEF Passes
      <3>2. \A m \in X!FinishedSet' : m \in X!FinishedSet \/ X!ExtractEntry(m) = "ok"
        BY <1>2, <2>4
      <3>3. stage' = "done"
        BY <2>4 DEF X!Return
      <3> QED
        BY <1>1, <2>1, <3>1, <3>2, <3>3
    <2> QED
      BY <1>14, <2>2, <2>3, <2>4 DEF X!FinishMember
  <1>15. CASE X!ExtractDone
    <2>1. /\ Running /\ stage = "members"
          /\ UNCHANGED <<archive, limits, verified, total, folder, finished>>
      BY <1>15 DEF X!ExtractDone, Running, X!Return, X!loopVars, X!sinkVars
    <2>2. ~ X!LeftUnmapped
      BY <1>15, NothingUnmapped DEF X!ExtractDone
    <2>3. stage' = "done" /\ extracted' = "ok"
      BY <1>15, <2>2 DEF X!ExtractDone, X!Return
    <2> QED
      BY <1>1, <1>2, <2>1, <2>3
  <1>16. CASE X!Interrupt
    <2>1. CASE stage \in {"additional", "verify"} /\ X!VerifyReturns("interrupted")
      BY <2>1, VerifyReturnsAgree
    <2>2. CASE Running /\ X!Return("interrupted") /\ UNCHANGED <<total, X!loopVars, X!sinkVars>>
      <3>1. UNCHANGED <<archive, limits, verified, folder, finished>> /\ stage' = "done"
            /\ extracted' = "interrupted"
        BY <2>2 DEF X!Return, X!loopVars, X!sinkVars
      <3> QED
        BY <1>1, <1>2, <2>2, <3>1
    <2> QED
      BY <1>16, <2>1, <2>2 DEF X!Interrupt, Running
  <1> QED
    BY <1>5, <1>6, <1>7, <1>8, <1>9, <1>10, <1>11, <1>12, <1>13, <1>14, <1>15, <1>16
    DEF X!Step

LEMMA OpenAgree ==
  ASSUME BoundInv, AgreeInv, Open
  PROVE  AgreeInv'
  <1>1. /\ stage = "closed" /\ stage' = "additional"
        /\ UNCHANGED <<verified, extracted, finished>>
    BY DEF Open, X!Open
  <1>2. verified' = "none" /\ extracted' = "none" /\ finished' = << >>
    BY <1>1 DEF AgreeInv, BoundInv, StageInv, Fresh
  <1>3. X!FinishedSet' = {}
    BY <1>2 DEF X!FinishedSet
  <1>4. X!OperationsAgree'
    BY <1>2, <1>3 DEF X!OperationsAgree, X!VerifiedExtracts, X!FinishedIsExtractable
  <1> QED
    BY <1>1, <1>2, <1>4 DEF AgreeInv, Running

LEMMA InitAgree ==
  ASSUME Init
  PROVE  AgreeInv
  <1>1. stage = "closed" /\ verified = "none" /\ extracted = "none" /\ finished = << >>
    BY DEF Init, X!Init
  <1>2. X!FinishedSet = {}
    BY <1>1 DEF X!FinishedSet
  <1> QED
    BY <1>1, <1>2
    DEF AgreeInv, Running, X!OperationsAgree, X!VerifiedExtracts, X!FinishedIsExtractable

LEMMA NextAgree ==
  ASSUME IInv, BoundInv, ServedInv, AgreeInv, [Next]_vars
  PROVE  AgreeInv'
  <1>1. OpenInv /\ BracketInv /\ IteratorInv
    BY DEF IInv, ServedInv
  <1>2. CASE Validate \/ ValidateInterrupted \/ UNCHANGED vars
    BY <1>2, AgreeKept DEF Validate, ValidateInterrupted, vars, operationVars
  <1>3. CASE Open
    BY <1>3, OpenAgree
  <1>4. CASE Operate \/ OperateInterrupted
    BY <1>1, <1>4, OperationAgrees DEF Operate, OperateInterrupted
  <1> QED
    BY <1>2, <1>3, <1>4 DEF Next, Step

\* archive.rs, verify, extract_entries_to and extract_entry: after verify
\* passed, extraction fails only by its sink or an interruption, and every
\* member it finishes can also be extracted alone, although the three account
\* for the limits in different ways.
THEOREM OperationsConsistent == Spec => []OperationsAgree
  <1>1. Init => BoundInv /\ ServedInv /\ AgreeInv
    BY InitBound, InitServed, InitAgree
  <1>2. IInv /\ BoundInv /\ ServedInv /\ AgreeInv /\ [Next]_vars
          => BoundInv' /\ ServedInv' /\ AgreeInv'
    BY NextBound, NextServed, NextAgree
  <1>3. AgreeInv => OperationsAgree
    BY DEF AgreeInv, OperationsAgree
  <1> QED
    BY <1>1, <1>2, <1>3, AlwaysIInv, PTL DEF Spec
-----------------------------------------------------------------------------
(***************************************************************************)
(* The stored checksums decide: from the raw header to the sink            *)
(***************************************************************************)
\* What is open is what validation built, and the data it was opened with.
LinkInv == stage # "closed" => facts \in Facts(raw) /\ archive = Opened(facts)

\* Chunks follow each other, and those of a finished member cover its range.
CoverInv ==
  /\ \A m \in DOMAIN got : \A i \in 1 .. Len(got[m]) - 1 : got[m][i][2] = got[m][i + 1][1]
  /\ \A m \in X!FinishedSet :
       /\ m \in DOMAIN archive.members
       /\ archive.members[m].kind = "stream" => X!Covers(got[m], X!RangeOf(m))

\* A folder whose decoder fails or one of whose checksums does not match.
Wrong(f) ==
  \/ f.damaged \/ f.crc = "mismatch"
  \/ \E k \in DOMAIN f.subs : f.subs[k].crc = "mismatch"

WrongArchive ==
  \/ \E i \in DOMAIN archive.folders : Wrong(archive.folders[i])
  \/ \E i \in DOMAIN archive.additional : Wrong(archive.additional[i])

Blames == {"checksum", "password"}

BlameInv ==
  {verified, extracted} \cap Blames # {} => stage # "closed" /\ WrongArchive

IntactInv == LinkInv /\ CoverInv /\ BlameInv
(***************************************************************************)
(* The bytes of a finished member                                          *)
(***************************************************************************)
Consecutive(chunks) == \A i \in 1 .. Len(chunks) - 1 : chunks[i][2] = chunks[i + 1][1]

\* What was finished stays covered while nothing is written or finished.
LEMMA CoverKept ==
  ASSUME CoverInv, UNCHANGED <<archive, got, finished>>
  PROVE  CoverInv'
  <1>1. X!FinishedSet' = X!FinishedSet
    BY DEF X!FinishedSet
  <1>2. ASSUME NEW m PROVE X!RangeOf(m)' = X!RangeOf(m)
    BY DEF X!RangeOf
  <1>3. ASSUME NEW m PROVE X!Covers(got[m], X!RangeOf(m))' = X!Covers(got[m], X!RangeOf(m))
    BY <1>2 DEF X!Covers
  <1> QED
    BY <1>1, <1>3 DEF CoverInv

\* A member is finished once it is covered.
LEMMA CoverFinished ==
  ASSUME BracketInv, CoverInv, UNCHANGED <<archive, got>>, item \in Nat,
         finished' = Append(finished, item), item \in DOMAIN archive.members,
         archive.members[item].kind = "stream" => X!Covers(got[item], X!RangeOf(item))
  PROVE  CoverInv'
  <1>1. X!FinishedSet' = X!FinishedSet \cup {item}
    BY FinishedAppend DEF BracketInv
  <1>2. ASSUME NEW m PROVE X!RangeOf(m)' = X!RangeOf(m)
    BY DEF X!RangeOf
  <1>3. ASSUME NEW m PROVE X!Covers(got[m], X!RangeOf(m))' = X!Covers(got[m], X!RangeOf(m))
    BY <1>2 DEF X!Covers
  <1>4. \A m \in X!FinishedSet \cup {item} :
          /\ m \in DOMAIN archive.members
          /\ archive.members[m].kind = "stream" => X!Covers(got[m], X!RangeOf(m))
    BY DEF CoverInv
  <1> QED
    BY <1>1, <1>3, <1>4 DEF CoverInv

\* A chunk begins where the one before it ended.
LEMMA ConsecutiveAppend ==
  ASSUME NEW c \in Seq(Nat \X Nat), Consecutive(c), NEW a \in Nat, NEW b \in Nat,
         c # << >> => c[Len(c)][2] = a
  PROVE  Consecutive(Append(c, <<a, b>>))
  <1> DEFINE e == <<a, b>>
             d == Append(c, e)
  <1>1. e \in Nat \X Nat /\ e[1] = a
    OBVIOUS
  <1> HIDE DEF e
  <1>2. /\ Len(c) \in Nat /\ Len(d) = Len(c) + 1 /\ d[Len(c) + 1] = e
        /\ \A i \in 1 .. Len(c) : d[i] = c[i]
    BY <1>1
  <1> HIDE DEF d
  <1>3. ASSUME NEW i \in 1 .. Len(d) - 1 PROVE d[i][2] = d[i + 1][1]
    <2>1. CASE i = Len(c)
      <3>1. c # << >>
        BY <1>2, <2>1
      <3>2. d[i] = c[Len(c)] /\ d[i + 1] = e
        BY <1>2, <2>1, <1>3
      <3> QED
        BY <1>1, <3>1, <3>2
    <2>2. CASE i # Len(c)
      <3>1. i \in 1 .. Len(c) - 1 /\ i \in 1 .. Len(c) /\ i + 1 \in 1 .. Len(c)
        BY <1>2, <2>2, <1>3
      <3>2. d[i] = c[i] /\ d[i + 1] = c[i + 1] /\ c[i][2] = c[i + 1][1]
        BY <1>2, <3>1 DEF Consecutive
      <3> QED
        BY <3>2
    <2> QED
      BY <2>1, <2>2
  <1> QED
    BY <1>3 DEF Consecutive, d, e

LEMMA CoverWrite ==
  ASSUME BoundInv, OpenInv, BracketInv, CoverInv, X!WriteChunk
  PROVE  CoverInv'
  <1> DEFINE c == got[item]
  <1>1. /\ stage = "chunks" /\ cursor < end /\ finished' = finished /\ archive' = archive
        /\ got' = [got EXCEPT ![item] = Append(@, <<cursor, X!ChunkEnd>>)]
    BY DEF X!WriteChunk, X!Return
  <1>2. PICK e : e = X!ChunkEnd
    OBVIOUS
  <1>3. got' = [got EXCEPT ![item] = Append(@, <<cursor, e>>)]
    BY <1>1, <1>2
  <1>4. /\ e \in Nat /\ DOMAIN got' = DOMAIN got
        /\ \A m \in DOMAIN got : m # item => got'[m] = got[m]
    BY <1>1, <1>2, <1>3, ChunkWritten
  <1>5. item \in DOMAIN got /\ cursor \in Nat /\ c \in Seq(Nat \X Nat)
    BY <1>1, InChunks DEF BoundInv, ShapeInv
  <1>6. got'[item] = Append(c, <<cursor, e>>)
    BY <1>3, <1>5
  <1>7. c # << >> => c[Len(c)][2] = cursor
    BY <1>1 DEF BoundInv, WrittenInv
  <1>8. Consecutive(got'[item])
    <2>1. Consecutive(c)
      BY <1>5 DEF CoverInv, Consecutive
    <2> HIDE DEF c
    <2> QED
      BY <1>4, <1>5, <1>6, <1>7, <2>1, ConsecutiveAppend
  <1>9. \A m \in DOMAIN got' : Consecutive(got'[m])
    BY <1>4, <1>8 DEF CoverInv, Consecutive
  <1>10. X!FinishedSet' = X!FinishedSet /\ item \notin X!FinishedSet
    <2>1. Running /\ item \in Nat
      BY <1>1, InChunks DEF Running
    <2>2. finished \in Seq(Nat) /\ \A i \in DOMAIN finished : finished[i] < item
      BY <2>1, BracketFacts
    <2>3. X!FinishedSet' = X!FinishedSet
      BY <1>1 DEF X!FinishedSet
    <2>4. ASSUME NEW i \in DOMAIN finished, finished[i] = item PROVE FALSE
      BY <2>1, <2>2, <2>4
    <2> QED
      BY <2>3, <2>4 DEF X!FinishedSet
  <1>11. ASSUME NEW m \in X!FinishedSet, archive.members[m].kind = "stream"
         PROVE  X!Covers(got'[m], X!RangeOf(m)')
    <2>1. m \in DOMAIN archive.members /\ X!Covers(got[m], X!RangeOf(m))
      BY <1>11 DEF CoverInv
    <2>2. m \in DOMAIN got /\ m # item
      BY <1>10, <2>1 DEF BoundInv, ShapeInv
    <2>3. got'[m] = got[m] /\ X!RangeOf(m)' = X!RangeOf(m)
      BY <1>1, <1>4, <2>2 DEF X!RangeOf
    <2> QED
      BY <2>1, <2>3
  <1>12. \A m \in X!FinishedSet : m \in DOMAIN archive.members
    BY DEF CoverInv
  <1> QED
    BY <1>1, <1>9, <1>10, <1>11, <1>12 DEF CoverInv, Consecutive, X!Covers

\* The chunks of a member reach its end.
LEMMA MemberCovered ==
  ASSUME BoundInv, OpenInv, CoverInv, stage = "chunks", cursor = end
  PROVE  X!Covers(got[item], X!RangeOf(item))
  <1> DEFINE g == archive.folders[folder]
             c == got[item]
  <1>1. /\ item \in DOMAIN got /\ X!Place(archive.members[item]) = <<folder, next>>
        /\ end = X!SubEnd(g, next, offset) /\ offset = X!SubStart(g, next)
    BY InChunks
  <1>2. archive.members[item].folder = folder /\ archive.members[item].sub = next
    BY <1>1 DEF X!Place
  <1>3. X!RangeOf(item) = <<offset, end>>
    BY <1>1, <1>2 DEF X!RangeOf
  <1>4. IF c = << >> THEN cursor = offset
        ELSE c[1][1] = offset /\ c[Len(c)][2] = cursor
    BY DEF BoundInv, WrittenInv
  <1>5. \A i \in 1 .. Len(c) - 1 : c[i][2] = c[i + 1][1]
    BY <1>1 DEF CoverInv
  <1> QED
    BY <1>3, <1>4, <1>5 DEF X!Covers

LEMMA OperationCovers ==
  ASSUME BoundInv, OpenInv, BracketInv, CoverInv, X!Step \/ X!Interrupt
  PROVE  CoverInv'
  <1>1. item \in Nat
    BY DEF BoundInv, StageInv
  <1>2. CASE X!WriteChunk
    BY <1>2, CoverWrite
  <1>3. CASE X!FinishMember
    <2>1. CASE finished' = Append(finished, item) /\ UNCHANGED <<archive, got>>
      <3>1. stage = "chunks" /\ cursor = end
        BY <1>3 DEF X!FinishMember
      <3>2. X!Covers(got[item], X!RangeOf(item)) /\ item \in DOMAIN archive.members
        BY <3>1, MemberCovered, InChunks
      <3> QED
        BY <1>1, <2>1, <3>2, CoverFinished
    <2>2. CASE UNCHANGED <<archive, got, finished>>
      BY <2>2, CoverKept
    <2> QED
      BY <1>3, <2>1, <2>2 DEF X!FinishMember, X!Return
  <1>4. CASE X!EmptyFile
    <2>1. CASE finished' = Append(finished, item) /\ UNCHANGED <<archive, got>>
      <3>1. item \in DOMAIN archive.members /\ archive.members[item].kind # "stream"
        BY <1>4 DEF X!EmptyFile, X!Member
      <3> QED
        BY <1>1, <2>1, <3>1, CoverFinished
    <2>2. CASE UNCHANGED <<archive, got, finished>>
      BY <2>2, CoverKept
    <2> QED
      BY <1>4, <2>1, <2>2 DEF X!EmptyFile, X!Return
  <1>5. CASE ~ X!WriteChunk /\ ~ X!FinishMember /\ ~ X!EmptyFile
    <2>1. UNCHANGED <<archive, got, finished>>
      BY <1>5 DEF X!Step, X!Interrupt, X!VerifyAdditional, X!AdditionalDone, X!VerifyFolder,
           X!VerifyDone, X!SkipMember, X!EnterFolder, X!BeginMember,
           X!ExtractDone, X!VerifyReturns, X!Return, X!sinkVars
    <2> QED
      BY <2>1, CoverKept
  <1> QED
    BY <1>2, <1>3, <1>4, <1>5
-----------------------------------------------------------------------------
(***************************************************************************)
(* Who is blamed                                                           *)
(***************************************************************************)
LEMMA DecodeBlame ==
  ASSUME NEW g, X!FolderOK(g), NEW m \in Int, X!DecodeResult(g, m) \in Blames
  PROVE  g.damaged
  <1> DEFINE big == g.root # X!Unknown /\ g.root > m
             bad == g.damaged
             damage == X!Damage(g, "format")
             over == g.actual > m
             under == g.actual <= m
             d == X!DecodeResult(g, m)
  <1>1. d = CASE big              -> "limit"
              [] ~ big /\ bad     -> damage
              [] ~ bad /\ over    -> "limit"
              [] ~ bad /\ under   -> "ok"
    BY DEF X!DecodeResult
  <1>2. d \in {"checksum", "password"}
    BY DEF Blames
  <1>3. over \/ under
    BY FolderFacts
  <1> SUFFICES ASSUME ~ bad PROVE FALSE
    OBVIOUS
  <1> HIDE DEF big, bad, damage, over, under, d
  <1> QED
    BY <1>1, <1>2, <1>3

LEMMA AccountedBlame ==
  ASSUME BoundInv, NEW g, X!FolderOK(g), X!AccountedResult(g) \in Blames
  PROVE  g.damaged
  <1> DEFINE r == limits.total - total
             d == X!FolderResult(g, r)
             m == X!MaximumResult(g, r)
             e == X!DecodeResult(g, X!MaximumOutput(g, r))
  <1>1. X!AccountedResult(g) \in {"limit", d}
    BY DEF X!AccountedResult
  <1>2. d \in {m, e}
    BY DEF X!FolderResult
  <1>3. m \in {"ok", "limit", "unsupported", "internal"}
    BY MaximumType
  <1>4. r \in Int /\ limits.entry \in Nat
    BY LimitTypes DEF BoundInv, StageInv
  <1> HIDE DEF d, m, e, r
  <1>5. e \in Blames
    BY <1>1, <1>2, <1>3 DEF Blames
  <1>6. X!MaximumOutput(g, r) \in Int
    BY <1>4, MaximumOutputType
  <1> QED
    BY <1>5, <1>6, DecodeBlame DEF e

LEMMA AdditionalBlame ==
  ASSUME NEW g, Len(g.subs) \in Nat, DOMAIN g.subs = 1 .. Len(g.subs),
         X!AdditionalVerdict(g) \in Blames
  PROVE  Wrong(g)
  <1> DEFINE n == Len(g.subs)
             unknown(k) == g.subs[k].size = X!Unknown /\ k # n
             outside(k) == X!SubEnd(g, k, X!SubStart(g, k)) > g.actual
             S == {k \in 1 .. n : \/ unknown(k)
                                  \/ outside(k)
                                  \/ X!Mismatch(g.subs[k].crc)} \cup {n + 1}
             first == X!Min(S)
             whole == (IF n = 0 THEN 0 ELSE X!SubEnd(g, n, X!SubStart(g, n))) # g.actual
             damage == X!Damage(g, "checksum")
             v == X!AdditionalVerdict(g)
  <1>1. v = IF X!Mismatch(g.crc) THEN damage
            ELSE IF first <= n
                 THEN CASE unknown(first) -> "unsupported"
                        [] ~ unknown(first) /\ outside(first) -> "format"
                        [] ~ unknown(first) /\ ~ outside(first) -> damage
            ELSE IF whole THEN "format"
            ELSE "ok"
    BY DEF X!AdditionalVerdict
  <1>2. S \in SUBSET Nat /\ S # {}
    OBVIOUS
  <1>3. first \in S
    <2> HIDE DEF S
    <2> QED
      BY <1>2, LeastMin
  <1>4. v \in {"checksum", "password"}
    BY DEF Blames
  <1>5. first <= n /\ ~ unknown(first) /\ ~ outside(first) => X!Mismatch(g.subs[first].crc) /\ first \in 1 .. n
    <2> SUFFICES ASSUME first <= n, ~ unknown(first), ~ outside(first)
                 PROVE  X!Mismatch(g.subs[first].crc) /\ first \in 1 .. n
      OBVIOUS
    <2>1. PICK w : w = first
      OBVIOUS
    <2>2. w \in S /\ w <= n /\ ~ unknown(w) /\ ~ outside(w)
      BY <1>3, <2>1
    <2> HIDE DEF unknown, outside
    <2>3. w # n + 1
      BY <2>2
    <2>4. X!Mismatch(g.subs[w].crc) /\ w \in 1 .. n
      BY <2>2, <2>3
    <2> HIDE DEF first
    <2> QED
      BY <2>1, <2>4, SMTT(40)
  <1> HIDE DEF unknown, outside, whole, damage, v, first
  <1>6. X!Mismatch(g.crc) \/ (first <= n /\ ~ unknown(first) /\ ~ outside(first))
    <2> SUFFICES ASSUME ~ X!Mismatch(g.crc)
                 PROVE  first <= n /\ ~ unknown(first) /\ ~ outside(first)
      OBVIOUS
    <2>1. first <= n
      BY <1>1, <1>4
    <2>2. ~ unknown(first)
      BY <1>1, <1>4, <2>1
    <2>3. ~ outside(first)
      BY <1>1, <1>4, <2>1, <2>2
    <2> QED
      BY <2>1, <2>2, <2>3
  <1> QED
    BY <1>5, <1>6, SMTT(40) DEF Wrong, X!Mismatch

LEMMA MembersBlame ==
  ASSUME NEW i, Len(archive.folders[i].subs) \in Nat,
         DOMAIN archive.folders[i].subs = 1 .. Len(archive.folders[i].subs),
         X!MembersVerdict(i) \in Blames
  PROVE  Wrong(archive.folders[i])
  <1> DEFINE f == archive.folders[i]
             outside(k) == X!SubEnd(f, k, X!SubStart(f, k)) > f.actual
             strange(k) == X!IteratorPlace(i, k) # <<i, k>>
             bad == {k \in DOMAIN f.subs : \/ strange(k)
                                           \/ outside(k)
                                           \/ X!Mismatch(f.subs[k].crc)}
             k1 == X!Min(bad)
             damage == X!Damage(f, "checksum")
             v == X!MembersVerdict(i)
  <1>1. v = IF bad = {} THEN (IF X!Mismatch(f.crc) THEN damage ELSE "ok")
            ELSE IF strange(k1) THEN (IF archive.hasFiles THEN "internal" ELSE "format")
            ELSE IF outside(k1) THEN "format"
            ELSE damage
    BY DEF X!MembersVerdict
  <1>2. v \in {"checksum", "password"}
    BY DEF Blames
  <1>3. bad \in SUBSET Nat
    OBVIOUS
  <1>4. bad # {} => k1 \in bad
    <2> HIDE DEF bad
    <2> QED
      BY <1>3, LeastMin
  <1>5. CASE bad = {}
    <2> HIDE DEF bad, damage, v
    <2>1. X!Mismatch(f.crc)
      BY <1>1, <1>2, <1>5
    <2> QED
      BY <2>1 DEF Wrong, X!Mismatch
  <1>6. CASE bad # {}
    <2>1. k1 \in DOMAIN f.subs /\ (strange(k1) \/ outside(k1) \/ X!Mismatch(f.subs[k1].crc))
      BY <1>4, <1>6
    <2> HIDE DEF bad, damage, v, k1, strange, outside
    <2>2. ~ strange(k1)
      BY <1>1, <1>2, <1>6
    <2>3. ~ outside(k1)
      BY <1>1, <1>2, <1>6, <2>2
    <2> QED
      BY <2>1, <2>2, <2>3 DEF Wrong, X!Mismatch
  <1> QED
    BY <1>5, <1>6

\* An operation that returns a blame has found something wrong.
LEMMA BlameReturn ==
  ASSUME BlameInv, stage # "closed", stage' # "closed", archive' = archive, NEW r,
         \/ verified' = r /\ extracted' = extracted
         \/ extracted' = r /\ verified' = verified
         \/ UNCHANGED <<verified, extracted>>,
         r \in Blames => WrongArchive
  PROVE  BlameInv'
  <1>1. WrongArchive' = WrongArchive
    BY DEF WrongArchive, Wrong
  <1>2. {verified', extracted'} \cap Blames # {} => WrongArchive
    BY DEF BlameInv, Blames
  <1> QED
    BY <1>1, <1>2 DEF BlameInv, Blames

LEMMA OperationBlames ==
  ASSUME BoundInv, OpenInv, BlameInv, X!Step \/ X!Interrupt
  PROVE  BlameInv'
  <1>1. archive' = archive /\ stage # "closed" /\ X!OpenArchive(archive)
    BY OperationFrame DEF OpenInv
  <1>2. stage' # "closed"
    BY <1>1 DEF X!Step, X!Interrupt, X!VerifyAdditional, X!AdditionalDone, X!VerifyFolder,
         X!VerifyDone, X!SkipMember, X!EmptyFile, X!EnterFolder, X!BeginMember,
         X!WriteChunk, X!FinishMember, X!ExtractDone, X!VerifyReturns, X!Return
  <1>3. ASSUME NEW r, X!VerifyReturns(r) \/ X!Return(r), r \in Blames => WrongArchive
        PROVE  BlameInv'
    <2>1. \/ verified' = r /\ extracted' = extracted
          \/ extracted' = r /\ verified' = verified
      BY <1>3 DEF X!VerifyReturns, X!Return
    <2> QED
      BY <1>1, <1>2, <1>3, <2>1, BlameReturn
  <1>4. ASSUME UNCHANGED <<verified, extracted>> PROVE BlameInv'
    <2>1. "ok" \in Blames => WrongArchive
      BY DEF Blames
    <2> QED
      BY <1>1, <1>2, <1>4, <2>1, BlameReturn
  <1>5. CASE X!VerifyAdditional
    <2> DEFINE f == archive.additional[item]
               decoded == X!DecodeResult(f, X!Smaller(limits.header - total, limits.total - total))
               verdict == IF decoded = "ok" THEN X!AdditionalVerdict(f) ELSE decoded
    <2>1. item \in DOMAIN archive.additional
      BY <1>5 DEF X!VerifyAdditional
    <2>2. X!FolderOK(f)
      BY <1>1, <2>1 DEF X!OpenArchive
    <2>3. verdict \in Blames => Wrong(f)
      <3>1. Len(f.subs) \in Nat /\ DOMAIN f.subs = 1 .. Len(f.subs)
        BY <2>2, FolderFacts
      <3>2. X!AdditionalVerdict(f) \in Blames => Wrong(f)
        BY <3>1, AdditionalBlame
      <3>3. X!Smaller(limits.header - total, limits.total - total) \in Int
        BY LimitTypes DEF X!Smaller, BoundInv, StageInv
      <3>4. decoded \in Blames => Wrong(f)
        BY <2>2, <3>3, DecodeBlame DEF Wrong
      <3> QED
        BY <3>2, <3>4
    <2>4. verdict \in Blames => WrongArchive
      BY <2>1, <2>3 DEF WrongArchive
    <2>5. UNCHANGED <<verified, extracted>> \/ X!VerifyReturns(verdict)
      BY <1>5 DEF X!VerifyAdditional
    <2> HIDE DEF verdict
    <2> QED
      BY <1>3, <1>4, <2>4, <2>5
  <1>6. CASE X!VerifyFolder
    <2> DEFINE f == archive.folders[item]
               decoded == X!AccountedResult(f)
               verdict == IF decoded = "ok" THEN X!MembersVerdict(item) ELSE decoded
    <2>1. item \in DOMAIN archive.folders
      BY <1>6 DEF X!VerifyFolder
    <2>2. X!FolderOK(f)
      BY <1>1, <2>1 DEF X!OpenArchive
    <2>3. verdict \in Blames => Wrong(f)
      <3>1. Len(f.subs) \in Nat /\ DOMAIN f.subs = 1 .. Len(f.subs)
        BY <2>2, FolderFacts
      <3>2. X!MembersVerdict(item) \in Blames => Wrong(f)
        BY <3>1, MembersBlame
      <3>3. decoded \in Blames => Wrong(f)
        BY <2>2, AccountedBlame DEF Wrong
      <3> QED
        BY <3>2, <3>3
    <2>4. verdict \in Blames => WrongArchive
      BY <2>1, <2>3 DEF WrongArchive
    <2>5. UNCHANGED <<verified, extracted>> \/ X!VerifyReturns(verdict)
      BY <1>6 DEF X!VerifyFolder
    <2> HIDE DEF verdict
    <2> QED
      BY <1>3, <1>4, <2>4, <2>5
  <1>7. CASE X!EnterFolder
    <2> DEFINE f == X!Current
               decoded == X!AccountedResult(f)
               verdict == IF X!LeftUnmapped THEN "internal"
                          ELSE IF decoded = "ok" /\ X!Mismatch(f.crc)
                               THEN X!Damage(f, "checksum")
                          ELSE decoded
    <2>1. f = archive.folders[X!Member.folder] /\ X!Member.folder \in DOMAIN archive.folders
      <3>1. item \in X!Streamed(archive.members) /\ X!Member = archive.members[item]
        BY <1>7 DEF X!EnterFolder, X!Streamed, X!Member
      <3>2. X!Member.folder \in 1 .. Len(archive.folders)
        BY <1>1, <3>1, MemberFacts DEF BoundInv
      <3> QED
        BY <3>2 DEF X!Current, BoundInv, ShapeInv
    <2>2. verdict \in Blames => Wrong(f)
      <3>1. decoded \in Blames => Wrong(f)
        <4>1. X!FolderOK(f)
          BY <1>1, <2>1 DEF X!OpenArchive
        <4> QED
          BY <4>1, AccountedBlame DEF Wrong
      <3>2. X!Mismatch(f.crc) => Wrong(f)
        BY DEF Wrong, X!Mismatch
      <3> HIDE DEF f, decoded
      <3> QED
        BY <3>1, <3>2 DEF Blames
    <2>3. verdict \in Blames => WrongArchive
      BY <2>1, <2>2 DEF WrongArchive
    <2>4. UNCHANGED <<verified, extracted>> \/ X!Return(verdict)
      BY <1>7 DEF X!EnterFolder
    <2> HIDE DEF verdict
    <2> QED
      BY <1>3, <1>4, <2>3, <2>4
  <1>8. CASE X!FinishMember
    <2> DEFINE f == archive.folders[folder]
    <2>1. stage = "chunks"
      BY <1>8 DEF X!FinishMember
    <2>2. X!Current = f /\ folder \in DOMAIN archive.folders /\ next \in DOMAIN f.subs
      <3>1. X!Current = f /\ folder \in 1 .. Len(archive.folders) /\ next \in 1 .. Len(f.subs)
            /\ X!FolderOK(f)
        BY <2>1, InChunks
      <3> QED
        BY <3>1, FolderFacts DEF BoundInv, ShapeInv
    <2>3. CASE UNCHANGED <<verified, extracted>>
      BY <1>4, <2>3
    <2>4. CASE X!Return("sink")
      <3>1. "sink" \in Blames => WrongArchive
        BY DEF Blames
      <3> QED
        BY <1>3, <2>4, <3>1
    <2>5. CASE X!Mismatch(X!Current.subs[next].crc) /\ X!Return(X!Damage(X!Current, "checksum"))
      <3>1. Wrong(f)
        BY <2>2, <2>5 DEF Wrong, X!Mismatch
      <3>2. WrongArchive
        BY <2>2, <3>1 DEF WrongArchive
      <3> QED
        BY <1>3, <2>5, <3>2
    <2> QED
      BY <1>8, <2>3, <2>4, <2>5 DEF X!FinishMember
  <1>9. CASE X!VerifyDone
    <2> DEFINE r == IF Cardinality(X!Streamed(archive.members)) = X!SumFunction(X!SubCounts)
                    THEN "ok" ELSE "internal"
    <2>1. r \in Blames => WrongArchive
      BY DEF Blames
    <2>2. X!VerifyReturns(r)
      BY <1>9, CardinalityInstance DEF X!VerifyDone
    <2> HIDE DEF r
    <2> QED
      BY <1>3, <2>1, <2>2
  <1>10. CASE X!ExtractDone
    <2> DEFINE r == IF X!LeftUnmapped THEN "internal" ELSE "ok"
    <2>1. r \in Blames => WrongArchive
      BY DEF Blames
    <2>2. X!Return(r)
      BY <1>10 DEF X!ExtractDone
    <2> HIDE DEF r
    <2> QED
      BY <1>3, <2>1, <2>2
  <1>11. CASE X!BeginMember
    <2> DEFINE r == X!RangeResult
    <2>1. r \in Blames => WrongArchive
      BY DEF Blames, X!RangeResult
    <2>2. "sink" \in Blames => WrongArchive
      BY DEF Blames
    <2>3. UNCHANGED <<verified, extracted>> \/ X!Return("sink") \/ X!Return(r)
      BY <1>11 DEF X!BeginMember
    <2> HIDE DEF r
    <2> QED
      BY <1>3, <1>4, <2>1, <2>2, <2>3
  <1>12. CASE X!Interrupt
    <2>1. "interrupted" \in Blames => WrongArchive
      BY DEF Blames
    <2> QED
      BY <1>3, <1>12, <2>1 DEF X!Interrupt
  <1>13. CASE X!AdditionalDone \/ X!SkipMember
    BY <1>4, <1>13 DEF X!AdditionalDone, X!SkipMember
  <1>14. CASE X!EmptyFile \/ X!WriteChunk
    <2>1. "sink" \in Blames => WrongArchive
      BY DEF Blames
    <2>2. UNCHANGED <<verified, extracted>> \/ X!Return("sink")
      BY <1>14 DEF X!EmptyFile, X!WriteChunk
    <2> QED
      BY <1>3, <1>4, <2>1, <2>2
  <1> QED
    BY <1>5, <1>6, <1>7, <1>8, <1>9, <1>10, <1>11, <1>12, <1>13, <1>14 DEF X!Step
-----------------------------------------------------------------------------
(***************************************************************************)
(* From the open archive back to the raw header                            *)
(***************************************************************************)
LEMMA NextLink ==
  ASSUME IInv, LinkInv, [Next]_vars
  PROVE  LinkInv'
  <1>1. MapStep => phase # "done"
    BY DEF MapStep, AssignPacks, BuildFolder, BuildDone, CollectMappings, AddFile, FilesDone
  <1>2. MapInterrupt => phase # "done"
    BY DEF MapInterrupt, Sections
  <1>3. stage # "closed" => phase = "done"
    BY DEF IInv, OpenInv, MapInv, PhaseInv
  <1>4. ASSUME UNCHANGED <<mapVars, facts, archive>>, stage' # "closed" => stage # "closed"
        PROVE  LinkInv'
    <2>1. UNCHANGED <<raw, folders, members, facts, archive>>
      BY <1>4 DEF mapVars
    <2>2. Opened(facts)' = Opened(facts)
      BY <2>1 DEF Opened, DeclaredCrc
    <2> QED
      BY <1>4, <2>1, <2>2 DEF LinkInv
  <1>5. CASE Validate \/ ValidateInterrupted
    <2>1. stage' = stage /\ phase # "done"
      BY <1>1, <1>2, <1>5 DEF Validate, ValidateInterrupted, operationVars
    <2> QED
      BY <1>3, <2>1 DEF LinkInv
  <1>6. CASE Open
    <2>1. facts' \in Facts(raw) /\ archive' = Opened(facts') /\ UNCHANGED mapVars
      BY <1>6 DEF Open, X!Open
    <2>2. UNCHANGED <<raw, folders, members>>
      BY <2>1 DEF mapVars
    <2>3. Opened(facts)' = Opened(facts')
      BY <2>2 DEF Opened, DeclaredCrc
    <2> QED
      BY <2>1, <2>2, <2>3 DEF LinkInv
  <1>7. CASE Operate \/ OperateInterrupted
    <2>1. archive' = archive /\ stage # "closed" /\ UNCHANGED <<mapVars, facts>>
      BY <1>7, OperationFrame DEF Operate, OperateInterrupted
    <2> QED
      BY <1>4, <2>1
  <1>8. CASE UNCHANGED vars
    BY <1>4, <1>8 DEF vars, operationVars
  <1> QED
    BY <1>5, <1>6, <1>7, <1>8 DEF Next, Step

\* An open folder is the folder that was built, with its data.
LEMMA OpenFolderIs ==
  ASSUME IInv, LinkInv, stage # "closed", NEW i \in DOMAIN archive.folders
  PROVE  LET g == archive.folders[i]
             b == folders[i] IN
         /\ X!FolderOK(g) /\ FactsOK(raw, facts) /\ raw \in RawArchives
         /\ i \in 1 .. Len(folders) /\ Len(folders) = Len(raw.folders)
         /\ Built(b, i)
         /\ Len(b.subs) \in Nat /\ Len(b.subs) = Len(g.subs) /\ Len(b.subs) = Count(raw, i)
         /\ g.root = b.root
         /\ g.crc = Verdict(b.crc, FolderCrc(i), facts.wrong)
         /\ \A k \in 1 .. Len(g.subs) :
               /\ g.subs[k].size = b.subs[k].size
               /\ g.subs[k].crc = Verdict(b.subs[k].crc, DeclaredCrc(i, k), facts.wrong)
         /\ g.actual = facts.actual[i]
         /\ g.damaged <=> i \in facts.damaged
  <1> DEFINE g == archive.folders[i]
             b == folders[i]
             n == Len(b.subs)
             size(k) == b.subs[k].size
             crc(k) == Verdict(b.subs[k].crc, DeclaredCrc(i, k), facts.wrong)
             sub(k) == [size |-> size(k), crc |-> crc(k)]
  <1>1. facts \in Facts(raw) /\ archive = Opened(facts) /\ result = "ok" /\ X!OpenArchive(archive)
    BY DEF IInv, OpenInv, LinkInv
  <1>2. raw \in RawArchives /\ Len(folders) = Len(raw.folders)
    BY <1>1 DEF IInv, MapInv, FoldersInv, BuildInv
  <1>3. DOMAIN archive.folders = DOMAIN folders
    BY <1>1 DEF Opened
  <1>4. /\ i \in 1 .. Len(folders) /\ n \in Nat /\ DOMAIN b.subs = 1 .. n
    <2>1. /\ DOMAIN folders = 1 .. Len(folders)
          /\ \A f \in 1 .. Len(folders) : /\ SubsOf[f] \in Nat
                                          /\ SubsOf[f] = Len(folders[f].subs)
                                          /\ DOMAIN folders[f].subs = 1 .. SubsOf[f]
      BY SubsOfType DEF IInv, MapInv
    <2>2. i \in 1 .. Len(folders)
      BY <1>3, <2>1
    <2> QED
      BY <2>1, <2>2
  <1>5. Built(b, i)
    BY <1>4 DEF IInv, MapInv, FoldersInv
  <1>6. FactsOK(raw, facts)
    BY <1>1, <1>2, FactsAssumption
  <1>7. X!FolderOK(g)
    BY <1>1 DEF X!OpenArchive
  <1>8. /\ g.root = b.root
        /\ g.crc = Verdict(b.crc, FolderCrc(i), facts.wrong)
        /\ g.subs = [k \in DOMAIN b.subs |-> sub(k)]
        /\ g.actual = facts.actual[i]
        /\ g.damaged = (i \in facts.damaged)
    BY <1>1, <1>3 DEF Opened
  <1>9. Len(g.subs) \in Nat /\ DOMAIN g.subs = 1 .. Len(g.subs)
    BY <1>7, FolderFacts
  <1> HIDE DEF g
  <1>10. DOMAIN g.subs = 1 .. n /\ \A k \in 1 .. n : g.subs[k] = sub(k)
    <2> HIDE DEF sub
    <2> QED
      BY <1>4, <1>8
  <1>11. Len(g.subs) = n
    <2> HIDE DEF n
    <2> QED
      BY <1>4, <1>9, <1>10
  <1>12. \A k \in 1 .. n : /\ g.subs[k].size = b.subs[k].size
                           /\ g.subs[k].crc = Verdict(b.subs[k].crc, DeclaredCrc(i, k), facts.wrong)
    <2> TAKE k \in 1 .. n
    <2>1. g.subs[k] = [size |-> size(k), crc |-> crc(k)]
      BY <1>10
    <2> HIDE DEF size, crc
    <2>2. g.subs[k].size = size(k) /\ g.subs[k].crc = crc(k)
      BY <2>1
    <2> QED
      BY <2>2 DEF size, crc
  <1>13. n = Count(raw, i)
    BY <1>5 DEF Built
  <1> HIDE DEF n
  <1>14. /\ g.root = b.root
         /\ g.crc = Verdict(b.crc, FolderCrc(i), facts.wrong)
         /\ g.actual = facts.actual[i]
         /\ g.damaged <=> i \in facts.damaged
    BY <1>8
  <1>15. /\ n \in Nat /\ n = Len(g.subs) /\ n = Count(raw, i)
         /\ \A k \in 1 .. Len(g.subs) :
               /\ g.subs[k].size = b.subs[k].size
               /\ g.subs[k].crc = Verdict(b.subs[k].crc, DeclaredCrc(i, k), facts.wrong)
    BY <1>4, <1>11, <1>12, <1>13
  <1> QED
    BY <1>2, <1>4, <1>5, <1>6, <1>7, <1>14, <1>15 DEF g, n

\* A streamed file that is not empty is a streamed member, at the mapping of
\* its rank.
LEMMA StreamedFile ==
  ASSUME MapInv, result = "ok", raw.hasFiles, NEW m \in 1 .. Len(members),
         ~ raw.emptyStream[m]
  PROVE  /\ members[m].kind = "stream"
         /\ Rank(m) \in 1 .. Len(mappings)
         /\ Place(members[m]) = mappings[Rank(m)]
  <1>1. /\ Len(members) = Len(raw.emptyStream) /\ streamCursor = Len(mappings)
        /\ Len(mappings) = Rank(Len(raw.emptyStream)) /\ Len(members) \in Nat
    BY DEF MapInv, FilesInv, MappingInv
  <1>2. PICK l \in Nat : m = l + 1
    <2>1. m - 1 \in Nat /\ m = m - 1 + 1
      BY <1>1
    <2> QED
      BY <2>1
  <1>3. Rank(m) = Rank(l) + 1 /\ Rank(l) \in Nat
    BY <1>2, RankNext, UpToFinite
  <1>4. Rank(m) <= Rank(Len(members)) /\ Rank(Len(members)) \in Nat
    <2>1. m \in Nat /\ m <= Len(members)
      BY <1>1
    <2> QED
      BY <1>1, <2>1, RankMonotone, UpToFinite
  <1>5. Rank(m) \in 1 .. Len(mappings)
    BY <1>1, <1>3, <1>4
  <1>6. PICK q \in 1 .. Len(members) : members[q].kind = "stream" /\ Rank(q) = Rank(m)
    BY <1>1, <1>5 DEF MapInv, PlacesInv
  <1>7. ~ raw.emptyStream[q]
    BY <1>6 DEF MapInv, PlacesInv
  <1>8. PICK p \in Nat : q = p + 1
    <2>1. q - 1 \in Nat /\ q = q - 1 + 1
      BY <1>1
    <2> QED
      BY <2>1
  <1>9. Rank(q) = Rank(p) + 1 /\ Rank(p) \in Nat
    BY <1>7, <1>8, RankNext, UpToFinite
  <1>10. q = m
    <2>1. CASE q < m
      <3>1. q \in Nat /\ q <= l
        BY <1>2, <1>8, <2>1
      <3>2. Rank(q) <= Rank(l)
        BY <3>1, RankMonotone
      <3> QED
        BY <1>3, <1>6, <3>2
    <2>2. CASE m < q
      <3>1. m \in Nat /\ m <= p
        BY <1>2, <1>8, <2>2
      <3>2. Rank(m) <= Rank(p)
        BY <3>1, RankMonotone
      <3> QED
        BY <1>3, <1>6, <1>9, <3>2
    <2> QED
      BY <1>2, <1>8, <2>1, <2>2
  <1>11. Place(members[m]) = mappings[Rank(m)]
    BY <1>6, <1>10 DEF MapInv, PlacesInv
  <1> QED
    BY <1>5, <1>6, <1>10, <1>11
-----------------------------------------------------------------------------
\* Counting in the file finds the place that the mappings gave.
LEMMA DeclaredPlaceIs ==
  ASSUME MapInv, result = "ok", raw.hasFiles, NEW m \in 1 .. Len(members),
         ~ raw.emptyStream[m]
  PROVE  DeclaredPlace(m) = Place(members[m])
  <1> DEFINE n == Len(folders)
             c == SubsOf
             S(i) == SumFunctionOnSet(c, 1 .. i)
             upTo(i) == SumFunction([j \in 1 .. i |-> Count(raw, j)])
             q == Rank(m)
             p == mappings[q]
             f == p[1]
             k == p[2]
             T == {g \in DOMAIN raw.folders : upTo(g) >= q}
  <1>1. /\ raw \in RawArchives /\ n = Len(raw.folders) /\ Pairs(mappings, c, n)
        /\ mappings \in Seq(Nat \X Nat)
    BY DEF MapInv, FoldersInv, BuildInv, MappingInv
  <1>2. /\ n \in Nat /\ DOMAIN c = 1 .. n /\ \A j \in 1 .. n : c[j] \in Nat
        /\ \A j \in 1 .. n : c[j] = Len(folders[j].subs)
    BY SubsOfType DEF MapInv
  <1>3. \A j \in 1 .. n : c[j] = Count(raw, j)
    BY <1>2 DEF MapInv, FoldersInv, Built
  <1>4. DOMAIN raw.folders = 1 .. n
    BY <1>1, RawType
  <1>5. q \in 1 .. Len(mappings) /\ Place(members[m]) = p
    BY StreamedFile
  <1>6. f \in 1 .. n /\ k \in 1 .. c[f] /\ p = <<f, k>> /\ p \in Nat \X Nat
    <2>1. f \in 1 .. n /\ k \in 1 .. c[f]
      BY <1>1, <1>5 DEF Pairs
    <2>2. p \in Nat \X Nat
      BY <1>1, <1>5
    <2> QED
      BY <2>1, <2>2
  <1>7. ASSUME NEW i \in 0 .. n
        PROVE  upTo(i) = S(i) /\ S(i) \in Nat
    <2> DEFINE h == [j \in 1 .. i |-> Count(raw, j)]
    <2>1. \A j \in 1 .. i : h[j] = c[j] /\ h[j] \in Int /\ c[j] \in Nat
      BY <1>2, <1>3
    <2>2. IsFiniteSet(1 .. i) /\ DOMAIN h = 1 .. i
      BY FS_Interval
    <2> HIDE DEF h, c
    <2>3. SumFunctionOnSet(h, 1 .. i) = SumFunctionOnSet(c, 1 .. i)
      BY <2>1, <2>2, SumCongruence
    <2>4. SumFunctionOnSet(c, 1 .. i) \in Nat
      BY <2>1, <2>2, SumNatural
    <2>5. SumFunction(h) = S(i)
      BY <2>2, <2>3 DEF SumFunction
    <2> QED
      BY <2>4, <2>5 DEF h
  <1>8. \A i \in 1 .. n : S(i) = S(i - 1) + c[i] /\ S(i - 1) \in Nat
    <2> TAKE i \in 1 .. n
    <2> HIDE DEF c
    <2> QED
      BY <1>2, PrefixSum
  <1>9. S(f - 1) + k = q
    <2> DEFINE x == S(f - 1) + k
    <2>1. x \in 1 .. Len(mappings) /\ mappings[x] = <<f, k>>
      BY <1>1, <1>6 DEF Pairs
    <2>2. mappings[x] = mappings[q]
      BY <1>6, <2>1
    <2>3. \A a, b \in 1 .. Len(mappings) : a < b => Before(mappings[a], mappings[b])
      BY <1>1 DEF Pairs
    <2>4. ~ Before(p, p)
      BY <1>6 DEF Before
    <2>5. Len(mappings) \in Nat
      BY <1>1
    <2> HIDE DEF x, q
    <2>6. ~ x < q /\ ~ q < x
      BY <1>5, <2>1, <2>2, <2>3, <2>4
    <2>7. x = q
      BY <1>5, <2>1, <2>5, <2>6
    <2> QED
      BY <2>7 DEF x
  <1>10. ASSUME NEW a \in 0 .. n, NEW b \in 0 .. n, a <= b
         PROVE  S(a) <= S(b)
    <2>1. IsFiniteSet(1 .. b)
      BY FS_Interval
    <2>2. 1 .. a \in SUBSET (1 .. b)
      BY <1>10
    <2>3. \A j \in 1 .. b : c[j] \in Nat
      BY <1>2
    <2> HIDE DEF c
    <2>4. SumFunctionOnSet(c, 1 .. a) <= SumFunctionOnSet(c, 1 .. b)
      BY <2>1, <2>2, <2>3, SumNatural
    <2> QED
      BY <2>4
  <1> HIDE DEF upTo, S, c, p, q
  <1>11. f \in T
    <2>1. S(f) = S(f - 1) + c[f] /\ S(f - 1) \in Nat /\ c[f] \in Nat /\ k \in Nat
      BY <1>2, <1>6, <1>8
    <2>2. S(f) >= q
      BY <1>6, <1>9, <2>1
    <2>3. upTo(f) = S(f)
      BY <1>2, <1>6, <1>7
    <2> QED
      BY <1>4, <1>6, <2>2, <2>3
  <1>12. ASSUME NEW g \in T
         PROVE  f <= g
    <2>1. g \in 1 .. n /\ S(g) >= q
      BY <1>4, <1>7
    <2> SUFFICES ASSUME g < f PROVE FALSE
      BY <1>6, <2>1
    <2>2. g \in 0 .. n /\ f - 1 \in 0 .. n /\ g <= f - 1
      BY <1>2, <1>6, <2>1
    <2>3. S(g) <= S(f - 1) /\ S(g) \in Nat /\ S(f - 1) \in Nat
      BY <1>7, <1>10, <2>2
    <2> QED
      BY <1>6, <1>9, <2>1, <2>3
  <1>13. Min(T) = f
    <2>1. T \in SUBSET Nat
      BY <1>4
    <2> HIDE DEF T, f
    <2>2. \A x \in T : (\A y \in T : x <= y) => x = f
      BY <1>11, <1>12, <2>1
    <2>3. f \in T /\ \A y \in T : f <= y
      BY <1>11, <1>12
    <2>4. Min(T) \in T /\ \A y \in T : Min(T) <= y
      BY <2>3 DEF Min
    <2> QED
      BY <2>2, <2>4
  <1>14. upTo(f - 1) = S(f - 1) /\ S(f - 1) \in Nat
    <2>1. f - 1 \in 0 .. n
      BY <1>2, <1>6
    <2> QED
      BY <1>7, <2>1
  <1>15. q - upTo(f - 1) = k
    <2>1. k \in Nat
      BY <1>2, <1>6
    <2> QED
      BY <1>9, <1>14, <2>1
  <1>16. DeclaredPlace(m) = <<Min(T), q - upTo(Min(T) - 1)>>
    BY DEF DeclaredPlace, q, upTo, Rank, StreamsUpTo
  <1>17. DeclaredPlace(m) = <<f, k>>
    BY <1>13, <1>15, <1>16
  <1> QED
    BY <1>5, <1>6, <1>17

\* The range that extraction computes is the one that the header declares.
LEMMA DeclaredRangeIs ==
  ASSUME IInv, LinkInv, stage # "closed", NEW i \in DOMAIN archive.folders,
         NEW k \in 1 .. Len(archive.folders[i].subs),
         archive.folders[i].subs[k].size = Unknown => k = Len(archive.folders[i].subs)
  PROVE  LET g == archive.folders[i] IN
         DeclaredRange(i, k) = <<X!SubStart(g, k), X!SubEnd(g, k, X!SubStart(g, k))>>
  <1> DEFINE g == archive.folders[i]
             b == folders[i]
             n == Len(g.subs)
             s == [j \in DOMAIN g.subs |-> g.subs[j].size]
             d == [j \in 1 .. k - 1 |-> DeclaredSize(i, j)]
             start == X!SubStart(g, k)
             stop == X!SubEnd(g, k, start)
  <1>1. /\ X!FolderOK(g) /\ FactsOK(raw, facts) /\ raw \in RawArchives
        /\ i \in 1 .. Len(folders) /\ Len(folders) = Len(raw.folders)
        /\ Built(b, i) /\ Len(b.subs) = n /\ n = Count(raw, i)
        /\ g.root = b.root /\ g.actual = facts.actual[i]
        /\ \A j \in 1 .. n : g.subs[j].size = b.subs[j].size
    BY OpenFolderIs
  <1>2. /\ n \in Nat /\ DOMAIN g.subs = 1 .. n /\ g.actual \in Nat /\ g.root \in Sizes
        /\ \A j \in 1 .. n : g.subs[j].size \in Sizes
    BY <1>1, FolderFacts
  <1>3. \A j \in 1 .. n - 1 : g.subs[j].size = DeclaredSize(i, j)
    <2> TAKE j \in 1 .. n - 1
    <2>1. j \in 1 .. n /\ j \in 1 .. Count(raw, i) - 1
      BY <1>1, <1>2
    <2> QED
      BY <1>1, <2>1 DEF Built
  <1>4. DOMAIN s = 1 .. n /\ \A j \in 1 .. n : s[j] = g.subs[j].size /\ s[j] \in Int
    BY <1>2 DEF Sizes, Unknown
  <1>5. DOMAIN d = 1 .. k - 1 /\ \A j \in 1 .. k - 1 : d[j] = s[j] /\ d[j] \in Int
    <2>1. ASSUME NEW j \in 1 .. k - 1
          PROVE  d[j] = s[j] /\ d[j] \in Int
      <3>1. j \in 1 .. n - 1 /\ j \in 1 .. n
        BY <1>2
      <3>2. d[j] = DeclaredSize(i, j)
        OBVIOUS
      <3> HIDE DEF d, s
      <3> QED
        BY <1>3, <1>4, <3>1, <3>2
    <2> QED
      BY <2>1
  <1>6. start = SumFunctionOnSet(s, 1 .. k - 1)
    BY SumInstance DEF X!SubStart, X!Offset
  <1>7. IsFiniteSet(1 .. k - 1)
    <2>1. 1 \in Int /\ k - 1 \in Int
      BY <1>2
    <2> QED
      BY <2>1, FS_Interval, Zenon
  <1> HIDE DEF s, d
  <1>8. SumFunction(d) = start /\ start \in Int
    <2>1. /\ SumFunctionOnSet(d, 1 .. k - 1) = SumFunctionOnSet(s, 1 .. k - 1)
          /\ SumFunctionOnSet(d, 1 .. k - 1) \in Int
      BY <1>5, <1>7, SumCongruence
    <2> HIDE DEF start
    <2> QED
      BY <1>5, <1>6, <2>1 DEF SumFunction
  <1>9. DeclaredRange(i, k) =
          <<SumFunction(d), IF k = Count(raw, i) THEN facts.actual[i]
                            ELSE SumFunction(d) + DeclaredSize(i, k)>>
    BY DEF DeclaredRange, d
  <1>10. stop = IF g.subs[k].size = Unknown THEN g.actual ELSE start + g.subs[k].size
    BY UnknownInstance DEF X!SubEnd
  <1>11. CASE k # n
    <2>1. k \in 1 .. n - 1
      BY <1>2, <1>11
    <2>2. g.subs[k].size = DeclaredSize(i, k) /\ g.subs[k].size # Unknown
      BY <1>3, <1>11, <2>1
    <2>3. stop = start + DeclaredSize(i, k)
      BY <1>10, <2>2
    <2>4. DeclaredRange(i, k) = <<start, start + DeclaredSize(i, k)>>
      BY <1>1, <1>8, <1>9, <1>11
    <2> QED
      BY <2>3, <2>4
  <1>12. CASE k = n
    <2>1. DeclaredRange(i, k) = <<start, g.actual>>
      BY <1>1, <1>8, <1>9, <1>12
    <2>2. stop = g.actual
      <3> SUFFICES ASSUME g.subs[n].size # Unknown PROVE start + g.subs[n].size = g.actual
        BY <1>10, <1>12
      <3>1. n >= 1
        BY <1>2, <1>12
      <3>2. X!FolderCovered(g, "absent") /\ (g.root # Unknown => g.actual = g.root)
        BY <1>1, UnknownInstance DEF X!FolderOK
      <3>3. SumFunctionOnSet(s, 1 .. n) = start + g.subs[n].size
        <4>1. PICK l \in Nat : n = l + 1
          <5>1. n - 1 \in Nat /\ n = n - 1 + 1
            BY <1>2, <3>1
          <5> QED
            BY <5>1
        <4>2. \A j \in 1 .. l + 1 : s[j] \in Int
          BY <1>4, <4>1
        <4>3. SumFunctionOnSet(s, 1 .. l + 1) = SumFunctionOnSet(s, 1 .. l) + s[l + 1]
          BY <4>2, SumNext
        <4>4. k - 1 = l /\ s[n] = g.subs[n].size
          BY <1>4, <1>12, <3>1, <4>1
        <4> HIDE DEF start
        <4> QED
          BY <1>6, <4>1, <4>3, <4>4
      <3>4. CASE n = 1
        <4>1. g.subs[1].size = g.root
          BY <3>2, <3>4 DEF X!FolderCovered
        <4>2. start = 0
          <5>1. 1 .. k - 1 = {}
            BY <1>12, <3>4
          <5> HIDE DEF start
          <5> QED
            BY <1>6, <5>1, SumEmpty
        <4>3. g.actual = g.subs[n].size /\ g.subs[n].size \in Int
          BY <1>2, <3>2, <3>4, <4>1
        <4> HIDE DEF g, n, start
        <4> QED
          BY <4>2, <4>3
      <3>5. CASE n > 1
        <4>1. X!Offset(g.subs, n) = g.root /\ g.root # Unknown
          BY <3>2, <3>5, UnknownInstance DEF X!FolderCovered
        <4>2. X!Offset(g.subs, n) = SumFunctionOnSet(s, 1 .. n)
          BY SumInstance DEF X!Offset, s
        <4>3. g.actual = g.root
          BY <3>2, <4>1
        <4> HIDE DEF g, n, start
        <4> QED
          BY <3>3, <4>1, <4>2, <4>3
      <3>6. n = 1 \/ n > 1
        <4> HIDE DEF g, n
        <4> QED
          BY <1>2, <3>1
      <3> QED
        BY <3>4, <3>5, <3>6
    <2> QED
      BY <2>1, <2>2
  <1> QED
    BY <1>11, <1>12 DEF start, stop
-----------------------------------------------------------------------------
(***************************************************************************)
(* The checksums decide                                                    *)
(***************************************************************************)
LEMMA VerdictMatches ==
  ASSUME NEW c, NEW declared, NEW w, Verdict(c, declared, w) # "mismatch"
  PROVE  c # NoCrc => c = declared /\ c \notin w
  BY DEF Verdict

\* A finished member is intact: it could be extracted alone.
LEMMA FinishedSound ==
  ASSUME IInv, BoundInv, AgreeInv, LinkInv, CoverInv, stage # "closed",
         NEW m \in X!FinishedSet, ~ raw.emptyStream[m]
  PROVE  LET i == DeclaredPlace(m)[1]
             k == DeclaredPlace(m)[2] IN
         /\ X!Covers(got[m], DeclaredRange(i, k))
         /\ i \notin facts.damaged
         /\ FolderCrc(i) \in facts.wrong => ~ raw.folders[i].hasCrc
         /\ DeclaredCrc(i, k) \notin facts.wrong
  <1> DEFINE e == archive.members[m]
             i == e.folder
             k == e.sub
             g == archive.folders[i]
             b == folders[i]
             decoded == X!FolderResult(g, limits.total)
  <1>1. /\ archive = Opened(facts) /\ result = "ok" /\ X!OpenArchive(archive)
        /\ MapInv /\ OpenInv
    BY DEF IInv, OpenInv, LinkInv
  <1>2. archive.members = members
    BY <1>1 DEF Opened
  <1>3. m \in DOMAIN members
    BY <1>2 DEF CoverInv
  <1>4. m \in 1 .. Len(members) /\ raw.hasFiles
    <2>1. members \in Seq(FileRecord) /\ (~ raw.hasFiles => members = << >>)
          /\ raw.hasFiles \in BOOLEAN
      BY <1>1, RawType DEF MapInv, FoldersInv, FilesInv
    <2> QED
      BY <1>3, <2>1
  <1>5. e.kind = "stream" /\ DeclaredPlace(m) = Place(members[m])
    BY <1>1, <1>2, <1>4, StreamedFile, DeclaredPlaceIs
  <1>6. DeclaredPlace(m)[1] = i /\ DeclaredPlace(m)[2] = k
    BY <1>2, <1>5 DEF Place
  <1>7. m \in X!Streamed(archive.members)
    BY <1>2, <1>3, <1>5 DEF X!Streamed
  <1>8. /\ i \in 1 .. Len(archive.folders) /\ k \in 1 .. Len(g.subs)
        /\ i \in DOMAIN archive.folders
    BY <1>1, <1>7, MemberFacts DEF BoundInv, ShapeInv
  <1>9. X!ExtractEntry(m) = "ok"
    BY DEF AgreeInv, X!OperationsAgree, X!FinishedIsExtractable
  <1>10. /\ decoded = "ok" /\ X!BoundsResult(g, k) = "ok"
         /\ ~ X!Mismatch(g.subs[k].crc) /\ ~ X!Mismatch(g.crc)
    <2> DEFINE large == g.subs[k].size # X!Unknown /\ g.subs[k].size > limits.entry
               bounds == X!BoundsResult(g, k)
               damage == X!Damage(g, "checksum")
               wrong == X!Mismatch(g.subs[k].crc) \/ X!Mismatch(g.crc)
    <2>1. X!ExtractEntry(m) =
            IF e.kind = "empty" THEN "ok"
            ELSE IF e.kind # "stream" THEN "unsupported"
            ELSE IF large THEN "limit"
            ELSE IF decoded # "ok" THEN decoded
            ELSE IF bounds # "ok" THEN bounds
            ELSE IF wrong THEN damage
            ELSE "ok"
      BY DEF X!ExtractEntry
    <2>2. damage # "ok"
      BY DamageType
    <2> HIDE DEF large, bounds, damage, wrong, decoded
    <2>3. decoded = "ok" /\ bounds = "ok" /\ ~ wrong
      BY <1>5, <1>9, <2>1, <2>2, SMTT(40)
    <2> QED
      BY <2>3 DEF bounds, wrong
  <1>11. /\ X!FolderOK(g) /\ FactsOK(raw, facts)
         /\ Built(b, i) /\ Len(b.subs) = Count(raw, i) /\ Len(b.subs) = Len(g.subs)
         /\ g.crc = Verdict(b.crc, FolderCrc(i), facts.wrong)
         /\ g.subs[k].crc = Verdict(b.subs[k].crc, DeclaredCrc(i, k), facts.wrong)
         /\ g.damaged <=> i \in facts.damaged
    BY <1>8, OpenFolderIs
  <1>12. g.subs[k].size = Unknown => k = Len(g.subs)
    BY <1>10, UnknownInstance DEF X!BoundsResult
  <1>13. X!Covers(got[m], DeclaredRange(i, k))
    <2>1. X!Covers(got[m], X!RangeOf(m))
      BY <1>5 DEF CoverInv
    <2>2. DeclaredRange(i, k) = <<X!SubStart(g, k), X!SubEnd(g, k, X!SubStart(g, k))>>
      BY <1>8, <1>12, DeclaredRangeIs
    <2>3. X!RangeOf(m) = DeclaredRange(i, k)
      BY <2>2 DEF X!RangeOf
    <2> QED
      BY <2>1, <2>3
  <1>14. i \notin facts.damaged
    <2>1. limits.total \in Int /\ limits.entry \in Nat
      BY LimitTypes, SMTT(40) DEF BoundInv
    <2>2. X!MaximumOutput(g, limits.total) \in Int
      BY <1>11, <2>1, MaximumOutputType
    <2>3. X!DecodeResult(g, X!MaximumOutput(g, limits.total)) = "ok"
      BY <1>10 DEF X!FolderResult
    <2>4. ~ g.damaged
      BY <1>11, <2>2, <2>3, DecodeFacts
    <2> QED
      BY <1>11, <2>4
  <1>15. FolderCrc(i) \in facts.wrong => ~ raw.folders[i].hasCrc
    <2> SUFFICES ASSUME raw.folders[i].hasCrc PROVE FolderCrc(i) \notin facts.wrong
      BY SMTT(40)
    <2>1. b.crc = FolderCrc(i)
      BY <1>11 DEF Built
    <2>2. FolderCrc(i) # NoCrc
      BY SMTT(40) DEF FolderCrc, NoCrc
    <2>3. Verdict(b.crc, FolderCrc(i), facts.wrong) # "mismatch"
      BY <1>10, <1>11 DEF X!Mismatch
    <2>4. b.crc # NoCrc => b.crc \notin facts.wrong
      BY <2>3, VerdictMatches, SMTT(40)
    <2> QED
      BY <2>1, <2>2, <2>4
  <1>16. DeclaredCrc(i, k) \notin facts.wrong
    <2>1. b.subs[k].crc = DeclaredCrc(i, k)
      BY <1>8, <1>11, ZenonT(40) DEF Built
    <2>2. NoCrc \notin facts.wrong
      BY <1>11 DEF FactsOK
    <2> QED
      <3>1. g.subs[k].crc # "mismatch"
        BY <1>10, Zenon DEF X!Mismatch
      <3>2. Verdict(DeclaredCrc(i, k), DeclaredCrc(i, k), facts.wrong) # "mismatch"
        BY <1>11, <2>1, <3>1, Zenon
      <3>3. DeclaredCrc(i, k) # NoCrc => DeclaredCrc(i, k) \notin facts.wrong
        BY <3>2, VerdictMatches, Zenon
      <3> QED
        BY <2>2, <3>3, Zenon
  <1> QED
    BY <1>6, <1>13, <1>14, <1>15, <1>16

\* Something wrong in the open archive is wrong in the data.
LEMMA WrongSound ==
  ASSUME IInv, BoundInv, LinkInv, stage # "closed", WrongArchive
  PROVE  \/ facts.wrong # {} \/ facts.damaged # {}
         \/ \E i \in DOMAIN facts.additional : Wrong(facts.additional[i])
  <1>1. CASE \E i \in DOMAIN archive.additional : Wrong(archive.additional[i])
    <2>1. archive.additional = facts.additional
      BY DEF LinkInv, Opened
    <2> QED
      BY <1>1, <2>1
  <1>2. CASE \E i \in DOMAIN archive.folders : Wrong(archive.folders[i])
    <2>1. PICK i \in DOMAIN archive.folders : Wrong(archive.folders[i])
      BY <1>2
    <2> DEFINE g == archive.folders[i]
               b == folders[i]
    <2>2. /\ X!FolderOK(g) /\ Built(b, i) /\ Len(b.subs) = Count(raw, i)
          /\ Len(b.subs) = Len(g.subs)
          /\ g.crc = Verdict(b.crc, FolderCrc(i), facts.wrong)
          /\ \A k \in 1 .. Len(g.subs) :
               g.subs[k].crc = Verdict(b.subs[k].crc, DeclaredCrc(i, k), facts.wrong)
          /\ g.damaged <=> i \in facts.damaged
      BY OpenFolderIs
    <2>3. DOMAIN g.subs = 1 .. Len(g.subs)
      BY <2>2, FolderFacts
    <2>4. CASE g.damaged
      BY <2>2, <2>4
    <2>5. CASE g.crc = "mismatch"
      <3>1. b.crc \in {FolderCrc(i), NoCrc}
        BY <2>2 DEF Built
      <3> QED
        BY <2>2, <2>5, <3>1 DEF Verdict
    <2>6. CASE \E k \in DOMAIN g.subs : g.subs[k].crc = "mismatch"
      <3>1. PICK k \in DOMAIN g.subs : g.subs[k].crc = "mismatch"
        BY <2>6
      <3>2. k \in 1 .. Len(g.subs) /\ k \in 1 .. Count(raw, i)
        BY <2>2, <2>3
      <3>3. b.subs[k].crc = DeclaredCrc(i, k)
        BY <2>2, <3>2 DEF Built
      <3>4. Verdict(DeclaredCrc(i, k), DeclaredCrc(i, k), facts.wrong) = "mismatch"
        BY <2>2, <3>1, <3>2, <3>3
      <3> QED
        BY <3>4 DEF Verdict
    <2> QED
      BY <2>1, <2>4, <2>5, <2>6 DEF Wrong
  <1> QED
    BY <1>1, <1>2 DEF WrongArchive

LEMMA NextIntact ==
  ASSUME IInv, BoundInv, ServedInv, IntactInv, AgreeInv, [Next]_vars
  PROVE  IntactInv'
  <1>1. OpenInv /\ BracketInv /\ LinkInv /\ CoverInv /\ BlameInv
    BY DEF IInv, ServedInv, IntactInv
  <1>2. LinkInv'
    BY <1>1, NextLink
  <1>3. CASE Validate \/ ValidateInterrupted \/ UNCHANGED vars
    <2>1. UNCHANGED <<archive, stage, verified, extracted, got, finished>>
      BY <1>3 DEF Validate, ValidateInterrupted, vars, operationVars
    <2>2. CoverInv'
      BY <1>1, <2>1, CoverKept
    <2>3. BlameInv'
      BY <1>1, <2>1 DEF BlameInv, WrongArchive, Wrong
    <2> QED
      BY <1>2, <2>2, <2>3 DEF IntactInv
  <1>4. CASE Open
    <2>1. /\ stage = "closed" /\ UNCHANGED <<verified, extracted, finished>>
          /\ got' = [m \in DOMAIN archive'.members |-> << >>]
      BY <1>4 DEF Open, X!Open
    <2>2. verified = "none" /\ extracted = "none" /\ finished = << >>
      BY <2>1 DEF AgreeInv, BoundInv, StageInv, Fresh
    <2>3. X!FinishedSet' = {}
      BY <2>1, <2>2 DEF X!FinishedSet
    <2>4. \A m \in DOMAIN got' : \A i \in 1 .. Len(got'[m]) - 1 : FALSE
      <3>1. 1 .. Len(<< >>) - 1 = {}
        OBVIOUS
      <3> QED
        BY <2>1, <3>1
    <2>5. CoverInv'
      BY <2>3, <2>4 DEF CoverInv
    <2>6. BlameInv'
      BY <2>1, <2>2 DEF BlameInv, Blames
    <2> QED
      BY <1>2, <2>5, <2>6 DEF IntactInv
  <1>5. CASE Operate \/ OperateInterrupted
    <2>1. X!Step \/ X!Interrupt
      BY <1>5 DEF Operate, OperateInterrupted
    <2> QED
      BY <1>1, <1>2, <2>1, OperationCovers, OperationBlames DEF IntactInv
  <1> QED
    BY <1>3, <1>4, <1>5 DEF Next, Step

LEMMA InitIntact ==
  ASSUME Init
  PROVE  IntactInv
  <1>1. /\ stage = "closed" /\ verified = "none" /\ extracted = "none"
        /\ finished = << >> /\ got = << >>
    BY DEF Init, X!Init
  <1>2. X!FinishedSet = {} /\ DOMAIN got = {}
    BY <1>1 DEF X!FinishedSet
  <1> QED
    BY <1>1, <1>2 DEF IntactInv, LinkInv, CoverInv, BlameInv, Blames

LEMMA IntactSound ==
  ASSUME IInv, BoundInv, ServedInv, AgreeInv, IntactInv
  PROVE  ChecksumsDecide
  <1>1. LinkInv /\ CoverInv /\ BlameInv
    BY DEF IntactInv
  <1>2. FinishedIsIntact
    <2>1. CASE stage = "closed"
      <3>1. X!FinishedSet = {}
        BY <2>1 DEF BoundInv, StageInv, Fresh, X!FinishedSet
      <3> QED
        BY <3>1 DEF FinishedIsIntact
    <2>2. CASE stage # "closed"
      BY <1>1, <2>2, FinishedSound DEF FinishedIsIntact
    <2> QED
      BY <2>1, <2>2
  <1>3. BlameIsTrue
    <2> SUFFICES ASSUME {verified, extracted} \cap {"checksum", "password"} # {}
                 PROVE  \/ facts.wrong # {} \/ facts.damaged # {}
                        \/ \E i \in DOMAIN facts.additional : Wrong(facts.additional[i])
      BY DEF BlameIsTrue, Wrong
    <2> QED
      BY <1>1, WrongSound DEF BlameInv, Blames
  <1> QED
    BY <1>2, <1>3 DEF ChecksumsDecide

\* raw.rs, validate.rs and archive.rs together: from any header, finish_entry
\* is only called for a member that was given exactly the bytes the header
\* declares for it, from a folder that decodes and with no stored checksum that
\* is wrong, and a checksum or password error is only returned when the data
\* gives a reason for it.
THEOREM ChecksumsHold == Spec => []ChecksumsDecide
  <1>1. Init => BoundInv /\ ServedInv /\ AgreeInv /\ IntactInv
    BY InitBound, InitServed, InitAgree, InitIntact
  <1>2. IInv /\ BoundInv /\ ServedInv /\ AgreeInv /\ IntactInv /\ [Next]_vars
          => BoundInv' /\ ServedInv' /\ AgreeInv' /\ IntactInv'
    BY NextBound, NextServed, NextAgree, NextIntact
  <1>3. IInv /\ BoundInv /\ ServedInv /\ AgreeInv /\ IntactInv => ChecksumsDecide
    BY IntactSound
  <1> QED
    BY <1>1, <1>2, <1>3, AlwaysIInv, PTL DEF Spec
=============================================================================
