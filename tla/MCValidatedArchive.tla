-------------------------- MODULE MCValidatedArchive --------------------------
(***************************************************************************)
(* Raw headers of one or two folders with at most MaxCount substreams      *)
(* each, and what their packed data may hold.  One folder ranges over      *)
(* every way to size it, to place its digests and to go wrong; two folders *)
(* over every pair of counts and roots with one thing wrong at a time.     *)
(* The packed streams lie one behind the other, except in Layouts, which   *)
(* tries every small layout on one archive of each kind.                   *)
(***************************************************************************)
EXTENDS ValidatedArchive

CONSTANTS MaxCount, RootSize, StoredSize, HeaderAt, MaxPosition

MCFolder == [root : {Unknown, RootSize}, hasCrc : BOOLEAN]

MCCounts(fs) == {<< >>} \cup [1 .. Len(fs) -> 0 .. MaxCount]

\* A stored size may fit into the root or exceed it.
SmallSizes(fs) ==
  {Unknown, StoredSize} \cup (IF Len(fs) = 1 THEN {RootSize + 1} ELSE {})

\* Defined everywhere, or everywhere but at one end.
MCDigests(n) ==
  {[i \in 1 .. n |-> TRUE], [i \in 1 .. n |-> i # 1], [i \in 1 .. n |-> i # n]}

\* n streams, with one empty stream at the start, before the last or at the
\* end, or none.
MCEmptyStreams(n, places) ==
  {[i \in 1 .. n |-> FALSE]} \cup
  {[i \in 1 .. n + 1 |-> i = j] : j \in places \cap (1 .. n + 1)}

\* The streams part of a raw header.
MCStreams(lists) ==
  UNION {
    {[folders |-> fs, counts |-> cs, hasSizes |-> hs, sizes |-> ss,
      hasDigests |-> hd, digests |-> ds] :
       ss \in IF hs THEN [1 .. ExplicitSizeCount([folders |-> fs, counts |-> cs])
                            -> SmallSizes(fs)]
              ELSE {<< >>},
       ds \in IF hd THEN MCDigests(DigestCount([folders |-> fs, counts |-> cs]))
              ELSE {<< >>}} :
    <<fs, cs, hs, hd>> \in
      {t \in UNION {{fs} \X MCCounts(fs) \X BOOLEAN \X BOOLEAN : fs \in lists} :
         t[2] = << >> => ~ t[3] /\ ~ t[4]}}

StreamCount(s) == MapThenSumSet(LAMBDA i : Count(s, i), DOMAIN s.folders)

Section(position, sizes, packs) ==
  [position |-> position, streams |-> Len(sizes), sizes |-> sizes, packs |-> packs]

Ones(n) == [i \in 1 .. n |-> 1]

\* One packed byte for each folder, the additional ones behind the others.
InARow(main, additional) ==
  [s \in Sections |->
     IF s = "main" THEN Section(0, Ones(main), Ones(main))
     ELSE Section(main, Ones(additional), Ones(additional))]

\* With files, whose empty streams are empty files, directories or anti-items.
WithFiles(s, es, kind) ==
  LET n == Len(SelectSeq(es, LAMBDA b : b)) IN
  [folders |-> s.folders, counts |-> s.counts, hasSizes |-> s.hasSizes,
   sizes |-> s.sizes, hasDigests |-> s.hasDigests, digests |-> s.digests,
   pack |-> InARow(Len(s.folders), 0), header |-> HeaderAt,
   hasFiles |-> TRUE, emptyStream |-> es,
   emptyFile |-> [i \in 1 .. n |-> kind # "dir"],
   anti |-> [i \in 1 .. n |-> kind = "anti"]]

WithoutFiles(s) == [WithFiles(s, << >>, "dir") EXCEPT !.hasFiles = FALSE]

OneFolder == MCStreams({<<f>> : f \in MCFolder})

\* Substreams of a sized folder have digests, all but perhaps the last.
TwoFolders ==
  {s \in MCStreams(MCFolder \X [root : {RootSize}, hasCrc : BOOLEAN]) :
     /\ s.hasSizes <=> s.hasDigests
     /\ s.digests = << >> \/ s.digests[1]}

\* The archive that additional streams are tried on.
TakesAdditional(r) ==
  Len(r.folders) = 1 /\ r.counts = << >> /\ Len(r.emptyStream) = 1
    /\ ~ r.emptyStream[1]

BaseArchives ==
  UNION {LET n == StreamCount(s) IN
         {WithFiles(s, es, "empty") :
            es \in MCEmptyStreams(n, {1, n, n + 1}) \cup {[i \in 1 .. n + 1 |-> FALSE]}}
         \cup {WithFiles(s, <<TRUE>> \o [i \in 1 .. n |-> FALSE], k) : k \in {"dir", "anti"}}
         \cup {WithoutFiles(s)} : s \in OneFolder} \cup
  UNION {{WithFiles(s, es, IF s.folders[1].hasCrc THEN "empty" ELSE "dir") :
            es \in MCEmptyStreams(StreamCount(s), {2})} : s \in TwoFolders} \cup
  {WithFiles([folders |-> << >>, counts |-> << >>, hasSizes |-> FALSE,
              sizes |-> << >>, hasDigests |-> FALSE, digests |-> << >>],
             <<TRUE, TRUE>>, "empty")}

\* An additional section of one or two folders behind the main one.
WithAdditional ==
  {[r EXCEPT !.pack = InARow(1, n)] :
     r \in {b \in BaseArchives : TakesAdditional(b)}, n \in {1, 2}}

\* Sizes that are empty, fit, are unknown, or make a u64 sum overflow.
PackSizes == {0, 1, 2, Unknown, 2 * HeaderAt - 1}

\* Every layout of at most two packed streams, also without sizes, in front of,
\* behind or across a section of additional streams.
MainSections(n) ==
  {Section(p, ss, ps) : p \in 0 .. MaxPosition,
                        ss \in UNION {[1 .. k -> PackSizes] : k \in 0 .. 2},
                        ps \in [1 .. n -> {1, 2}]} \cup
  {[Section(0, << >>, Ones(n)) EXCEPT !.streams = n]}

AdditionalSections ==
  {Section(0, << >>, << >>), Section(0, <<1>>, << >>), Section(1, <<1, 1>>, <<1, 1>>),
   Section(1, <<1, 1>>, <<2>>), Section(0, <<1>>, <<2>>),
   Section(0, <<Unknown>>, <<1>>), Section(0, <<HeaderAt + 1>>, <<1>>)} \cup
  {Section(p, <<n>>, <<1>>) : p \in 0 .. MaxPosition, n \in {0, 2}}

\* A header without FilesInfo, and one with a file in each of two folders.
Layouts ==
  LET plain(n) == [folders |-> [i \in 1 .. n |-> [root |-> RootSize, hasCrc |-> TRUE]],
                   counts |-> << >>, hasSizes |-> FALSE, sizes |-> << >>,
                   hasDigests |-> FALSE, digests |-> << >>]
      on(r) == {[r EXCEPT !.pack = [s \in Sections |-> IF s = "main" THEN m ELSE a]] :
                  m \in MainSections(Len(r.folders)), a \in AdditionalSections} IN
  on(WithoutFiles(plain(1))) \cup on(WithFiles(plain(2), <<FALSE, FALSE>>, "empty"))

MCRawArchives == BaseArchives \cup WithAdditional \cup Layouts
-----------------------------------------------------------------------------
Stored(r) ==
  {FolderCrc(i) : i \in {j \in DOMAIN r.folders : r.folders[j].hasCrc}} \cup
  {Digest(i) : i \in {j \in DOMAIN r.digests : r.digests[j]}}

\* The coders of a folder of undeclared size produce nothing, less than the
\* stored sizes or more.
Actual(r, n) ==
  [i \in DOMAIN r.folders |->
     IF r.folders[i].root = Unknown THEN n ELSE r.folders[i].root]

Fact(actual, wrong, damaged, encrypted, more, limit) ==
  [actual |-> actual, wrong |-> wrong, damaged |-> damaged,
   encrypted |-> encrypted, additional |-> more, limits |-> limit]

Ample == [entry |-> 3, total |-> 9, header |-> 9]

\* An entry, the total or the header metadata may hit its limit.
Tight == {[entry |-> 2, total |-> 5, header |-> 3],
          [entry |-> 3, total |-> 4, header |-> 1]}

Sub(size, crc) == [size |-> size, crc |-> crc]

More(root, actual, crc, subs, damaged, encrypted) ==
  [root |-> root, actual |-> actual, crc |-> crc, subs |-> subs,
   damaged |-> damaged, encrypted |-> encrypted]

Sound == More(1, 1, "match", <<Sub(1, "match")>>, FALSE, FALSE)

\* Additional streams: each verdict, and each way for the ranges not to fit.
AdditionalFolders ==
  {More(1, 1, c, << >>, FALSE, FALSE) : c \in {"match", "mismatch"}} \cup
  {More(0, 0, "absent", << >>, FALSE, FALSE)} \cup
  {More(2, 2, c, <<Sub(2, c)>>, d, e) :
     c \in {"match", "mismatch"}, d \in BOOLEAN, e \in BOOLEAN} \cup
  {More(Unknown, n, "absent", <<Sub(1, "match"), Sub(Unknown, c)>>, FALSE, FALSE) :
     n \in {0, 1, 3}, c \in {"match", "mismatch"}} \cup
  {More(3, 3, "match", <<Sub(Unknown, "match"), Sub(Unknown, "match")>>,
        FALSE, FALSE)}

Lengths(r) ==
  IF \E i \in DOMAIN r.folders : r.folders[i].root = Unknown THEN {0, 1, 3} ELSE {0}

\* One folder: each CRC wrong, a failing decoder, either of them encrypted,
\* and each limit.
OneFolderFacts(r) ==
  {Fact(Actual(r, n), {c}, {}, e, << >>, Ample) :
     n \in Lengths(r), c \in Stored(r), e \in {{}, {1}}} \cup
  {Fact(Actual(r, 1), {}, {1}, e, << >>, Ample) : e \in {{}, {1}}} \cup
  {Fact(Actual(r, n), {}, {}, {}, << >>, l) : n \in Lengths(r), l \in Tight \cup {Ample}}

AdditionalFacts(r) ==
  {Fact(Actual(r, 1), {}, {}, {}, more, l) :
     l \in Tight \cup {Ample},
     more \in IF Len(r.pack["additional"].packs) = 1
              THEN {<<f>> : f \in AdditionalFolders}
              ELSE {<<Sound, f>> : f \in AdditionalFolders}}

\* Two folders: one wrong CRC, or a limit that the second folder meets.
TwoFolderFacts(r) ==
  {Fact(Actual(r, 3), {c}, {}, {}, << >>, Ample) : c \in Stored(r)} \cup
  {Fact(Actual(r, 3), {}, {}, {}, << >>, l) : l \in Tight \cup {Ample}}

MCFacts(r) ==
  LET more == Len(r.pack["additional"].packs) IN
  IF r.folders # << >> /\ r.pack = InARow(Len(r.folders), more)
  THEN IF more > 0 THEN AdditionalFacts(r)
       ELSE IF Len(r.folders) = 1 THEN OneFolderFacts(r)
       ELSE TwoFolderFacts(r)
  ELSE {Fact(Actual(r, 0), {}, {}, {}, [i \in 1 .. more |-> Sound], Ample)}
=============================================================================
