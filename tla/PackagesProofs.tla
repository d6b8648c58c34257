--------------------------- MODULE PackagesProofs ---------------------------
(***************************************************************************)
(* Proofs about the five package readers: the entries of an opened archive  *)
(* lie apart and inside the bytes it keeps, every round goes forward, and   *)
(* extract_entries_to keeps the promise of EntrySink, by the inductive      *)
(* invariant Inv; the Limits hold, by Inv and the invariant Limited.  A     *)
(* parser's rounds are followed through the folds, decoders and checks      *)
(* they are made of.                                                        *)
(***************************************************************************)
EXTENDS Packages, NaturalLemmas, SequenceTheorems, TLAPS
-----------------------------------------------------------------------------
(***************************************************************************)
(* Sequences of cells                                                      *)
(***************************************************************************)

\* A vector is a sequence of what it holds.
LEMMA VectorIsSeq ==
  ASSUME NEW s, IsVector(s)
  PROVE  /\ Len(s) \in Nat /\ DOMAIN s = 1 .. Len(s)
         /\ s \in Seq({s[i] : i \in 1 .. Len(s)})
  <1> DEFINE S == {s[i] : i \in 1 .. Len(s)}
  <1>1. Len(s) \in Nat /\ s = [i \in 1 .. Len(s) |-> s[i]]
    BY DEF IsVector
  <1>2. DOMAIN s = 1 .. Len(s)
    BY <1>1
  <1>3. s \in [1 .. Len(s) -> S]
    BY <1>1
  <1>4. s \in Seq(S)
    <2> HIDE DEF S
    <2> QED
      BY <1>1, <1>3
  <1> QED
    BY <1>1, <1>2, <1>4

\* A function on 1 .. n is a vector of that length.
LEMMA FunctionIsVector ==
  ASSUME NEW n \in Nat, NEW f, f = [i \in 1 .. n |-> f[i]]
  PROVE  IsVector(f) /\ Len(f) = n
  <1> DEFINE S == {f[i] : i \in 1 .. n}
  <1>1. f \in [1 .. n -> S]
    OBVIOUS
  <1>2. f \in Seq(S) /\ Len(f) = n
    <2> HIDE DEF S
    <2>1. f \in Seq(S)
      BY <1>1
    <2> QED
      BY <1>1, <2>1
  <1> QED
    BY <1>2 DEF IsVector

\* A sequence is a vector.
LEMMA SeqIsVector ==
  ASSUME NEW S, NEW s \in Seq(S)
  PROVE  IsVector(s)
  <1>1. Len(s) \in Nat /\ s \in [1 .. Len(s) -> S]
    OBVIOUS
  <1> QED
    BY <1>1 DEF IsVector

\* Part of a vector is a vector.
LEMMA SubVector ==
  ASSUME NEW s, IsVector(s), NEW m \in Nat \ {0}, NEW n \in Int, n <= Len(s)
  PROVE  /\ IsVector(SubSeq(s, m, n))
         /\ Len(SubSeq(s, m, n)) = IF m <= n THEN n - m + 1 ELSE 0
         /\ \A i \in 1 .. Len(SubSeq(s, m, n)) :
              m + i - 1 \in 1 .. Len(s) /\ SubSeq(s, m, n)[i] = s[m + i - 1]
  <1> DEFINE S == {s[i] : i \in 1 .. Len(s)}
             r == SubSeq(s, m, n)
  <1>1. Len(s) \in Nat
    BY DEF IsVector
  <1>2. \A i \in m .. n : s[i] \in S
    <2>1. \A i \in m .. n : i \in 1 .. Len(s)
      BY <1>1
    <2> QED
      BY <2>1
  <1>3. /\ r \in Seq(S)
        /\ Len(r) = IF m <= n THEN n - m + 1 ELSE 0
        /\ \A i \in 1 .. n - m + 1 : r[i] = s[m + i - 1]
    <2> HIDE DEF S
    <2> QED
      BY <1>2, SubSeqProperties
  <1> HIDE DEF S
  <1>4. IsVector(r)
    BY <1>3, SeqIsVector, Zenon
  <1>5. ASSUME NEW i \in 1 .. Len(r)
        PROVE  m + i - 1 \in 1 .. Len(s) /\ r[i] = s[m + i - 1]
    <2>1. m <= n /\ i \in 1 .. n - m + 1
      BY <1>3
    <2> QED
      BY <1>1, <1>3, <2>1
  <1> QED
    BY <1>3, <1>4, <1>5

\* Slice, where its bounds are integers.
LEMMA SliceLemma ==
  ASSUME NEW s, IsVector(s), NEW start \in Nat, NEW n \in Int
  PROVE  /\ IsVector(Slice(s, start, n))
         /\ n >= 0 => Len(Slice(s, start, n)) <= n
         /\ n >= 0 /\ start + n <= Len(s) => Len(Slice(s, start, n)) = n
         /\ \A i \in 1 .. Len(Slice(s, start, n)) :
              start + i \in 1 .. Len(s) /\ Slice(s, start, n)[i] = s[start + i]
  <1> DEFINE e == Smaller(start + n, Len(s))
  <1>1. Len(s) \in Nat
    BY DEF IsVector
  <1>2. e \in Int /\ e <= Len(s) /\ e <= start + n
        /\ (start + n <= Len(s) => e = start + n)
    BY <1>1 DEF Smaller
  <1>3. Slice(s, start, n) = SubSeq(s, start + 1, e)
    BY DEF Slice
  <1> HIDE DEF e
  <1>4. /\ IsVector(SubSeq(s, start + 1, e))
        /\ Len(SubSeq(s, start + 1, e)) = IF start + 1 <= e THEN e - (start + 1) + 1 ELSE 0
        /\ \A i \in 1 .. Len(SubSeq(s, start + 1, e)) :
             /\ (start + 1) + i - 1 \in 1 .. Len(s)
             /\ SubSeq(s, start + 1, e)[i] = s[(start + 1) + i - 1]
    BY <1>2, SubVector
  <1> DEFINE r == SubSeq(s, start + 1, e)
  <1> HIDE DEF r
  <1>5. /\ IsVector(r) /\ Len(r) = IF start + 1 <= e THEN e - start ELSE 0
        /\ \A i \in 1 .. Len(r) : start + i \in 1 .. Len(s) /\ r[i] = s[start + i]
    <2>1. IsVector(r) /\ Len(r) \in Nat
      BY <1>4, Zenon DEF r, IsVector
    <2>2. \A i \in Int : (start + 1) + i - 1 = start + i
      OBVIOUS
    <2> QED
      BY <1>2, <1>4, <2>1, <2>2 DEF r
  <1>6. Slice(s, start, n) = r
    BY <1>3 DEF r
  <1> QED
    BY <1>1, <1>2, <1>5, <1>6

\* Append lengthens a vector by its last element.
LEMMA AppendVector ==
  ASSUME NEW s, IsVector(s), NEW x
  PROVE  /\ IsVector(Append(s, x)) /\ Len(Append(s, x)) = Len(s) + 1
         /\ \A i \in 1 .. Len(s) : Append(s, x)[i] = s[i]
         /\ Append(s, x)[Len(s) + 1] = x
  <1> DEFINE S == {s[i] : i \in 1 .. Len(s)} \cup {x}
  <1>1. s \in Seq(S) /\ x \in S
    <2>1. s \in Seq({s[i] : i \in 1 .. Len(s)})
      BY VectorIsSeq
    <2> QED
      BY <2>1
  <1> HIDE DEF S
  <1>2. /\ Append(s, x) \in Seq(S) /\ Len(Append(s, x)) = Len(s) + 1
        /\ \A i \in 1 .. Len(s) : Append(s, x)[i] = s[i]
        /\ Append(s, x)[Len(s) + 1] = x
    BY <1>1, AppendProperties
  <1> QED
    BY <1>2, SeqIsVector, Zenon

\* One vector behind another is a vector.
LEMMA ConcatVector ==
  ASSUME NEW s, IsVector(s), NEW t, IsVector(t)
  PROVE  /\ IsVector(s \o t) /\ Len(s \o t) = Len(s) + Len(t)
         /\ \A i \in 1 .. Len(s \o t) :
              (s \o t)[i] = IF i <= Len(s) THEN s[i] ELSE t[i - Len(s)]
  <1> DEFINE S == {s[i] : i \in 1 .. Len(s)} \cup {t[i] : i \in 1 .. Len(t)}
  <1>1. s \in Seq(S) /\ t \in Seq(S)
    <2>1. s \in Seq({s[i] : i \in 1 .. Len(s)}) /\ t \in Seq({t[i] : i \in 1 .. Len(t)})
      BY VectorIsSeq
    <2> QED
      BY <2>1
  <1> HIDE DEF S
  <1>2. s \o t \in Seq(S)
    BY <1>1
  <1>3. IsVector(s \o t)
    BY <1>2, SeqIsVector, Zenon
  <1> QED
    BY <1>1, <1>3
-----------------------------------------------------------------------------
(***************************************************************************)
(* Folds: what a fold over a vector computes is the last of a row of       *)
(* states, each made of the one in front.                                  *)
(***************************************************************************)

\* A nonempty set of numbers up to n has a last element.
LEMMA LastBelow ==
  ASSUME NEW n \in Int, NEW S \in SUBSET Int, \A x \in S : x <= n, S # {}
  PROVE  Max(S) \in S /\ \A y \in S : y <= Max(S)
  <1> DEFINE T == {n - x : x \in S}
  <1>1. T \in SUBSET Nat /\ T # {}
    <2>1. ASSUME NEW x \in S PROVE n - x \in Nat
      <3>1. x \in Int /\ x <= n
        OBVIOUS
      <3> QED
        BY <3>1
    <2> QED
      BY <2>1
  <1>2. PICK t \in T : \A u \in T : t <= u
    BY <1>1, LeastElement, Zenon
  <1>3. PICK x \in S : t = n - x
    BY <1>2
  <1>4. ASSUME NEW y \in S PROVE x >= y
    <2>1. n - x <= n - y
      BY <1>2, <1>3, Zenon
    <2>2. x \in Int /\ y \in Int
      OBVIOUS
    <2> QED
      BY <2>1, <2>2
  <1>5. \E z \in S : \A y \in S : z >= y
    BY <1>4
  <1>6. Max(S) \in S /\ \A y \in S : Max(S) >= y
    BY <1>5, Zenon DEF Max
  <1> QED
    BY <1>6

\* The same of a set of places.
LEMMA LastOf ==
  ASSUME NEW n \in Nat, NEW S \in SUBSET (1 .. n), S # {}
  PROVE  Max(S) \in S /\ \A y \in S : y <= Max(S)
  <1>1. S \in SUBSET Int /\ (\A x \in S : x <= n) /\ n \in Int /\ S # {}
    OBVIOUS
  <1>2. Max(S) \in S /\ \A y \in S : y <= Max(S)
    BY <1>1, LastBelow, Zenon
  <1> QED
    BY <1>2

\* The last of 1 .. n.
LEMMA LastOfRow ==
  ASSUME NEW n \in Nat \ {0}
  PROVE  Max(1 .. n) = n /\ (1 .. n) \ {n} = 1 .. n - 1
  <1>1. 1 .. n # {} /\ n \in 1 .. n /\ 1 .. n \in SUBSET (1 .. n)
    OBVIOUS
  <1>2. Max(1 .. n) \in 1 .. n /\ \A y \in 1 .. n : y <= Max(1 .. n)
    BY <1>1, LastOf, Zenon
  <1> QED
    BY <1>1, <1>2

\* The operations of a chunk, one after the other.
OperationsOutcome(base, s, target) ==
  FoldLeft(LAMBDA x, o : LzmaStep(x, target, o), base, s)
IsOperationsFold(g, base, s, target, m) ==
  g = [t \in SUBSET (1 .. m) |->
         IF t = {} THEN base ELSE LzmaStep(g[t \ {Max(t)}], target, s[Max(t)])]

OperationsRow(h, base, s, target) ==
  /\ h[0] = base
  /\ \A i \in 1 .. Len(s) : h[i] = LzmaStep(h[i - 1], target, s[i])
  /\ OperationsOutcome(base, s, target) = h[Len(s)]

\* The fold over a chunk's operations is the end of such a row.
LEMMA OperationsFold ==
  ASSUME NEW base, NEW s, IsVector(s), NEW target
  PROVE  \E h : OperationsRow(h, base, s, target)
  <1> DEFINE n == Len(s)
             G(g, m) == IsOperationsFold(g, base, s, target, m)
             c == CHOOSE g : G(g, n)
  <1>1. n \in Nat /\ DOMAIN s = 1 .. n
    BY VectorIsSeq
  <1>2. OperationsOutcome(base, s, target) = c[1 .. n]
    BY <1>1 DEF OperationsOutcome, FoldLeft, MapThenFoldSet, IsOperationsFold
  <1> HIDE DEF n
  <1> DEFINE N == {m \in Nat : \E g : G(g, m)}
  <1>3. 0 \in N
    <2> DEFINE g == [t \in SUBSET (1 .. 0) |-> base]
    <2>1. SUBSET (1 .. 0) = {{}}
      OBVIOUS
    <2>2. \A t \in SUBSET (1 .. 0) : t = {}
      BY <2>1
    <2>3. G(g, 0)
      BY <2>2 DEF IsOperationsFold
    <2> QED
      BY <2>3
  <1>4. ASSUME NEW m \in Nat, m \in N PROVE m + 1 \in N
    <2>1. PICK g : G(g, m)
      BY <1>4
    <2> DEFINE g1 == [t \in SUBSET (1 .. m + 1) |->
                        IF m + 1 \in t THEN LzmaStep(g[t \ {m + 1}], target, s[m + 1]) ELSE g[t]]
               T(f, t) == IF t = {} THEN base ELSE LzmaStep(f[t \ {Max(t)}], target, s[Max(t)])
    <2>2. \A t \in SUBSET (1 .. m) : g[t] = T(g, t)
      BY <2>1, Zenon DEF IsOperationsFold
    <2>3. \A t \in SUBSET (1 .. m + 1) :
            /\ m + 1 \notin t => t \in SUBSET (1 .. m)
            /\ t \ {m + 1} \in SUBSET (1 .. m)
      OBVIOUS
    <2>4. ASSUME NEW t \in SUBSET (1 .. m + 1) PROVE g1[t] = T(g1, t)
      <3>1. CASE m + 1 \in t
        <4>1. Max(t) = m + 1
          <5>1. t # {} /\ m + 1 \in Nat
            BY <3>1
          <5>2. Max(t) \in t /\ \A y \in t : y <= Max(t)
            BY <5>1, LastOf, Zenon
          <5>3. Max(t) \in 1 .. m + 1 /\ m + 1 <= Max(t)
            BY <3>1, <5>2, Zenon
          <5> QED
            BY <5>3
        <4>2. t # {}
          BY <3>1
        <4>3. t \ {m + 1} \in SUBSET (1 .. m + 1) /\ m + 1 \notin t \ {m + 1}
          OBVIOUS
        <4>4. g1[t \ {m + 1}] = g[t \ {m + 1}]
          BY <4>3
        <4>5. g1[t] = LzmaStep(g[t \ {m + 1}], target, s[m + 1])
          BY <3>1
        <4> HIDE DEF g1
        <4> QED
          BY <4>1, <4>2, <4>4, <4>5, Zenon
      <3>2. CASE m + 1 \notin t
        <4>1. t \in SUBSET (1 .. m) /\ g1[t] = g[t]
          BY <2>3, <3>2
        <4>2. CASE t = {}
          BY <2>2, <4>1, <4>2
        <4>3. CASE t # {}
          <5>1. /\ t \ {Max(t)} \in SUBSET (1 .. m + 1)
                /\ m + 1 \notin t \ {Max(t)}
            BY <3>2, Zenon
          <5>2. g1[t \ {Max(t)}] = g[t \ {Max(t)}]
            BY <5>1
          <5> HIDE DEF g1
          <5> QED
            BY <2>2, <4>1, <4>3, <5>2, Zenon
        <4> QED
          BY <4>2, <4>3
      <3> QED
        BY <3>1, <3>2
    <2>5. g1 = [t \in SUBSET (1 .. m + 1) |-> g1[t]]
      OBVIOUS
    <2> HIDE DEF g1
    <2>6. g1 = [t \in SUBSET (1 .. m + 1) |-> T(g1, t)]
      BY <2>4, <2>5, Zenon
    <2>7. G(g1, m + 1)
      BY <2>6, Zenon DEF IsOperationsFold
    <2> QED
      BY <2>7
  <1>5. n \in N
    <2> HIDE DEF N
    <2> QED
      BY <1>1, <1>3, <1>4, SetInduction
  <1>6. G(c, n)
    BY <1>5
  <1> HIDE DEF c
  <1>7. \A t \in SUBSET (1 .. n) :
          c[t] = IF t = {} THEN base ELSE LzmaStep(c[t \ {Max(t)}], target, s[Max(t)])
    BY <1>6, Zenon DEF IsOperationsFold
  <1> DEFINE h == [i \in 0 .. n |-> c[1 .. i]]
  <1>8. h[0] = base
    <2>1. 1 .. 0 = {} /\ {} \in SUBSET (1 .. n) /\ h[0] = c[1 .. 0]
      BY <1>1
    <2> QED
      BY <1>7, <2>1, Zenon
  <1>9. ASSUME NEW i \in 1 .. n PROVE h[i] = LzmaStep(h[i - 1], target, s[i])
    <2>1. i \in Nat \ {0} /\ 1 .. i \in SUBSET (1 .. n) /\ 1 .. i # {}
      BY <1>1
    <2>2. Max(1 .. i) = i /\ (1 .. i) \ {i} = 1 .. i - 1
      BY <2>1, LastOfRow
    <2>3. h[i] = c[1 .. i] /\ h[i - 1] = c[1 .. i - 1]
      BY <1>1
    <2> QED
      BY <1>7, <2>1, <2>2, <2>3, Zenon
  <1>10. h[n] = c[1 .. n]
    BY <1>1
  <1> HIDE DEF h
  <1> QED
    BY <1>2, <1>8, <1>9, <1>10 DEF n, OperationsRow
-----------------------------------------------------------------------------
(***************************************************************************)
(* Records and cells                                                       *)
(***************************************************************************)

\* The cells that hold no number of the file.
LEMMA PlainRecords ==
  /\ \A v : RecordOK(Byte(v)) /\ CellOK(Byte(v))
  /\ RecordOK(Zero) /\ CellOK(Zero)
  /\ RecordOK(Garbled)
  BY DEF RecordOK, CellOK, Unsigned, Byte, Zero, Garbled

\* Every cell is a record.
LEMMA CellsAreRecords ==
  ASSUME NEW s, CellsOK(s)
  PROVE  RecordsOK(s)
  BY Zenon DEF CellsOK, CellOK, RecordsOK

\* A slice of records is records.
LEMMA SliceRecords ==
  ASSUME NEW s, RecordsOK(s), NEW start \in Nat, NEW n \in Int
  PROVE  RecordsOK(Slice(s, start, n))
  <1>1. IsVector(s) /\ \A i \in 1 .. Len(s) : RecordOK(s[i])
    BY DEF RecordsOK
  <1>2. /\ IsVector(Slice(s, start, n))
        /\ \A i \in 1 .. Len(Slice(s, start, n)) :
             start + i \in 1 .. Len(s) /\ Slice(s, start, n)[i] = s[start + i]
    BY <1>1, SliceLemma
  <1> QED
    BY <1>1, <1>2 DEF RecordsOK

\* A slice of cells is cells.
LEMMA SliceCells ==
  ASSUME NEW s, CellsOK(s), NEW start \in Nat, NEW n \in Int
  PROVE  CellsOK(Slice(s, start, n))
  <1>1. IsVector(s) /\ \A i \in 1 .. Len(s) : CellOK(s[i])
    BY DEF CellsOK
  <1>2. /\ IsVector(Slice(s, start, n))
        /\ \A i \in 1 .. Len(Slice(s, start, n)) :
             start + i \in 1 .. Len(s) /\ Slice(s, start, n)[i] = s[start + i]
    BY <1>1, SliceLemma
  <1> QED
    BY <1>1, <1>2 DEF CellsOK

\* A record that is found is one of the cells.
LEMMA RecordFound ==
  ASSUME NEW s, CellsOK(s), NEW o, NEW k, NEW fallback
  PROVE  LET r == RecordAt(s, o, k, fallback) IN
         r = fallback \/ (o \in 0 .. Len(s) - 1 /\ r = s[o + 1] /\ CellOK(r) /\ r.k = k)
  <1>1. Len(s) \in Nat /\ \A i \in 1 .. Len(s) : CellOK(s[i])
    BY DEF CellsOK, IsVector
  <1>2. ASSUME o \in 0 .. Len(s) - 1 PROVE CellOK(s[o + 1])
    <2>1. o + 1 \in 1 .. Len(s)
      BY <1>1, <1>2
    <2> QED
      BY <1>1, <2>1
  <1> QED
    BY <1>2 DEF RecordAt

\* What is read at an offset is a record of its kind, or the fallback.
LEMMA FieldsFound ==
  ASSUME NEW s, RecordsOK(s), NEW o, NEW k, NEW fallback
  PROVE  LET r == RecordAt(s, o, k, fallback) IN
         r = fallback \/ (o \in 0 .. Len(s) - 1 /\ r = s[o + 1] /\ RecordOK(r) /\ r.k = k)
  <1>1. Len(s) \in Nat /\ \A i \in 1 .. Len(s) : RecordOK(s[i])
    BY DEF RecordsOK, IsVector
  <1>2. ASSUME o \in 0 .. Len(s) - 1 PROVE RecordOK(s[o + 1])
    <2>1. o + 1 \in 1 .. Len(s)
      BY <1>1, <1>2
    <2> QED
      BY <1>1, <2>1
  <1> QED
    BY <1>2 DEF RecordAt

\* Records with one more behind them are records.
LEMMA AppendRecords ==
  ASSUME NEW s, RecordsOK(s), NEW c, RecordOK(c)
  PROVE  RecordsOK(Append(s, c)) /\ Len(Append(s, c)) = Len(s) + 1
  <1>1. IsVector(s) /\ Len(s) \in Nat /\ \A i \in 1 .. Len(s) : RecordOK(s[i])
    BY DEF RecordsOK, IsVector
  <1>2. /\ IsVector(Append(s, c)) /\ Len(Append(s, c)) = Len(s) + 1
        /\ \A i \in 1 .. Len(s) : Append(s, c)[i] = s[i]
        /\ Append(s, c)[Len(s) + 1] = c
    BY <1>1, AppendVector
  <1>3. \A i \in 1 .. Len(s) + 1 : i \in 1 .. Len(s) \/ i = Len(s) + 1
    BY <1>1
  <1> QED
    BY <1>1, <1>2, <1>3 DEF RecordsOK

\* Records behind records are records.
LEMMA ConcatRecords ==
  ASSUME NEW s, RecordsOK(s), NEW t, RecordsOK(t)
  PROVE  RecordsOK(s \o t) /\ Len(s \o t) = Len(s) + Len(t)
  <1>1. /\ IsVector(s) /\ Len(s) \in Nat /\ \A i \in 1 .. Len(s) : RecordOK(s[i])
        /\ IsVector(t) /\ Len(t) \in Nat /\ \A i \in 1 .. Len(t) : RecordOK(t[i])
    BY DEF RecordsOK, IsVector
  <1>2. /\ IsVector(s \o t) /\ Len(s \o t) = Len(s) + Len(t)
        /\ \A i \in 1 .. Len(s \o t) :
             (s \o t)[i] = IF i <= Len(s) THEN s[i] ELSE t[i - Len(s)]
    BY <1>1, ConcatVector
  <1>3. \A i \in 1 .. Len(s) + Len(t) :
          IF i <= Len(s) THEN i \in 1 .. Len(s) ELSE i - Len(s) \in 1 .. Len(t)
    BY <1>1
  <1> QED
    BY <1>1, <1>2, <1>3 DEF RecordsOK

\* The empty sequence is records, and has none.
LEMMA NoRecords == RecordsOK(<< >>) /\ Len(<< >>) = 0 /\ IsVector(<< >>)
  <1>1. << >> \in Seq({}) /\ Len(<< >>) = 0
    OBVIOUS
  <1>2. IsVector(<< >>)
    BY <1>1, SeqIsVector, Zenon
  <1> QED
    BY <1>1, <1>2 DEF RecordsOK
-----------------------------------------------------------------------------
(***************************************************************************)
(* LZMA2: what is decoded of a stream is records                           *)
(***************************************************************************)
CoderOK(c) == "repetitions" \in DOMAIN c /\ \A i \in 1 .. 4 : c.repetitions[i] \in Nat
DecoderOK(d) ==
  /\ {"result", "out", "start", "needsReset", "needsProperties", "coder"} \subseteq DOMAIN d
  /\ RecordsOK(d.out)
  /\ d.start \in 0 .. Len(d.out)
  /\ CoderOK(d.coder)

\* A field of a record that is changed, and one that is not.
LEMMA Changed ==
  ASSUME NEW r, NEW f, f \in DOMAIN r, NEW v
  PROVE  LET n == [r EXCEPT ![f] = v] IN
         /\ DOMAIN n = DOMAIN r /\ n[f] = v
         /\ \A g \in DOMAIN r : g # f => n[g] = r[g]
  OBVIOUS

\* A result leaves the rest of the decoder as it is.
LEMMA FailedDecoder ==
  ASSUME NEW d, DecoderOK(d), NEW r
  PROVE  DecoderOK([d EXCEPT !.result = r])
  BY DEF DecoderOK

\* A coder that starts is a coder.
LEMMA FreshCoder ==
  ASSUME NEW properties
  PROVE  CoderOK(LzmaCoder(properties))
  BY DEF CoderOK, LzmaCoder

\* The four distances stay numbers.
LEMMA RepetitionsStay ==
  ASSUME NEW r, \A i \in 1 .. 4 : r[i] \in Nat,
         NEW o, OperationOK(o)
  PROVE  \A i \in 1 .. 4 : NextRepetitions(r, o)[i] \in Nat
  <1>1. CASE o.kind \in {"match", "end"}
    <2>1. NextRepetitions(r, o) = <<o.distance - 1, r[1], r[2], r[3]>>
      BY <1>1 DEF NextRepetitions
    <2>2. o.distance - 1 \in Nat
      BY <1>1 DEF OperationOK
    <2> QED
      BY <2>1, <2>2
  <1>2. CASE o.kind = "rep"
    <2> DEFINE w == o.which
               a == <<r[w]>>
               b == [i \in 1 .. 3 |-> r[IF i < w THEN i ELSE i + 1]]
    <2>1. NextRepetitions(r, o) = a \o b
      BY <1>2 DEF NextRepetitions
    <2>2. w \in 1 .. 4
      BY <1>2 DEF OperationOK
    <2>3. IsVector(a) /\ Len(a) = 1 /\ a[1] \in Nat
      <3>1. a \in Seq(Nat)
        BY <2>2
      <3> QED
        BY <2>2, <3>1, SeqIsVector, Zenon
    <2>4. IsVector(b) /\ Len(b) = 3
      <3>1. b = [i \in 1 .. 3 |-> b[i]] /\ 3 \in Nat
        OBVIOUS
      <3> HIDE DEF b
      <3> QED
        BY <3>1, FunctionIsVector, Zenon
    <2>5. \A i \in 1 .. 3 : b[i] \in Nat
      BY <2>2
    <2>6. \A i \in 1 .. 4 : (a \o b)[i] = IF i <= 1 THEN a[i] ELSE b[i - 1]
      <3> HIDE DEF a, b
      <3>1. /\ Len(a \o b) = Len(a) + Len(b)
            /\ \A i \in 1 .. Len(a \o b) :
                 (a \o b)[i] = IF i <= Len(a) THEN a[i] ELSE b[i - Len(a)]
        BY <2>3, <2>4, ConcatVector, Zenon
      <3> QED
        BY <2>3, <2>4, <3>1
    <2>7. \A i \in 1 .. 4 : i <= 1 => i = 1
      OBVIOUS
    <2>8. \A i \in 1 .. 4 : ~ (i <= 1) => i - 1 \in 1 .. 3
      OBVIOUS
    <2> HIDE DEF a, b
    <2> QED
      BY <2>1, <2>3, <2>5, <2>6, <2>7, <2>8, Zenon
  <1>3. CASE o.kind \in {"literal", "short"}
    BY <1>3 DEF NextRepetitions
  <1> QED
    BY <1>1, <1>2, <1>3 DEF OperationOK

\* A coder that codes an operation stays one.
LEMMA AdvancedCoder ==
  ASSUME NEW c, CoderOK(c), NEW coded, NEW o, OperationOK(o)
  PROVE  CoderOK(Advance(c, coded, o))
  <1> DEFINE n == Advance(c, coded, o)
  <1>1. DOMAIN n = DOMAIN c /\ n.repetitions = NextRepetitions(c.repetitions, o)
    BY DEF Advance, CoderOK
  <1> QED
    BY <1>1, RepetitionsStay DEF CoderOK

\* What is copied is part of the output.
LEMMA CopiedRecords ==
  ASSUME NEW out, RecordsOK(out), NEW distance \in Nat \ {0}, distance <= Len(out),
         NEW length \in Nat
  PROVE  /\ RecordsOK(CopyMatch(out, distance, length))
         /\ Len(CopyMatch(out, distance, length)) = Len(out) + length
  <1> DEFINE from(i) == Len(out) - distance + 1 + ((i - 1) % distance)
             copy == [i \in 1 .. length |-> out[from(i)]]
  <1>1. Len(out) \in Nat /\ \A i \in 1 .. Len(out) : RecordOK(out[i])
    BY DEF RecordsOK, IsVector
  <1>2. \A i \in 1 .. length : from(i) \in 1 .. Len(out)
    <2>1. \A i \in 1 .. length : (i - 1) % distance \in 0 .. distance - 1
      OBVIOUS
    <2> QED
      BY <1>1, <2>1
  <1>3. RecordsOK(copy) /\ Len(copy) = length
    <2>1. copy = [i \in 1 .. length |-> copy[i]]
      OBVIOUS
    <2>2. \A i \in 1 .. length : RecordOK(copy[i])
      BY <1>1, <1>2
    <2> HIDE DEF copy
    <2> QED
      BY <2>1, <2>2, FunctionIsVector DEF RecordsOK
  <1>4. CopyMatch(out, distance, length) = out \o copy
    BY DEF CopyMatch
  <1> HIDE DEF copy
  <1> QED
    BY <1>3, <1>4, ConcatRecords, Zenon

\* What is decoded of an operation's bits is an operation.
LEMMA DecodedOperation ==
  ASSUME NEW d, NEW o, OperationOK(o)
  PROVE  OperationOK(DecodeOperation(d, o))
  <1> DEFINE g == [o EXCEPT !.kind = "literal", !.byte = Garbled]
  <1>1. /\ DOMAIN g = DOMAIN o /\ g.kind = "literal" /\ g.byte = Garbled
        /\ \A f \in DOMAIN o : f \notin {"kind", "byte"} => g[f] = o[f]
    BY Zenon DEF OperationOK
  <1>2. g = [f \in DOMAIN g |-> g[f]]
    BY Zenon
  <1>3. "length" \in DOMAIN o => g.length = o.length
    BY <1>1
  <1> HIDE DEF g
  <1>4. OperationOK(g)
    <2>1. {"kind", "byte", "length"} \subseteq DOMAIN g /\ g.length \in Nat
      BY <1>1, <1>3 DEF OperationOK
    <2> QED
      BY <1>1, <1>2, <2>1, PlainRecords DEF OperationOK
  <1>5. DecodeOperation(d, o) \in {o, g}
    BY DEF DecodeOperation, g
  <1> QED
    BY <1>4, <1>5

\* A decoder whose output became longer.
LEMMA OneMore ==
  ASSUME NEW d, DecoderOK(d), NEW x, DOMAIN x = DOMAIN d,
         RecordsOK(x.out), NEW n \in Nat, Len(x.out) = Len(d.out) + n,
         x.start = d.start, CoderOK(x.coder)
  PROVE  DecoderOK(x)
  <1>1. Len(d.out) \in Nat /\ d.start \in 0 .. Len(d.out)
    BY DEF DecoderOK, RecordsOK, IsVector
  <1>2. x.start \in 0 .. Len(x.out)
    BY <1>1
  <1> QED
    BY <1>2 DEF DecoderOK

\* One operation.
LEMMA AppliedOperation ==
  ASSUME NEW d, DecoderOK(d), NEW target, NEW p, OperationOK(p)
  PROVE  DecoderOK(LzmaApply(d, target, p))
  <1> DEFINE c == Advance(d.coder, CodedAs(d.coder, DecoderContext(d.out, d.start), d.out, p), p)
             distance == OperationDistance(d.coder.repetitions, p)
             x == LzmaApply(d, target, p)
  <1> SUFFICES DecoderOK(x)
    OBVIOUS
  <1>1. CoderOK(c)
    BY AdvancedCoder DEF DecoderOK
  <1>2. RecordsOK(d.out) /\ Len(d.out) \in Nat /\ d.start \in 0 .. Len(d.out) /\ CoderOK(d.coder)
    BY DEF DecoderOK, RecordsOK, IsVector
  <1> HIDE DEF c
  <1>3. CASE p.kind = "literal"
    <2>1. x = [d EXCEPT !.coder = c, !.out = Append(@, p.byte)]
      BY <1>3 DEF LzmaApply, c
    <2>2. RecordsOK(Append(d.out, p.byte)) /\ Len(Append(d.out, p.byte)) = Len(d.out) + 1
      BY <1>2, AppendRecords DEF OperationOK
    <2>3. /\ DOMAIN x = DOMAIN d /\ x.out = Append(d.out, p.byte) /\ x.coder = c
          /\ x.start = d.start
      BY <2>1 DEF DecoderOK
    <2> HIDE DEF x
    <2> QED
      BY <1>1, <1>2, <2>2, <2>3, OneMore, 1 \in Nat, Zenon
  <1>4. CASE /\ p.kind # "literal" /\ p.kind # "end"
             /\ ~ (Len(d.out) + p.length > target) /\ ~ (distance > d.dictionary)
             /\ ~ (distance > Len(d.out) - d.start)
    <2>1. x = [d EXCEPT !.coder = c, !.out = CopyMatch(@, distance, p.length)]
      BY <1>4 DEF LzmaApply, c
    <2>2. distance \in Nat \ {0}
      <3>1. p.kind = "match" => distance = p.distance /\ p.distance \in Nat \ {0}
        BY DEF OperationDistance, OperationOK
      <3>2. p.kind = "short" => distance = d.coder.repetitions[1] + 1
        BY DEF OperationDistance
      <3>3. p.kind = "rep" => /\ distance = d.coder.repetitions[p.which] + 1
                              /\ p.which \in 1 .. 4
        BY DEF OperationDistance, OperationOK
      <3>4. p.kind \in {"match", "short", "rep"}
        BY <1>4 DEF OperationOK
      <3>5. \A i \in 1 .. 4 : d.coder.repetitions[i] + 1 \in Nat \ {0}
        BY <1>2, SMTT(40) DEF CoderOK
      <3> QED
        BY <3>1, <3>2, <3>3, <3>4, <3>5
    <2>3. distance <= Len(d.out) /\ p.length \in Nat
      BY <1>2, <1>4, <2>2 DEF OperationOK
    <2> HIDE DEF distance
    <2>4. /\ RecordsOK(CopyMatch(d.out, distance, p.length))
          /\ Len(CopyMatch(d.out, distance, p.length)) = Len(d.out) + p.length
      BY <1>2, <2>2, <2>3, CopiedRecords, Zenon
    <2>5. /\ DOMAIN x = DOMAIN d /\ x.out = CopyMatch(d.out, distance, p.length) /\ x.coder = c
          /\ x.start = d.start
      BY <2>1 DEF DecoderOK
    <2> HIDE DEF x
    <2> QED
      BY <1>1, <1>2, <2>3, <2>4, <2>5, OneMore, Zenon
  <1>5. CASE /\ p.kind # "literal"
             /\ \/ p.kind = "end" \/ Len(d.out) + p.length > target \/ distance > d.dictionary
                \/ distance > Len(d.out) - d.start
    <2>1. x = [d EXCEPT !.result = "format"]
      BY <1>5 DEF LzmaApply
    <2> QED
      BY <2>1, FailedDecoder
  <1> QED
    BY <1>3, <1>4, <1>5

\* One operation keeps the decoder.
LEMMA DecodedStep ==
  ASSUME NEW d, DecoderOK(d), NEW target, NEW o, OperationOK(o)
  PROVE  DecoderOK(LzmaStep(d, target, o))
  BY DecodedOperation, AppliedOperation DEF LzmaStep
-----------------------------------------------------------------------------
\* The chunks of an LZMA2 stream, one after the other.
ChunksOutcome(base, s, chunks, cells, expected, maximum) ==
  FoldLeft(LAMBDA x, i : Lzma2Step(x, chunks[i], i = Len(chunks) /\ Len(cells) = 1,
                                         expected, maximum), base, s)
IsChunksFold(g, base, s, chunks, cells, expected, maximum, m) ==
  g = [t \in SUBSET (1 .. m) |->
         IF t = {} THEN base ELSE Lzma2Step(g[t \ {Max(t)}], chunks[s[Max(t)]], s[Max(t)] = Len(chunks) /\ Len(cells) = 1, expected, maximum)]

ChunksRow(h, base, s, chunks, cells, expected, maximum) ==
  /\ h[0] = base
  /\ \A i \in 1 .. Len(s) : h[i] = Lzma2Step(h[i - 1], chunks[s[i]], s[i] = Len(chunks) /\ Len(cells) = 1, expected, maximum)
  /\ ChunksOutcome(base, s, chunks, cells, expected, maximum) = h[Len(s)]

\* The fold over the chunks of an LZMA2 stream is the end of such a row.
LEMMA ChunksFold ==
  ASSUME NEW base, NEW s, IsVector(s), NEW chunks, NEW cells, NEW expected, NEW maximum
  PROVE  \E h : ChunksRow(h, base, s, chunks, cells, expected, maximum)
  <1> DEFINE n == Len(s)
             G(g, m) == IsChunksFold(g, base, s, chunks, cells, expected, maximum, m)
             c == CHOOSE g : G(g, n)
  <1>1. n \in Nat /\ DOMAIN s = 1 .. n
    BY VectorIsSeq
  <1>2. ChunksOutcome(base, s, chunks, cells, expected, maximum) = c[1 .. n]
    BY <1>1 DEF ChunksOutcome, FoldLeft, MapThenFoldSet, IsChunksFold
  <1> HIDE DEF n
  <1> DEFINE N == {m \in Nat : \E g : G(g, m)}
  <1>3. 0 \in N
    <2> DEFINE g == [t \in SUBSET (1 .. 0) |-> base]
    <2>1. SUBSET (1 .. 0) = {{}}
      OBVIOUS
    <2>2. \A t \in SUBSET (1 .. 0) : t = {}
      BY <2>1
    <2>3. G(g, 0)
      BY <2>2 DEF IsChunksFold
    <2> QED
      BY <2>3
  <1>4. ASSUME NEW m \in Nat, m \in N PROVE m + 1 \in N
    <2>1. PICK g : G(g, m)
      BY <1>4
    <2> DEFINE g1 == [t \in SUBSET (1 .. m + 1) |->
                        IF m + 1 \in t THEN Lzma2Step(g[t \ {m + 1}], chunks[s[m + 1]], s[m + 1] = Len(chunks) /\ Len(cells) = 1, expected, maximum) ELSE g[t]]
               T(f, t) == IF t = {} THEN base ELSE Lzma2Step(f[t \ {Max(t)}], chunks[s[Max(t)]], s[Max(t)] = Len(chunks) /\ Len(cells) = 1, expected, maximum)
    <2>2. \A t \in SUBSET (1 .. m) : g[t] = T(g, t)
      BY <2>1, Zenon DEF IsChunksFold
    <2>3. \A t \in SUBSET (1 .. m + 1) :
            /\ m + 1 \notin t => t \in SUBSET (1 .. m)
            /\ t \ {m + 1} \in SUBSET (1 .. m)
      OBVIOUS
    <2>4. ASSUME NEW t \in SUBSET (1 .. m + 1) PROVE g1[t] = T(g1, t)
      <3>1. CASE m + 1 \in t
        <4>1. Max(t) = m + 1
          <5>1. t # {} /\ m + 1 \in Nat
            BY <3>1
          <5>2. Max(t) \in t /\ \A y \in t : y <= Max(t)
            BY <5>1, LastOf, Zenon
          <5>3. Max(t) \in 1 .. m + 1 /\ m + 1 <= Max(t)
            BY <3>1, <5>2, Zenon
          <5> QED
            BY <5>3
        <4>2. t # {}
          BY <3>1
        <4>3. t \ {m + 1} \in SUBSET (1 .. m + 1) /\ m + 1 \notin t \ {m + 1}
          OBVIOUS
        <4>4. g1[t \ {m + 1}] = g[t \ {m + 1}]
          BY <4>3
        <4>5. g1[t] = Lzma2Step(g[t \ {m + 1}], chunks[s[m + 1]], s[m + 1] = Len(chunks) /\ Len(cells) = 1, expected, maximum)
          BY <3>1
        <4> HIDE DEF g1
        <4> QED
          BY <4>1, <4>2, <4>4, <4>5
      <3>2. CASE m + 1 \notin t
        <4>1. t \in SUBSET (1 .. m) /\ g1[t] = g[t]
          BY <2>3, <3>2
        <4>2. CASE t = {}
          BY <2>2, <4>1, <4>2, Zenon
        <4>3. CASE t # {}
          <5>1. /\ t \ {Max(t)} \in SUBSET (1 .. m + 1)
                /\ m + 1 \notin t \ {Max(t)}
            BY <3>2, Zenon
          <5>2. g1[t \ {Max(t)}] = g[t \ {Max(t)}]
            BY <5>1
          <5> HIDE DEF g1
          <5> QED
            BY <2>2, <4>1, <4>3, <5>2, Zenon
        <4> QED
          BY <4>2, <4>3
      <3> QED
        BY <3>1, <3>2
    <2>5. g1 = [t \in SUBSET (1 .. m + 1) |-> g1[t]]
      OBVIOUS
    <2> HIDE DEF g1
    <2>6. g1 = [t \in SUBSET (1 .. m + 1) |-> T(g1, t)]
      BY <2>4, <2>5, Zenon
    <2>7. G(g1, m + 1)
      BY <2>6, Zenon DEF IsChunksFold
    <2> QED
      BY <2>7
  <1>5. n \in N
    <2> HIDE DEF N
    <2> QED
      BY <1>1, <1>3, <1>4, SetInduction
  <1>6. G(c, n)
    BY <1>5
  <1> HIDE DEF c
  <1>7. \A t \in SUBSET (1 .. n) :
          c[t] = IF t = {} THEN base ELSE Lzma2Step(c[t \ {Max(t)}], chunks[s[Max(t)]], s[Max(t)] = Len(chunks) /\ Len(cells) = 1, expected, maximum)
    BY <1>6, Zenon DEF IsChunksFold
  <1> DEFINE h == [i \in 0 .. n |-> c[1 .. i]]
  <1>8. h[0] = base
    <2>1. 1 .. 0 = {} /\ {} \in SUBSET (1 .. n) /\ h[0] = c[1 .. 0]
      BY <1>1
    <2> QED
      BY <1>7, <2>1, Zenon
  <1>9. ASSUME NEW i \in 1 .. n
        PROVE  h[i] = Lzma2Step(h[i - 1], chunks[s[i]], s[i] = Len(chunks) /\ Len(cells) = 1,
                                expected, maximum)
    <2>1. i \in Nat \ {0} /\ 1 .. i \in SUBSET (1 .. n) /\ 1 .. i # {}
      BY <1>1
    <2>2. Max(1 .. i) = i /\ (1 .. i) \ {i} = 1 .. i - 1
      BY <2>1, LastOfRow
    <2>3. h[i] = c[1 .. i] /\ h[i - 1] = c[1 .. i - 1]
      BY <1>1
    <2>4. PICK k : k = Max(1 .. i)
      OBVIOUS
    <2>5. c[1 .. i] = Lzma2Step(c[(1 .. i) \ {k}], chunks[s[k]],
                                s[k] = Len(chunks) /\ Len(cells) = 1, expected, maximum)
      BY <1>7, <2>1, <2>4, Zenon
    <2>6. k = i
      BY <2>2, <2>4
    <2> QED
      BY <2>2, <2>3, <2>5, <2>6, Zenon
  <1>10. h[n] = c[1 .. n]
    BY <1>1
  <1> HIDE DEF h
  <1> QED
    BY <1>2, <1>8, <1>9, <1>10 DEF n, ChunksRow

\* The tokens of method 4, one after the other.
TokensOutcome(base, s, size) ==
  FoldLeft(LAMBDA state, token : ArjExpand(token, state, size), base, s)
IsTokensFold(g, base, s, size, m) ==
  g = [t \in SUBSET (1 .. m) |->
         IF t = {} THEN base ELSE ArjExpand(s[Max(t)], g[t \ {Max(t)}], size)]

TokensRow(h, base, s, size) ==
  /\ h[0] = base
  /\ \A i \in 1 .. Len(s) : h[i] = ArjExpand(s[i], h[i - 1], size)
  /\ TokensOutcome(base, s, size) = h[Len(s)]

\* The fold over the tokens of an ARJ method 4 stream is the end of such a row.
LEMMA TokensFold ==
  ASSUME NEW base, NEW s, IsVector(s), NEW size
  PROVE  \E h : TokensRow(h, base, s, size)
  <1> DEFINE n == Len(s)
             G(g, m) == IsTokensFold(g, base, s, size, m)
             c == CHOOSE g : G(g, n)
  <1>1. n \in Nat /\ DOMAIN s = 1 .. n
    BY VectorIsSeq
  <1>2. TokensOutcome(base, s, size) = c[1 .. n]
    BY <1>1 DEF TokensOutcome, FoldLeft, MapThenFoldSet, IsTokensFold
  <1> HIDE DEF n
  <1> DEFINE N == {m \in Nat : \E g : G(g, m)}
  <1>3. 0 \in N
    <2> DEFINE g == [t \in SUBSET (1 .. 0) |-> base]
    <2>1. SUBSET (1 .. 0) = {{}}
      OBVIOUS
    <2>2. \A t \in SUBSET (1 .. 0) : t = {}
      BY <2>1
    <2>3. G(g, 0)
      BY <2>2 DEF IsTokensFold
    <2> QED
      BY <2>3
  <1>4. ASSUME NEW m \in Nat, m \in N PROVE m + 1 \in N
    <2>1. PICK g : G(g, m)
      BY <1>4
    <2> DEFINE g1 == [t \in SUBSET (1 .. m + 1) |->
                        IF m + 1 \in t THEN ArjExpand(s[m + 1], g[t \ {m + 1}], size) ELSE g[t]]
               T(f, t) == IF t = {} THEN base ELSE ArjExpand(s[Max(t)], f[t \ {Max(t)}], size)
    <2>2. \A t \in SUBSET (1 .. m) : g[t] = T(g, t)
      BY <2>1, Zenon DEF IsTokensFold
    <2>3. \A t \in SUBSET (1 .. m + 1) :
            /\ m + 1 \notin t => t \in SUBSET (1 .. m)
            /\ t \ {m + 1} \in SUBSET (1 .. m)
      OBVIOUS
    <2>4. ASSUME NEW t \in SUBSET (1 .. m + 1) PROVE g1[t] = T(g1, t)
      <3>1. CASE m + 1 \in t
        <4>1. Max(t) = m + 1
          <5>1. t # {} /\ m + 1 \in Nat
            BY <3>1
          <5>2. Max(t) \in t /\ \A y \in t : y <= Max(t)
            BY <5>1, LastOf, Zenon
          <5>3. Max(t) \in 1 .. m + 1 /\ m + 1 <= Max(t)
            BY <3>1, <5>2, Zenon
          <5> QED
            BY <5>3
        <4>2. t # {}
          BY <3>1
        <4>3. t \ {m + 1} \in SUBSET (1 .. m + 1) /\ m + 1 \notin t \ {m + 1}
          OBVIOUS
        <4>4. g1[t \ {m + 1}] = g[t \ {m + 1}]
          BY <4>3
        <4>5. g1[t] = ArjExpand(s[m + 1], g[t \ {m + 1}], size)
          BY <3>1
        <4> HIDE DEF g1
        <4> QED
          BY <4>1, <4>2, <4>4, <4>5, Zenon
      <3>2. CASE m + 1 \notin t
        <4>1. t \in SUBSET (1 .. m) /\ g1[t] = g[t]
          BY <2>3, <3>2
        <4>2. CASE t = {}
          BY <2>2, <4>1, <4>2
        <4>3. CASE t # {}
          <5>1. /\ t \ {Max(t)} \in SUBSET (1 .. m + 1)
                /\ m + 1 \notin t \ {Max(t)}
            BY <3>2, Zenon
          <5>2. g1[t \ {Max(t)}] = g[t \ {Max(t)}]
            BY <5>1
          <5> HIDE DEF g1
          <5> QED
            BY <2>2, <4>1, <4>3, <5>2
        <4> QED
          BY <4>2, <4>3
      <3> QED
        BY <3>1, <3>2
    <2>5. g1 = [t \in SUBSET (1 .. m + 1) |-> g1[t]]
      OBVIOUS
    <2> HIDE DEF g1
    <2>6. g1 = [t \in SUBSET (1 .. m + 1) |-> T(g1, t)]
      BY <2>4, <2>5, Zenon
    <2>7. G(g1, m + 1)
      BY <2>6, Zenon DEF IsTokensFold
    <2> QED
      BY <2>7
  <1>5. n \in N
    <2> HIDE DEF N
    <2> QED
      BY <1>1, <1>3, <1>4, SetInduction
  <1>6. G(c, n)
    BY <1>5
  <1> HIDE DEF c
  <1>7. \A t \in SUBSET (1 .. n) :
          c[t] = IF t = {} THEN base ELSE ArjExpand(s[Max(t)], c[t \ {Max(t)}], size)
    BY <1>6, Zenon DEF IsTokensFold
  <1> DEFINE h == [i \in 0 .. n |-> c[1 .. i]]
  <1>8. h[0] = base
    <2>1. 1 .. 0 = {} /\ {} \in SUBSET (1 .. n) /\ h[0] = c[1 .. 0]
      BY <1>1
    <2> QED
      BY <1>7, <2>1, Zenon
  <1>9. ASSUME NEW i \in 1 .. n PROVE h[i] = ArjExpand(s[i], h[i - 1], size)
    <2>1. i \in Nat \ {0} /\ 1 .. i \in SUBSET (1 .. n) /\ 1 .. i # {}
      BY <1>1
    <2>2. Max(1 .. i) = i /\ (1 .. i) \ {i} = 1 .. i - 1
      BY <2>1, LastOfRow
    <2>3. h[i] = c[1 .. i] /\ h[i - 1] = c[1 .. i - 1]
      BY <1>1
    <2> QED
      BY <1>7, <2>1, <2>2, <2>3, Zenon
  <1>10. h[n] = c[1 .. n]
    BY <1>1
  <1> HIDE DEF h
  <1> QED
    BY <1>2, <1>8, <1>9, <1>10 DEF n, TokensRow
-----------------------------------------------------------------------------
\* The operations of a chunk.
LEMMA DecodedOperations ==
  ASSUME NEW d, DecoderOK(d), NEW s, IsVector(s), \A i \in 1 .. Len(s) : OperationOK(s[i]),
         NEW target
  PROVE  DecoderOK(OperationsOutcome(d, s, target))
  <1> DEFINE n == Len(s)
  <1>1. n \in Nat
    BY DEF IsVector
  <1>0. PICK h : OperationsRow(h, d, s, target)
    BY OperationsFold, Zenon
  <1>2. /\ h[0] = d
        /\ \A i \in 1 .. Len(s) : h[i] = LzmaStep(h[i - 1], target, s[i])
        /\ OperationsOutcome(d, s, target) = h[Len(s)]
    BY <1>0 DEF OperationsRow
  <1> DEFINE N == {m \in Nat : m <= n => DecoderOK(h[m])}
  <1> HIDE DEF n
  <1>3. 0 \in N
    BY <1>2
  <1>4. ASSUME NEW m \in Nat, m \in N PROVE m + 1 \in N
    <2> SUFFICES ASSUME m + 1 <= n PROVE DecoderOK(h[m + 1])
      OBVIOUS
    <2>1. m + 1 \in 1 .. n /\ m <= n /\ (m + 1) - 1 = m
      BY <1>1
    <2>2. h[m + 1] = LzmaStep(h[m], target, s[m + 1]) /\ OperationOK(s[m + 1])
      BY <1>2, <2>1 DEF n
    <2>3. DecoderOK(h[m])
      BY <1>4, <2>1
    <2> QED
      BY <2>2, <2>3, DecodedStep
  <1>5. n \in N
    <2> HIDE DEF N
    <2> QED
      BY <1>1, <1>3, <1>4, SetInduction
  <1> QED
    BY <1>1, <1>2, <1>5 DEF n

\* The operations of a chunk keep the decoder.
LEMMA DecodedStream ==
  ASSUME NEW d, DecoderOK(d), NEW chunk, ChunkOK(chunk), NEW maximum
  PROVE  DecoderOK(DecodeStream(d, chunk, maximum))
  <1> DEFINE target == Len(d.out) + chunk.size
             f == OperationsOutcome(d, chunk.operations, target)
  <1>1. DecoderOK(f)
    <2>1. /\ IsVector(chunk.operations)
          /\ \A i \in 1 .. Len(chunk.operations) : OperationOK(chunk.operations[i])
      BY VectorIsSeq DEF ChunkOK
    <2> HIDE DEF target
    <2> QED
      BY <2>1, DecodedOperations
  <1> HIDE DEF f
  <1>2. DecoderOK(Ended(f, target))
    BY <1>1, FailedDecoder, Zenon DEF Ended
  <1>3. DecodeStream(d, chunk, maximum)
          = IF target > maximum THEN [d EXCEPT !.result = "limit"] ELSE Ended(f, target)
    BY DEF DecodeStream, f, OperationsOutcome, FoldLeft, MapThenFoldSet
  <1> QED
    BY <1>2, <1>3, FailedDecoder

\* A chunk keeps the decoder.
LEMMA DecodedChunk ==
  ASSUME NEW d, DecoderOK(d), NEW chunk, ChunkOK(chunk), NEW maximum
  PROVE  DecoderOK(DecodeChunk(d, chunk, maximum))
  <1>1. CASE chunk.control \in Compressed
    <2> DEFINE r == [d EXCEPT !.coder = ChunkCoder(d, chunk), !.needsProperties = FALSE]
    <2>1. CoderOK(ChunkCoder(d, chunk))
      BY <1>1, FreshCoder DEF ChunkCoder, DecoderOK, Compressed, NewProperties
    <2>2. /\ DOMAIN r = DOMAIN d /\ r.out = d.out /\ r.start = d.start
          /\ r.coder = ChunkCoder(d, chunk)
      BY DEF DecoderOK
    <2> HIDE DEF r
    <2>3. DecoderOK(r)
      BY <2>1, <2>2 DEF DecoderOK
    <2>4. DecodeChunk(d, chunk, maximum)
            \in {[d EXCEPT !.result = "format"], DecodeStream(r, chunk, maximum)}
      BY <1>1 DEF DecodeChunk, r
    <2> QED
      BY <2>3, <2>4, FailedDecoder, DecodedStream
  <1>2. CASE chunk.control \notin Compressed /\ chunk.control \in Uncompressed
    <2> DEFINE r == [d EXCEPT !.out = @ \o chunk.bytes]
    <2>1. RecordsOK(d.out \o chunk.bytes) /\ Len(d.out \o chunk.bytes) = Len(d.out) + Len(chunk.bytes)
          /\ Len(chunk.bytes) \in Nat
      BY ConcatRecords, Zenon DEF DecoderOK, ChunkOK, RecordsOK, IsVector
    <2>2. /\ DOMAIN r = DOMAIN d /\ r.out = d.out \o chunk.bytes /\ r.start = d.start
          /\ r.coder = d.coder
      BY DEF DecoderOK
    <2> HIDE DEF r
    <2>3. CoderOK(r.coder)
      BY <2>2 DEF DecoderOK
    <2>4. DecoderOK(r)
      BY <2>1, <2>2, <2>3, OneMore, Zenon
    <2>5. DecodeChunk(d, chunk, maximum) \in {[d EXCEPT !.result = "limit"], r}
      BY <1>2 DEF DecodeChunk, r
    <2> QED
      BY <2>4, <2>5, FailedDecoder
  <1>3. CASE chunk.control \notin Compressed /\ chunk.control \notin Uncompressed
    BY <1>3, FailedDecoder DEF DecodeChunk
  <1> QED
    BY <1>1, <1>2, <1>3

\* A chunk with the checks around it keeps the decoder.
LEMMA DecodedRound ==
  ASSUME NEW d, DecoderOK(d), NEW chunk, ChunkOK(chunk), NEW final \in BOOLEAN, NEW expected, NEW maximum
  PROVE  DecoderOK(Lzma2Step(d, chunk, final, expected, maximum))
  <1> DEFINE resets == chunk.control \in DictionaryResets
             s == [d EXCEPT !.start = Len(d.out), !.needsReset = FALSE, !.needsProperties = TRUE]
             r == IF resets THEN s ELSE d
             c == DecodeChunk(r, chunk, maximum)
  <1>1. DecoderOK(s)
    <2>1. /\ DOMAIN s = DOMAIN d /\ s.out = d.out /\ s.start = Len(d.out)
          /\ s.coder = d.coder
      BY DEF DecoderOK
    <2>2. Len(d.out) \in 0 .. Len(d.out)
      BY DEF DecoderOK, RecordsOK, IsVector
    <2> HIDE DEF s
    <2> QED
      BY <2>1, <2>2 DEF DecoderOK
  <1>2. DecoderOK(r)
    BY <1>1
  <1> HIDE DEF r
  <1>3. DecoderOK(c)
    BY <1>2, DecodedChunk
  <1> HIDE DEF c
  <1>4. DecoderOK(Bounded(c, expected))
    BY <1>3, FailedDecoder DEF Bounded
  <1> DEFINE e == IF final /\ (expected = NoSize \/ Len(d.out) = expected) THEN "ok" ELSE "format"
  <1>5. Lzma2Step(d, chunk, final, expected, maximum)
          \in {d, [d EXCEPT !.result = e], [d EXCEPT !.result = "format"], Bounded(c, expected)}
    <2> HIDE DEF e
    <2> QED
      BY DEF Lzma2Step, c, r, e
  <1> HIDE DEF e
  <1> QED
    BY <1>4, <1>5, FailedDecoder
-----------------------------------------------------------------------------
\* The chunks of a stream.
LEMMA DecodedChunks ==
  ASSUME NEW base, DecoderOK(base),
         NEW chunks, IsVector(chunks), \A i \in 1 .. Len(chunks) : ChunkOK(chunks[i]),
         NEW cells, NEW expected, NEW maximum
  PROVE  DecoderOK(ChunksOutcome(base, [i \in DOMAIN chunks |-> i], chunks, cells, expected,
                                 maximum))
  <1> DEFINE n == Len(chunks)
             s == [i \in DOMAIN chunks |-> i]
  <1>1. n \in Nat /\ DOMAIN chunks = 1 .. n
    BY VectorIsSeq
  <1>2. IsVector(s) /\ Len(s) = n /\ \A i \in 1 .. n : s[i] = i
    <2>1. s = [i \in 1 .. n |-> s[i]] /\ \A i \in 1 .. n : s[i] = i
      BY <1>1
    <2> HIDE DEF s, n
    <2> QED
      BY <1>1, <2>1, FunctionIsVector
  <1> HIDE DEF s
  <1>3. PICK h : ChunksRow(h, base, s, chunks, cells, expected, maximum)
    BY <1>2, ChunksFold, Zenon
  <1>4. /\ h[0] = base
        /\ \A i \in 1 .. n : h[i] = Lzma2Step(h[i - 1], chunks[s[i]],
                                s[i] = Len(chunks) /\ Len(cells) = 1, expected, maximum)
        /\ ChunksOutcome(base, s, chunks, cells, expected, maximum) = h[n]
    BY <1>2, <1>3 DEF ChunksRow
  <1> DEFINE N == {m \in Nat : m <= n => DecoderOK(h[m])}
  <1> HIDE DEF n
  <1>5. 0 \in N
    BY <1>4
  <1>6. ASSUME NEW m \in Nat, m \in N PROVE m + 1 \in N
    <2> SUFFICES ASSUME m + 1 <= n PROVE DecoderOK(h[m + 1])
      OBVIOUS
    <2>1. m + 1 \in 1 .. n /\ m <= n /\ (m + 1) - 1 = m
      BY <1>1
    <2>2. PICK final \in BOOLEAN : final = (s[m + 1] = Len(chunks) /\ Len(cells) = 1)
      BY Zenon
    <2>3. h[m + 1] = Lzma2Step(h[(m + 1) - 1], chunks[s[m + 1]],
                      s[m + 1] = Len(chunks) /\ Len(cells) = 1, expected, maximum)
      BY <1>4, <2>1, Zenon
    <2>4. h[m + 1] = Lzma2Step(h[m], chunks[s[m + 1]], final, expected, maximum)
      BY <2>1, <2>2, <2>3
    <2>5. DecoderOK(h[m])
      BY <1>6, <2>1
    <2>6. ChunkOK(chunks[s[m + 1]])
      BY <1>2, <2>1 DEF n
    <2> QED
      BY <2>4, <2>5, <2>6, DecodedRound
  <1>7. n \in N
    <2> HIDE DEF N
    <2> QED
      BY <1>1, <1>5, <1>6, SetInduction
  <1> QED
    BY <1>1, <1>4, <1>7 DEF s

\* An LZMA2 stream.
LEMMA DecodedLzma2 ==
  ASSUME NEW cells, CellsOK(cells), NEW dictionary, NEW expected, NEW maximum
  PROVE  RecordsOK(DecodeLzma2(cells, dictionary, expected, maximum).out)
  <1> DEFINE chunks == RecordAt(cells, 0, "lzma2", NoLzma2).chunks
             first == [result |-> IF expected > maximum THEN "limit" ELSE "none",
                       out |-> << >>, start |-> 0, dictionary |-> dictionary,
                       needsReset |-> TRUE, needsProperties |-> TRUE,
                       coder |-> LzmaCoder([lp |-> 0, pb |-> 0, valid |-> FALSE])]
             f == ChunksOutcome(first, [i \in DOMAIN chunks |-> i], chunks, cells, expected,
                                maximum)
  <1>1. IsVector(chunks) /\ \A i \in 1 .. Len(chunks) : ChunkOK(chunks[i])
    <2> DEFINE r == RecordAt(cells, 0, "lzma2", NoLzma2)
    <2>1. r = NoLzma2 \/ (CellOK(r) /\ r.k = "lzma2")
      BY RecordFound
    <2>2. NoLzma2.chunks = << >>
      BY DEF NoLzma2, Lzma2
    <2>3. CASE r = NoLzma2
      BY <2>2, <2>3, NoRecords
    <2>4. CASE CellOK(r) /\ r.k = "lzma2"
      <3>1. IsVector(r.chunks) /\ \A i \in DOMAIN r.chunks : ChunkOK(r.chunks[i])
        BY <2>4 DEF CellOK
      <3> HIDE DEF r
      <3>2. DOMAIN r.chunks = 1 .. Len(r.chunks)
        BY <3>1, VectorIsSeq
      <3> QED
        BY <3>1, <3>2 DEF r
    <2> QED
      BY <2>1, <2>3, <2>4
  <1>2. DecoderOK(first)
    <2>1. CoderOK(first.coder)
      BY FreshCoder
    <2>2. first.out = << >> /\ first.start = 0
      OBVIOUS
    <2>3. {"result", "out", "start", "needsReset", "needsProperties", "coder"} \subseteq DOMAIN first
      OBVIOUS
    <2> HIDE DEF first
    <2> QED
      BY <2>1, <2>2, <2>3, NoRecords DEF DecoderOK
  <1> HIDE DEF first, chunks
  <1>3. DecoderOK(f)
    BY <1>1, <1>2, DecodedChunks
  <1>4. DecodeLzma2(cells, dictionary, expected, maximum) = WithoutEnd(f)
    BY DEF DecodeLzma2, ChunksOutcome, FoldLeft, MapThenFoldSet, first, chunks
  <1> HIDE DEF f
  <1>5. DecoderOK(WithoutEnd(f))
    BY <1>3, FailedDecoder DEF WithoutEnd
  <1> QED
    BY <1>4, <1>5 DEF DecoderOK

\* The output of method 4.
LEMMA DecodedTokens ==
  ASSUME NEW s, IsVector(s), \A i \in 1 .. Len(s) : s[i].length \in Nat, NEW size
  PROVE  IsVector(TokensOutcome([out |-> << >>, good |-> TRUE], s, size).out)
  <1> DEFINE n == Len(s)
             base == [out |-> << >>, good |-> TRUE]
             Good(x) == {"out", "good"} \subseteq DOMAIN x /\ IsVector(x.out)
  <1>1. n \in Nat
    BY DEF IsVector
  <1>2. PICK h : TokensRow(h, base, s, size)
    BY TokensFold, Zenon
  <1>3. /\ h[0] = base
        /\ \A i \in 1 .. n : h[i] = ArjExpand(s[i], h[i - 1], size)
        /\ TokensOutcome(base, s, size) = h[n]
    BY <1>2 DEF TokensRow
  <1>4. ASSUME NEW x, Good(x), NEW t, t.length \in Nat
        PROVE  Good(ArjExpand(t, x, size))
    <2> DEFINE m == [i \in 1 .. t.length |->
                       x.out[Len(x.out) - t.distance + 1 + ((i - 1) % t.distance)]]
               y == ArjExpand(t, x, size)
    <2>1. \A v : LET r == [x EXCEPT !.out = v] IN DOMAIN r = DOMAIN x /\ r.out = v
      BY <1>4
    <2>2. IsVector(Append(x.out, Byte(t.v)))
      BY <1>4, AppendVector
    <2>3. IsVector(m)
      <3>1. m = [i \in 1 .. t.length |-> m[i]]
        OBVIOUS
      <3> HIDE DEF m
      <3> QED
        BY <1>4, <3>1, FunctionIsVector
    <2> HIDE DEF m
    <2>4. IsVector(x.out \o m)
      BY <1>4, <2>3, ConcatVector
    <2>5. LET r == [x EXCEPT !.good = FALSE] IN DOMAIN r = DOMAIN x /\ r.out = x.out
      BY <1>4
    <2>6. y \in {x, [x EXCEPT !.out = Append(x.out, Byte(t.v))], [x EXCEPT !.good = FALSE],
                 [x EXCEPT !.out = x.out \o m]}
      BY DEF ArjExpand, m
    <2> HIDE DEF y
    <2> SUFFICES Good(y)
      BY DEF y
    <2> QED
      BY <1>4, <2>1, <2>2, <2>4, <2>5, <2>6, Zenon
  <1> DEFINE N == {m \in Nat : m <= n => Good(h[m])}
  <1> HIDE DEF n
  <1>5. 0 \in N
    BY <1>3, NoRecords
  <1>6. ASSUME NEW m \in Nat, m \in N PROVE m + 1 \in N
    <2> SUFFICES ASSUME m + 1 <= n PROVE Good(h[m + 1])
      OBVIOUS
    <2>1. m + 1 \in 1 .. n /\ m <= n /\ (m + 1) - 1 = m
      BY <1>1
    <2>2. h[m + 1] = ArjExpand(s[m + 1], h[m], size) /\ s[m + 1].length \in Nat
      BY <1>3, <2>1 DEF n
    <2>3. Good(h[m])
      BY <1>6, <2>1
    <2> HIDE DEF Good
    <2> QED
      BY <1>4, <2>2, <2>3
  <1>7. n \in N
    <2> HIDE DEF N
    <2> QED
      BY <1>1, <1>5, <1>6, SetInduction
  <1> QED
    BY <1>1, <1>3, <1>7

\* ARJ method 4 decodes to a sequence.
LEMMA FastestOutput ==
  ASSUME CellsOK(Cells), NEW e, e.start \in Nat, e.end \in Nat
  PROVE  IsVector(ArjFastest(e).out)
  <1> DEFINE data == Slice(Cells, e.start, e.end - e.start)
             c == RecordAt(data, 0, "tokens", ArjTokens(<< >>))
  <1>1. CellsOK(data)
    BY SliceCells
  <1>2. c = ArjTokens(<< >>) \/ (CellOK(c) /\ c.k = "tokens")
    <2> HIDE DEF data
    <2> QED
      BY <1>1, RecordFound
  <1> HIDE DEF data
  <1>3. IsVector(c.tokens) /\ \A i \in 1 .. Len(c.tokens) : c.tokens[i].length \in Nat
    <2>1. ArjTokens(<< >>).tokens = << >>
      BY DEF ArjTokens
    <2>2. CASE c = ArjTokens(<< >>)
      BY <2>1, <2>2, NoRecords
    <2>3. CASE CellOK(c) /\ c.k = "tokens"
      <3>1. IsVector(c.tokens) /\ \A i \in DOMAIN c.tokens : c.tokens[i].length \in Nat
        BY <2>3 DEF CellOK
      <3> HIDE DEF c
      <3>2. DOMAIN c.tokens = 1 .. Len(c.tokens)
        BY <3>1, VectorIsSeq
      <3> QED
        BY <3>1, <3>2
    <2> QED
      BY <1>2, <2>2, <2>3
  <1> HIDE DEF c
  <1>4. IsVector(TokensOutcome([out |-> << >>, good |-> TRUE], c.tokens, e.size).out)
    BY <1>3, DecodedTokens, Zenon
  <1>5. ArjFastest(e) = TokensOutcome([out |-> << >>, good |-> TRUE], c.tokens, e.size)
    BY DEF ArjFastest, TokensOutcome, FoldLeft, MapThenFoldSet, c, data
  <1> QED
    BY <1>4, <1>5
-----------------------------------------------------------------------------
(***************************************************************************)
(* XZ, gzip and the containers                                             *)
(***************************************************************************)
\* Padding is a number, and aligning never goes back.
LEMMA AlignedUp ==
  ASSUME NEW n \in Nat
  PROVE  /\ XzAlignUp(n) \in Nat
         /\ \A alignment \in Nat \ {0} : AlignUp(n, alignment) \in Nat /\ AlignUp(n, alignment) >= n
  <1>1. \A a \in Nat \ {0} : n % a \in 0 .. a - 1
    OBVIOUS
  <1>2. n % 2 \in 0 .. 1
    OBVIOUS
  <1> QED
    BY <1>1, <1>2 DEF XzAlignUp, XzAlign, AlignUp

\* Any sum of natural numbers is one.
LEMMA SumOfNaturals ==
  ASSUME NEW S, IsFiniteSet(S), NEW f, \A x \in S : f[x] \in Nat,
         NEW h, IsSum(h, f, S)
  PROVE  h[S] \in Nat
  <1>1. \A x \in S : f[x] \in Int
    OBVIOUS
  <1>2. \A s \in SUBSET S : h[s] \in Int /\ \A x \in s : h[s] = f[x] + h[s \ {x}]
    BY <1>1, SumAnyOrder
  <1> DEFINE F == {s \in SUBSET S : h[s] \in Nat}
  <1>3. {} \in F
    BY DEF IsSum
  <1>4. ASSUME NEW s \in SUBSET S, s \in F, NEW x \in S \ s PROVE s \cup {x} \in F
    <2>1. s \cup {x} \in SUBSET S /\ (s \cup {x}) \ {x} = s
      OBVIOUS
    <2>2. h[s \cup {x}] = f[x] + h[s]
      BY <1>2, <2>1
    <2> QED
      BY <1>4, <2>1, <2>2
  <1>5. S \in F
    <2> HIDE DEF F
    <2> QED
      BY <1>3, <1>4, SubsetInduction, Zenon
  <1> QED
    BY <1>5

\* Where the Block of a record begins.
IsBlockSum(h, records, m) ==
  h = [s \in SUBSET (1 .. m) |->
         IF s = {} THEN 0
         ELSE XzAlignUp(records[Chosen(s)][1]) + h[s \ {Chosen(s)}]]

\* A block of an XZ stream starts at a number.
LEMMA BlockStart ==
  ASSUME NEW records, NEW n \in Nat, \A i \in 1 .. n : records[i][1] \in Nat,
         NEW i \in 1 .. n
  PROVE  XzBlockStart(records, i) \in Nat
  <1> DEFINE m == i - 1
             S == 1 .. m
             f == [j \in S |-> XzAlignUp(records[j][1])]
             c == CHOOSE h : IsBlockSum(h, records, m)
  <1>1. XzBlockStart(records, i) = XzAlign + c[S]
    BY DEF XzBlockStart, MapThenSumSet, MapThenFoldSet, IsBlockSum, Chosen
  <1>2. m \in Nat /\ S \subseteq 1 .. n /\ IsFiniteSet(S)
    <2>1. m \in Nat /\ S \subseteq 1 .. n
      OBVIOUS
    <2> QED
      BY <2>1, FS_Interval
  <1>3. \A j \in S : f[j] \in Nat
    BY <1>2, AlignedUp, Zenon
  <1>4. ASSUME NEW s \in SUBSET S, s # {}
        PROVE  f[Chosen(s)] = XzAlignUp(records[Chosen(s)][1])
    <2>1. Chosen(s) \in s
      BY <1>4 DEF Chosen
    <2> QED
      BY <2>1, Zenon
  <1> HIDE DEF f
  <1>5. ASSUME NEW h PROVE IsSum(h, f, S) <=> IsBlockSum(h, records, m)
    <2> DEFINE a(s) == IF s = {} THEN 0 ELSE f[Chosen(s)] + h[s \ {Chosen(s)}]
               b(s) == IF s = {} THEN 0
                       ELSE XzAlignUp(records[Chosen(s)][1]) + h[s \ {Chosen(s)}]
    <2>1. \A s \in SUBSET S : a(s) = b(s)
      BY <1>4
    <2>2. [s \in SUBSET S |-> a(s)] = [s \in SUBSET S |-> b(s)]
      <3> HIDE DEF a, b, S
      <3> QED
        BY <2>1
    <2> QED
      BY <2>2, Zenon DEF IsSum, IsBlockSum
  <1>6. \E h : IsSum(h, f, S)
    <2> HIDE DEF S
    <2> QED
      BY <1>2, SumExists
  <1>7. IsBlockSum(c, records, m)
    <2>1. \E h : IsBlockSum(h, records, m)
      BY <1>5, <1>6
    <2> QED
      BY <2>1
  <1> HIDE DEF c
  <1>8. IsSum(c, f, S)
    BY <1>5, <1>7
  <1> HIDE DEF S
  <1>9. c[S] \in Nat
    BY <1>2, <1>3, <1>8, SumOfNaturals, Zenon
  <1> QED
    BY <1>1, <1>9 DEF XzAlign

\* A filter of an XZ stream leaves records.
LEMMA FilteredRecords ==
  ASSUME NEW s, RecordsOK(s), NEW filters
  PROVE  RecordsOK(XzUnfiltered(filters, s))
  <1>1. ASSUME NEW t, RecordsOK(t), NEW id PROVE RecordsOK(XzUnfilter(id, t))
    <2> DEFINE u == XzUnfilter(id, t)
    <2>1. DOMAIN t = 1 .. Len(t) /\ Len(t) \in Nat /\ \A i \in 1 .. Len(t) : RecordOK(t[i])
      BY <1>1, VectorIsSeq DEF RecordsOK
    <2>2. u = [i \in 1 .. Len(t) |-> u[i]]
      BY <2>1 DEF XzUnfilter
    <2>3. \A i \in 1 .. Len(t) :
            u[i] = t[i] \/ \E v : u[i] = Byte(v)
      BY <2>1, Zenon DEF XzUnfilter
    <2>4. \A i \in 1 .. Len(t) : RecordOK(u[i])
      BY <2>1, <2>3, PlainRecords
    <2> HIDE DEF u
    <2>5. IsVector(u) /\ Len(u) = Len(t)
      BY <2>1, <2>2, FunctionIsVector
    <2> QED
      BY <2>4, <2>5 DEF RecordsOK, u
  <1> QED
    BY <1>1 DEF XzUnfiltered

\* The sequences of a row, one behind the other.
LEMMA FlatRecords ==
  ASSUME NEW s, IsVector(s), \A i \in 1 .. Len(s) : RecordsOK(s[i])
  PROVE  RecordsOK(FlattenSeq(s))
  <1> DEFINE n == Len(s)
             G(g, m) == g = [i \in 1 .. m |-> IF i = 1 THEN s[i] ELSE g[i - 1] \o s[i]]
             c == CHOOSE g : G(g, n)
  <1>1. n \in Nat
    BY DEF IsVector
  <1>2. CASE n = 0
    <2>1. FlattenSeq(s) = s
      BY <1>2 DEF FlattenSeq
    <2>2. \A i \in 1 .. Len(s) : FALSE
      BY <1>2
    <2> QED
      BY <2>1, <2>2 DEF RecordsOK
  <1>3. CASE n # 0
    <2>1. FlattenSeq(s) = c[n]
      BY <1>3 DEF FlattenSeq
    <2> DEFINE N == {m \in Nat : \E g : G(g, m)}
    <2> HIDE DEF n
    <2>2. 0 \in N
      <3> DEFINE g == [i \in 1 .. 0 |-> s[i]]
      <3>1. \A i \in 1 .. 0 : FALSE
        OBVIOUS
      <3>2. G(g, 0)
        BY <3>1
      <3> QED
        BY <3>2, Zenon
    <2>3. ASSUME NEW m \in Nat, m \in N PROVE m + 1 \in N
      <3>1. PICK g : G(g, m)
        BY <2>3, Zenon
      <3> DEFINE k == [i \in 1 .. m + 1 |->
                         IF i <= m THEN g[i] ELSE IF i = 1 THEN s[i] ELSE g[i - 1] \o s[i]]
                 T(f, i) == IF i = 1 THEN s[i] ELSE f[i - 1] \o s[i]
      <3>2. \A i \in 1 .. m : g[i] = T(g, i)
        BY <3>1, Zenon
      <3>3. \A i \in 1 .. m + 1 :
              /\ i <= m => k[i] = g[i] /\ i \in 1 .. m
              /\ ~ (i <= m) => k[i] = T(g, i)
              /\ i # 1 => i - 1 \in 1 .. m /\ k[i - 1] = g[i - 1]
        OBVIOUS
      <3>4. k = [i \in 1 .. m + 1 |-> k[i]]
        OBVIOUS
      <3> HIDE DEF k
      <3>5. \A i \in 1 .. m + 1 : k[i] = T(k, i)
        <4> TAKE i \in 1 .. m + 1
        <4>1. k[i] = T(g, i)
          BY <3>2, <3>3
        <4>2. CASE i = 1
          BY <4>1, <4>2
        <4>3. CASE i # 1
          BY <3>3, <4>1, <4>3, Zenon
        <4> QED
          BY <4>2, <4>3
      <3>6. G(k, m + 1)
        <4> HIDE DEF T
        <4>1. k = [i \in 1 .. m + 1 |-> T(k, i)]
          BY <3>4, <3>5
        <4> QED
          BY <4>1, Zenon DEF T
      <3>7. \E f : G(f, m + 1)
        <4> HIDE DEF G
        <4> QED
          BY <3>6
      <3> HIDE DEF G
      <3> QED
        BY <3>7
    <2>4. n \in N
      <3> HIDE DEF N
      <3> QED
        BY <1>1, <2>2, <2>3, SetInduction, SMTT(40)
    <2>5. G(c, n)
      BY <2>4, Zenon
    <2> HIDE DEF c
    <2> DEFINE M == {m \in Nat : m < n => RecordsOK(c[m + 1])}
    <2>6. 0 \in M
      <3>1. 1 \in 1 .. n /\ 0 + 1 = 1
        BY <1>1, <1>3
      <3>2. c[1] = s[1]
        BY <2>5, <3>1
      <3>3. RecordsOK(s[1])
        BY <3>1 DEF n
      <3> QED
        BY <3>1, <3>2, <3>3
    <2>7. ASSUME NEW m \in Nat, m \in M PROVE m + 1 \in M
      <3> SUFFICES ASSUME m + 1 < n PROVE RecordsOK(c[(m + 1) + 1])
        OBVIOUS
      <3>1. (m + 1) + 1 \in 1 .. n /\ (m + 1) + 1 # 1 /\ ((m + 1) + 1) - 1 = m + 1 /\ m < n
        BY <1>1
      <3>2. c[(m + 1) + 1] = c[m + 1] \o s[(m + 1) + 1]
        BY <2>5, <3>1, Zenon
      <3>3. RecordsOK(c[m + 1]) /\ RecordsOK(s[(m + 1) + 1])
        BY <2>7, <3>1 DEF n
      <3> QED
        BY <3>2, <3>3, ConcatRecords
    <2>8. n - 1 \in M /\ n - 1 \in Nat
      <3>1. n - 1 \in Nat
        BY <1>1, <1>3
      <3> HIDE DEF M
      <3> QED
        BY <2>6, <2>7, <3>1, SetInduction
    <2>9. n - 1 < n /\ (n - 1) + 1 = n
      BY <1>1
    <2> QED
      BY <2>1, <2>8, <2>9
  <1> QED
    BY <1>2, <1>3
-----------------------------------------------------------------------------
\* The Index of an XZ stream has numbers for sizes.
LEMMA IndexRecords ==
  ASSUME NEW cells, CellsOK(cells)
  PROVE  LET records == XzIndexOf(cells).records IN
         /\ IsVector(records) /\ Len(records) \in Nat /\ DOMAIN records = 1 .. Len(records)
         /\ \A i \in 1 .. Len(records) : records[i][1] \in Nat
  <1> DEFINE r == XzIndexOf(cells)
  <1>1. r = XzNoIndex \/ (CellOK(r) /\ r.k = "xzindex")
    BY RecordFound DEF XzIndexOf
  <1>2. XzNoIndex.records = << >>
    BY DEF XzNoIndex, XzIndex
  <1> HIDE DEF r
  <1>3. IsVector(r.records) /\ \A i \in 1 .. Len(r.records) : r.records[i][1] \in Nat
    <2>1. CASE r = XzNoIndex
      BY <1>2, <2>1, NoRecords
    <2>2. CASE CellOK(r) /\ r.k = "xzindex"
      <3>1. IsVector(r.records) /\ \A i \in DOMAIN r.records : r.records[i][1] \in Nat
        BY <2>2 DEF CellOK
      <3>2. DOMAIN r.records = 1 .. Len(r.records)
        BY <3>1, VectorIsSeq
      <3> QED
        BY <3>1, <3>2
    <2> QED
      BY <1>1, <2>1, <2>2
  <1>4. Len(r.records) \in Nat /\ DOMAIN r.records = 1 .. Len(r.records)
    BY <1>3, VectorIsSeq
  <1> QED
    BY <1>3, <1>4 DEF r

\* A block of an XZ stream decodes to records.
LEMMA BlockRecords ==
  ASSUME NEW cells, CellsOK(cells), NEW i \in 1 .. Len(XzIndexOf(cells).records)
  PROVE  RecordsOK(XzBlockOutput(cells, i))
  <1> DEFINE records == XzIndexOf(cells).records
             check == RecordAt(cells, 0, "xzhead", XzNoHeader).check
             start == XzBlockStart(records, i)
             b == RecordAt(cells, start, "xzblock", XzNoBlock)
             csize == records[i][1] - b.size - XzSizeOf(check)
  <1>1. /\ IsVector(records) /\ Len(records) \in Nat
        /\ \A j \in 1 .. Len(records) : records[j][1] \in Nat
    BY IndexRecords
  <1> HIDE DEF records
  <1>2. i \in 1 .. Len(records)
    BY DEF records
  <1>3. start \in Nat
    BY <1>1, <1>2, BlockStart, Zenon
  <1> HIDE DEF start
  <1>4. b.size \in Nat
    <2>1. b = XzNoBlock \/ (CellOK(b) /\ b.k = "xzblock")
      BY RecordFound
    <2>2. XzNoBlock.size = 2
      BY DEF XzNoBlock, XzBlock, XzAlign
    <2> HIDE DEF b
    <2>3. CASE CellOK(b) /\ b.k = "xzblock"
      BY <2>3 DEF CellOK, RecordOK, Unsigned
    <2> QED
      BY <2>1, <2>2, <2>3
  <1> HIDE DEF b, check
  <1>5. XzSizeOf(check) \in Nat
    BY DEF XzSizeOf, XzCheckSize, XzAlign
  <1>6. start + b.size \in Nat /\ csize \in Int
    BY <1>1, <1>2, <1>3, <1>4, <1>5
  <1> HIDE DEF csize
  <1> DEFINE data == Slice(cells, start + b.size, csize)
  <1>7. CellsOK(data)
    BY <1>6, SliceCells
  <1> HIDE DEF data
  <1>8. XzBlockDecoded(cells, i, records[i][2])
          = DecodeLzma2(data, Last(b.filters).dictionary, records[i][2], records[i][2])
    BY DEF XzBlockDecoded, data, csize, b, start, check, records
  <1>9. RecordsOK(XzBlockDecoded(cells, i, records[i][2]).out)
    BY <1>7, <1>8, DecodedLzma2
  <1>10. XzBlockOutput(cells, i)
           = XzUnfiltered(b.filters, XzBlockDecoded(cells, i, records[i][2]).out)
    BY DEF XzBlockOutput, b, start, records
  <1> QED
    BY <1>9, <1>10, FilteredRecords

\* An XZ stream decodes to records.
LEMMA XzRecords ==
  ASSUME NEW cells, CellsOK(cells)
  PROVE  RecordsOK(XzOutput(cells))
  <1> DEFINE n == Len(XzIndexOf(cells).records)
             s == [i \in DOMAIN XzIndexOf(cells).records |-> XzBlockOutput(cells, i)]
  <1>1. n \in Nat /\ DOMAIN XzIndexOf(cells).records = 1 .. n
    BY IndexRecords
  <1> HIDE DEF n
  <1>2. s = [i \in 1 .. n |-> s[i]] /\ \A i \in 1 .. n : s[i] = XzBlockOutput(cells, i)
    BY <1>1
  <1>3. \A i \in 1 .. n : RecordsOK(s[i])
    BY <1>2, BlockRecords DEF n
  <1>4. XzOutput(cells) = FlattenSeq(s)
    BY DEF XzOutput
  <1> HIDE DEF s
  <1>5. IsVector(s) /\ Len(s) = n
    BY <1>1, <1>2, FunctionIsVector
  <1> QED
    BY <1>3, <1>4, <1>5, FlatRecords

\* A compressed stream inside a package decodes to records.
LEMMA StreamRecords ==
  ASSUME NEW cells, CellsOK(cells)
  PROVE  RecordsOK(StreamOutput(cells))
  <1>1. Stream(cells) = NotPacked \/ (CellOK(Stream(cells)) /\ Stream(cells).k = "packed")
    BY RecordFound DEF Stream
  <1>2. NotPacked.out = << >>
    BY DEF NotPacked, Packed
  <1> QED
    BY <1>1, <1>2, NoRecords DEF StreamOutput, CellOK

\* A gzip stream decodes to records.
LEMMA GzipRecords ==
  ASSUME NEW cells, CellsOK(cells)
  PROVE  RecordsOK(GzipOutput(cells))
  <1> DEFINE h == RecordAt(cells, 0, "gzip", GzipNoHeader)
             extra == IF h.extra = NoSize THEN 1 ELSE 1 + h.extra
             name == IF h.name THEN SkipString(cells, extra) ELSE extra
             comment == IF h.comment THEN SkipString(cells, name) ELSE name
  <1>1. Len(cells) \in Nat
    BY DEF CellsOK, IsVector
  <1>2. extra \in Nat
    <2>1. h = GzipNoHeader \/ (CellOK(h) /\ h.k = "gzip")
      BY RecordFound
    <2>2. GzipNoHeader.extra = NoSize
      BY DEF GzipNoHeader, GzipHeader
    <2> HIDE DEF h
    <2>3. h.extra \in Nat \cup {NoSize}
      BY <2>1, <2>2 DEF CellOK, RecordOK
    <2> QED
      BY <2>3 DEF NoSize
  <1> HIDE DEF h, extra
  <1>3. ASSUME NEW o \in Nat PROVE SkipString(cells, o) \in Nat
    <2> DEFINE ends == {p \in o + 1 .. Len(cells) : cells[p] = Zero}
    <2>1. ends = {} => SkipString(cells, o) = Len(cells) + 1
      BY DEF SkipString
    <2>2. ends # {} => SkipString(cells, o) = Min(ends)
      BY DEF SkipString
    <2>3. ASSUME ends # {} PROVE Min(ends) \in Nat
      <3>1. ends \in SUBSET Nat
        BY <1>1
      <3> HIDE DEF ends
      <3>2. \E x \in ends : \A y \in ends : x <= y
        BY <2>3, <3>1, LeastElement
      <3>3. Min(ends) \in ends
        BY <3>2 DEF Min
      <3> QED
        BY <3>1, <3>3, Zenon
    <2> HIDE DEF ends
    <2> QED
      BY <1>1, <2>1, <2>2, <2>3
  <1>4. name \in Nat
    BY <1>2, <1>3
  <1> HIDE DEF name
  <1>5. comment \in Nat
    BY <1>3, <1>4
  <1> HIDE DEF comment
  <1>6. GzipPlaces(cells).data \in Nat
    <2>1. GzipPlaces(cells).data = IF h.crc THEN comment + 1 ELSE comment
      BY DEF GzipPlaces, comment, name, extra, h
    <2> QED
      BY <1>5, <2>1
  <1>7. CellsOK(GzipStream(cells))
    BY <1>1, <1>6, SliceCells DEF GzipStream
  <1> QED
    BY <1>7, StreamRecords DEF GzipOutput

\* What a container holds can be parsed.
LEMMA ContainerRecords ==
  ASSUME NEW cells, CellsOK(cells), NEW codec
  PROVE  RecordsOK(ContainerOutput(codec, cells))
  BY CellsAreRecords, GzipRecords, XzRecords, StreamRecords DEF ContainerOutput
-----------------------------------------------------------------------------
(***************************************************************************)
(* What the readers hand to the sink has a length                          *)
(***************************************************************************)
\* The decrypted bytes of a ZIP entry are cells.
LEMMA PlainCells ==
  ASSUME CellsOK(Cells), NEW e, e.start \in Nat, e.end \in Nat
  PROVE  CellsOK(ZipPlain(e))
  <1> DEFINE data == ZipCipher(e)
             inner == ZipInner(e)
             garbled == [i \in DOMAIN inner |-> ZipGarbled(inner[i])]
  <1>1. CellsOK(data) /\ Len(data) \in Nat
    <2>1. CellsOK(data)
      BY SliceCells DEF ZipCipher
    <2> QED
      BY <2>1 DEF CellsOK, IsVector
  <1>2. CellsOK(inner)
    <2>1. ZipInner(e) \in {Slice(data, 1, Len(data)), Slice(data, 1, Len(data) - 2), data}
      BY DEF ZipInner
    <2>2. 1 \in Nat /\ Len(data) \in Int /\ Len(data) - 2 \in Int
      BY <1>1
    <2> HIDE DEF data
    <2>3. CellsOK(Slice(data, 1, Len(data))) /\ CellsOK(Slice(data, 1, Len(data) - 2))
      BY <1>1, <2>2, SliceCells
    <2> QED
      BY <1>1, <2>1, <2>3
  <1> HIDE DEF data, inner
  <1>3. Len(inner) \in Nat /\ DOMAIN inner = 1 .. Len(inner) /\ \A i \in 1 .. Len(inner) : CellOK(inner[i])
    BY <1>2, VectorIsSeq DEF CellsOK
  <1>4. ASSUME NEW c, CellOK(c) PROVE CellOK(ZipGarbled(c))
    <2>1. CASE c.k = "packed"
      <3> DEFINE g == [c EXCEPT !.out = << >>, !.sound = FALSE]
      <3>1. {"k", "out", "sound"} \subseteq DOMAIN c /\ RecordsOK(<< >>)
        BY <1>4, <2>1, NoRecords DEF CellOK
      <3>2. /\ DOMAIN g = DOMAIN c /\ g.k = "packed" /\ g.out = << >>
            /\ g = [f \in DOMAIN g |-> g[f]]
        BY <2>1, <3>1
      <3>3. ZipGarbled(c) = g
        BY <2>1 DEF ZipGarbled
      <3> HIDE DEF g
      <3>4. CellOK(g)
        BY <3>1, <3>2 DEF CellOK, RecordOK, Unsigned
      <3> QED
        BY <3>3, <3>4
    <2>2. CASE c.k # "packed"
      BY <2>2, PlainRecords DEF ZipGarbled
    <2> QED
      BY <2>1, <2>2
  <1>5. CellsOK(garbled)
    <2>1. garbled = [i \in 1 .. Len(inner) |-> garbled[i]]
          /\ \A i \in 1 .. Len(inner) : garbled[i] = ZipGarbled(inner[i])
      BY <1>3
    <2> HIDE DEF garbled
    <2>2. IsVector(garbled) /\ Len(garbled) = Len(inner)
      BY <1>3, <2>1, FunctionIsVector
    <2>3. \A i \in 1 .. Len(inner) : CellOK(garbled[i])
      BY <1>3, <1>4, <2>1
    <2> QED
      BY <2>2, <2>3 DEF CellsOK
  <1>6. ZipPlain(e) \in {garbled, inner}
    BY DEF ZipPlain, inner
  <1> QED
    BY <1>2, <1>5, <1>6

\* What is extracted of a ZIP entry is a sequence.
LEMMA ZipContent ==
  ASSUME CellsOK(Cells), NEW e, e.start \in Nat, e.end \in Nat, e.size \in Nat
  PROVE  IsVector(ZipOutput(e))
  <1>1. CellsOK(ZipPlain(e))
    BY PlainCells
  <1>2. RecordsOK(ZipPlain(e)) /\ RecordsOK(XzOutput(ZipPlain(e))) /\ RecordsOK(StreamOutput(ZipPlain(e)))
    BY <1>1, CellsAreRecords, XzRecords, StreamRecords
  <1>3. IsVector(Slice(StreamOutput(ZipPlain(e)), 0, e.size))
    <2>1. 0 \in Nat /\ e.size \in Int
      OBVIOUS
    <2> QED
      BY <1>2, <2>1, SliceLemma, Zenon DEF RecordsOK
  <1> QED
    BY <1>2, <1>3 DEF ZipOutput, RecordsOK

\* What is extracted of an ARJ entry is a sequence.
LEMMA ArjContent ==
  ASSUME CellsOK(Cells), NEW e, e.start \in Nat, e.end \in Nat, e.size \in Nat
  PROVE  IsVector(ArjOutput(e))
  <1>1. CellsOK(ArjData(e))
    BY SliceCells DEF ArjData
  <1>2. IsVector(ArjData(e)) /\ IsVector(StreamOutput(ArjData(e)))
    BY <1>1, StreamRecords DEF CellsOK, RecordsOK
  <1>3. IsVector(Slice(StreamOutput(ArjData(e)), 0, e.size))
    <2>1. 0 \in Nat /\ e.size \in Int
      OBVIOUS
    <2> QED
      BY <1>2, <2>1, SliceLemma, Zenon
  <1> QED
    BY <1>2, <1>3, FastestOutput, NoRecords DEF ArjOutput
-----------------------------------------------------------------------------
(***************************************************************************)
(* The inductive invariant                                                 *)
(***************************************************************************)

\* The operations in their order, and the sink's place among the entries.
ControlOK ==
  /\ CellsOK(Cells) /\ LimitsOK(limits)
  /\ input.format \in {"cpio", "zip", "rpm", "deb", "arj"}
  /\ op \in DOMAIN OpOrder
  /\ offset \in Int
  /\ at \in Nat \ {0}
  /\ sink \in BOOLEAN
  /\ op \in {"stat", "read", "start", "open"} => opened = "none"
  /\ op \in {"stat", "read", "start"} =>
       acc = [header |-> 0, names |-> 0, format |-> "none"] /\ entries = << >> /\ offset \in Nat
  /\ IsVector(finished)
  /\ op \in {"stat", "read", "start", "open", "verify"} => finished = << >>
  /\ op \in {"extract", "chunks"} /\ sink => Len(finished) = at - 1
  /\ op = "chunks" => IsVector(content) /\ cursor \in 0 .. Len(content)

EntryOK(e) == e.start \in Nat /\ e.end \in Nat
EntriesOK == IsVector(entries) /\ \A i \in 1 .. Len(entries) : EntryOK(entries[i])

\* A parser that goes forward lists one entry behind the other.
BehindEachOther(cells) ==
  /\ offset \in Nat
  /\ \A i \in 1 .. Len(entries) : entries[i].end <= offset /\ entries[i].end <= Len(cells)
  /\ \A i, j \in 1 .. Len(entries) : i < j => entries[i].end <= entries[j].start

CpioFormats == {"none", "start", "mixed"} \cup DOMAIN CpioLayout
CpioOK(cells) ==
  /\ EntriesOK /\ BehindEachOther(cells)
  /\ {"header", "names", "format"} \subseteq DOMAIN acc
  /\ acc.format \in CpioFormats

RpmOK ==
  /\ acc.format = "none" => entries = << >> /\ offset \in Nat
  /\ acc.format # "none" => /\ CpioOK(acc.payload) /\ RecordsOK(acc.payload)
                            /\ "payload" \in DOMAIN acc

ArjOK ==
  /\ EntriesOK /\ BehindEachOther(Cells)
  /\ acc.format \in {"none", "main", "headers", "member"}
  /\ acc.format = "none" => entries = << >>
  /\ acc.format # "none" =>
       /\ {"format", "header", "properties", "names", "h"} \subseteq DOMAIN acc
       /\ acc.h.csize \in Nat /\ acc.h.usize \in Nat
  /\ \A i \in 1 .. Len(entries) : entries[i].size \in Nat

PaxOK(p) == p.size \in Nat \cup {NoSize}
MemberOK(m) == m.start \in Nat /\ m.end \in Nat
DebParserOK ==
  /\ {"header", "names", "format", "members", "properties", "control", "data", "global",
      "local", "longName", "longLink"} \subseteq DOMAIN acc
  /\ RecordsOK(acc.control) /\ RecordsOK(acc.data)
  /\ PaxOK(acc.global) /\ (acc.local = << >> \/ PaxOK(acc.local[1]))
DebEntryOK(e) ==
  /\ e.section \in {"control", "data"}
  /\ e.section = "data" => acc.format = "data"
  /\ e.end <= Len(DebSection(e))
  /\ e.section = acc.format => e.end <= offset
DebOK ==
  /\ EntriesOK /\ offset \in Nat
  /\ acc.format \in {"none", "ar", "control", "data"}
  /\ acc.format \in {"none", "ar"} => entries = << >>
  /\ acc.format = "ar" =>
       /\ {"header", "names", "format", "members"} \subseteq DOMAIN acc
       /\ IsVector(acc.members) /\ \A i \in 1 .. Len(acc.members) : MemberOK(acc.members[i])
  /\ acc.format \in {"control", "data"} => DebParserOK
  /\ \A i \in 1 .. Len(entries) : DebEntryOK(entries[i])
  /\ \A i, j \in 1 .. Len(entries) :
       i < j /\ entries[i].section = entries[j].section => entries[i].end <= entries[j].start

ZipEntryOK(e) ==
  /\ e.size \in Nat /\ e.place \in Nat /\ e.last \in Int
  /\ e.place < e.start /\ e.end <= e.last
ZipOK ==
  /\ EntriesOK /\ \A i \in 1 .. Len(entries) : ZipEntryOK(entries[i])
  /\ acc.format \in {"none", "zip"}
  /\ acc.format = "none" => entries = << >>
  /\ acc.format = "zip" =>
       /\ {"format", "names", "dir", "dirEnd", "base", "hint", "comment"} \subseteq DOMAIN acc
       /\ acc.dir \in Int /\ acc.dir <= Len(Cells) /\ acc.dirEnd \in Int /\ acc.base \in Nat
  /\ opened = "ok" => ZipNonOverlapping

FormatOK ==
  /\ Is("cpio") => CpioOK(Cells)
  /\ Is("rpm") => RpmOK
  /\ Is("arj") => ArjOK
  /\ Is("deb") => DebOK
  /\ Is("zip") => ZipOK

Inv == ControlOK /\ FormatOK
-----------------------------------------------------------------------------
(***************************************************************************)
(* The steps that the readers share                                        *)
(***************************************************************************)
SinkStep == [Sink!SinkNext]_(Sink!sinkVars)
Good == Inv' /\ SinkStep /\ RoundGoesForward

\* Between two entries the sink is not called.
LEMMA SinkRests ==
  ASSUME ~ (sink /\ op = "chunks"), ~ (sink' /\ op' = "chunks"), finished' = finished,
         op # "done", op' # "done"
  PROVE  SinkStep
  BY DEF SinkStep, Sink!sinkVars

\* The end of the operation is the end for the sink.
LEMMA SinkEnds ==
  ASSUME op # "done", op' = "done", finished' = finished
  PROVE  SinkStep
  BY DEF SinkStep, Sink!SinkNext, Sink!SinkOver

\* The order of the operations.
LEMMA Order ==
  /\ DOMAIN OpOrder = {"stat", "read", "start", "open", "verify", "extract", "chunks", "done"}
  /\ OpOrder["stat"] = 0 /\ OpOrder["read"] = 1 /\ OpOrder["start"] = 2 /\ OpOrder["open"] = 3
  /\ OpOrder["verify"] = 4 /\ OpOrder["extract"] = 5 /\ OpOrder["chunks"] = 5
  /\ OpOrder["done"] = 6
  BY DEF OpOrder

\* Where the parser's variables stay, so does what is known of them.
LEMMA FormatStays ==
  ASSUME FormatOK, input' = input, acc' = acc, entries' = entries, offset' = offset,
         opened' = "ok" => opened = "ok" \/ ~ Is("zip")
  PROVE  FormatOK'
  <1>1. Is("cpio")' => CpioOK(Cells)'
    BY DEF FormatOK, Is, CpioOK, Cells, EntriesOK, EntryOK, BehindEachOther
  <1>2. Is("rpm")' => RpmOK'
    BY DEF FormatOK, Is, RpmOK, CpioOK, Cells, EntriesOK, EntryOK, BehindEachOther
  <1>3. Is("arj")' => ArjOK'
    BY DEF FormatOK, Is, ArjOK, Cells, EntriesOK, EntryOK, BehindEachOther
  <1>4. Is("deb")' => DebOK'
    BY DEF FormatOK, Is, DebOK, EntriesOK, EntryOK, DebParserOK, DebEntryOK, DebSection
  <1>5. Is("zip")' => ZipOK'
    BY DEF FormatOK, Is, ZipOK, Cells, EntriesOK, EntryOK, ZipEntryOK, ZipNonOverlapping
  <1> QED
    BY <1>1, <1>2, <1>3, <1>4, <1>5 DEF FormatOK

\* Before a parser started there is nothing to be said.
LEMMA FormatStarts ==
  /\ acc = [header |-> 0, names |-> 0, format |-> "none"] /\ entries = << >>
  /\ offset \in Nat /\ opened # "ok"
  => FormatOK
  <1> SUFFICES ASSUME acc = [header |-> 0, names |-> 0, format |-> "none"], entries = << >>,
                      offset \in Nat, opened # "ok"
               PROVE  FormatOK
    OBVIOUS
  <1>1. /\ EntriesOK /\ \A cells : BehindEachOther(cells)
        /\ \A i \in 1 .. Len(entries) : FALSE
    BY NoRecords DEF EntriesOK, BehindEachOther
  <1>2. acc.format = "none" /\ {"header", "names", "format"} \subseteq DOMAIN acc
    OBVIOUS
  <1>3. \A cells : CpioOK(cells)
    BY <1>1, <1>2 DEF CpioOK, CpioFormats
  <1>4. RpmOK /\ ArjOK /\ DebOK /\ ZipOK
    BY <1>1, <1>2 DEF RpmOK, ArjOK, DebOK, ZipOK
  <1> QED
    BY <1>3, <1>4 DEF FormatOK

\* The same after a step.
LEMMA FormatStartsNext ==
  (/\ acc = [header |-> 0, names |-> 0, format |-> "none"] /\ entries = << >>
   /\ offset \in Nat /\ opened # "ok")'
  => FormatOK'
  BY FormatStarts, PTL

\* open returns.
LEMMA ListedStep ==
  ASSUME Inv, op \in {"stat", "read", "start", "open"}, NEW r, OpenReturns(r), FormatOK',
         offset' \in Int
  PROVE  Good
  <1> USE DEF OpenReturns, loopVars, ControlOK
  <1>1. op' \in {"verify", "done"} /\ (op' = "verify" => opened' = "ok")
    OBVIOUS
  <1>2. ControlOK'
    BY <1>1, Order DEF Inv, Cells
  <1>3. SinkStep
    <2>1. CASE op' = "verify"
      BY <2>1, SinkRests
    <2>2. CASE op' = "done"
      BY <2>2, SinkEnds
    <2> QED
      BY <1>1, <2>1, <2>2
  <1>4. RoundGoesForward
    BY <1>1, Order DEF RoundGoesForward
  <1> QED
    BY <1>2, <1>3, <1>4 DEF Good, Inv

\* open fails.
LEMMA FailsStep ==
  ASSUME Inv, op \in {"stat", "read", "start", "open"}, NEW r, r # "ok", OpenReturns(r),
         UNCHANGED parseVars
  PROVE  Good
  <1>1. FormatOK'
    BY FormatStays DEF Inv, OpenReturns, parseVars
  <1>2. offset' \in Int
    BY DEF Inv, ControlOK, parseVars
  <1> QED
    BY <1>1, <1>2, ListedStep

\* A round of a parser that goes on.
LEMMA GoesOnStep ==
  ASSUME Inv, op = "open", ParseGoesOn, FormatOK', offset' \in Int,
         Stage(acc') > Stage(acc) \/ (Stage(acc') = Stage(acc) /\ offset' > offset)
  PROVE  Good
  <1> USE DEF ParseGoesOn, loopVars, ControlOK
  <1>1. ControlOK'
    BY Order DEF Inv, Cells
  <1>2. SinkStep
    BY SinkRests
  <1>3. RoundGoesForward
    BY DEF RoundGoesForward
  <1> QED
    BY <1>1, <1>2, <1>3 DEF Good, Inv

\* The size the file system reports is held against the limit.
LEMMA StatStep ==
  ASSUME Inv, StatPath
  PROVE  Good
  <1>1. CASE OpenReturns("limit") /\ UNCHANGED parseVars
    BY <1>1, FailsStep DEF StatPath
  <1>2. CASE OpenReturns("io") /\ UNCHANGED parseVars
    BY <1>2, FailsStep DEF StatPath
  <1>3. CASE /\ op' = "read"
             /\ UNCHANGED <<input, limits, opened, verified, extracted, parseVars, loopVars>>
    <2>1. op = "stat"
      BY DEF StatPath
    <2>2. ControlOK'
      BY <1>3, <2>1, Order DEF Inv, ControlOK, Cells, parseVars, loopVars
    <2>3. FormatOK'
      BY <1>3, FormatStays DEF Inv, parseVars
    <2>4. SinkStep
      BY <1>3, <2>1, SinkRests DEF loopVars
    <2>5. RoundGoesForward
      BY <1>3, <2>1, Order DEF RoundGoesForward
    <2> QED
      BY <2>2, <2>3, <2>4, <2>5 DEF Good, Inv
  <1> QED
    BY <1>1, <1>2, <1>3 DEF StatPath

\* A round of reading a file ends behind where it began.
LEMMA ReadStep ==
  ASSUME Inv, ReadPath
  PROVE  Good
  <1>1. op = "read" /\ Len(Cells) \in Nat /\ offset \in Nat
    BY DEF ReadPath, Inv, ControlOK, CellsOK, IsVector
  <1> DEFINE next == Smaller(offset + IoChunk, Len(Cells))
  <1>2. CASE OpenReturns("limit") /\ UNCHANGED parseVars
    BY <1>1, <1>2, FailsStep
  <1>3. CASE OpenReturns("io") /\ UNCHANGED parseVars
    BY <1>1, <1>3, FailsStep
  <1>4. CASE /\ offset < Len(Cells) /\ offset' = next
             /\ UNCHANGED <<input, limits, op, opened, verified, extracted, acc, entries, loopVars>>
    <2>1. offset' \in Nat /\ offset' > offset
      BY <1>1, <1>4, CasesAssumption DEF Smaller
    <2>2. ControlOK'
      BY <1>1, <1>4, <2>1, Order DEF Inv, ControlOK, Cells, loopVars
    <2>3. FormatOK'
      <3>1. /\ acc' = [header |-> 0, names |-> 0, format |-> "none"] /\ entries' = << >>
            /\ offset' \in Nat /\ opened' # "ok"
        BY <1>1, <1>4, <2>1 DEF Inv, ControlOK
      <3> QED
        BY <3>1, FormatStartsNext
    <2>4. SinkStep
      BY <1>1, <1>4, SinkRests DEF loopVars
    <2>5. RoundGoesForward
      BY <1>1, <1>4, <2>1 DEF RoundGoesForward
    <2> QED
      BY <2>2, <2>3, <2>4, <2>5 DEF Good, Inv
  <1>5. CASE /\ op' = "start" /\ offset' = 0
             /\ UNCHANGED <<input, limits, opened, verified, extracted, acc, entries, loopVars>>
    <2>1. ControlOK'
      BY <1>1, <1>5, Order DEF Inv, ControlOK, Cells, loopVars
    <2>2. FormatOK'
      <3>1. /\ acc' = [header |-> 0, names |-> 0, format |-> "none"] /\ entries' = << >>
            /\ offset' \in Nat /\ opened' # "ok"
        BY <1>1, <1>5 DEF Inv, ControlOK
      <3> QED
        BY <3>1, FormatStartsNext
    <2>3. SinkStep
      BY <1>1, <1>5, SinkRests DEF loopVars
    <2>4. RoundGoesForward
      BY <1>1, <1>5, Order DEF RoundGoesForward
    <2> QED
      BY <2>1, <2>2, <2>3, <2>4 DEF Good, Inv
  <1> QED
    BY <1>2, <1>3, <1>4, <1>5 DEF ReadPath

\* open_bytes holds the input against its limit.
LEMMA StartStep ==
  ASSUME Inv, StartOpen
  PROVE  Good
  <1>1. op = "start"
    BY DEF StartOpen
  <1>2. CASE OpenReturns("limit") /\ UNCHANGED parseVars
    BY <1>1, <1>2, FailsStep
  <1>3. CASE /\ op' = "open"
             /\ UNCHANGED <<input, limits, opened, verified, extracted, parseVars, loopVars>>
    <2>1. ControlOK'
      BY <1>1, <1>3, Order DEF Inv, ControlOK, Cells, parseVars, loopVars
    <2>2. FormatOK'
      BY <1>3, FormatStays DEF Inv, parseVars
    <2>3. SinkStep
      BY <1>1, <1>3, SinkRests DEF loopVars
    <2>4. RoundGoesForward
      BY <1>1, <1>3, Order DEF RoundGoesForward
    <2> QED
      BY <2>1, <2>2, <2>3, <2>4 DEF Good, Inv
  <1> QED
    BY <1>2, <1>3 DEF StartOpen
-----------------------------------------------------------------------------
\* The archive does not change once it is open.
LEMMA ArchiveStays ==
  ASSUME Inv, UNCHANGED <<input, limits, opened, parseVars>>
  PROVE  FormatOK' /\ CellsOK(Cells)' /\ LimitsOK(limits)' /\ input'.format \in {"cpio", "zip", "rpm", "deb", "arj"}
         /\ offset' \in Int
  BY FormatStays DEF Inv, ControlOK, Cells, parseVars

\* verify returns.
LEMMA VerifyReturnsStep ==
  ASSUME Inv, op = "verify", NEW r, VerifyReturns(r)
  PROVE  Good
  <1>1. /\ op' = "extract" /\ at' = 1 /\ sink' \in BOOLEAN
        /\ UNCHANGED <<input, limits, opened, parseVars>> /\ finished' = finished
    BY DEF VerifyReturns
  <1>2. finished = << >> /\ IsVector(finished)
    BY DEF Inv, ControlOK
  <1>3. ControlOK'
    BY <1>1, <1>2, ArchiveStays, NoRecords, Order DEF ControlOK
  <1>4. SinkStep
    BY <1>1, SinkRests
  <1>5. RoundGoesForward
    BY <1>1, Order DEF RoundGoesForward
  <1> QED
    BY <1>1, <1>3, <1>4, <1>5, ArchiveStays DEF Good, Inv

\* verify has judged one entry.
LEMMA VerifyStep ==
  ASSUME Inv, NEW result, NEW size, VerifyEntry(result, size)
  PROVE  Good
  <1>1. op = "verify"
    BY DEF VerifyEntry
  <1>2. CASE VerifyReturns(result)
    BY <1>1, <1>2, VerifyReturnsStep
  <1>3. CASE /\ at' = at + 1
             /\ UNCHANGED <<input, limits, op, opened, verified, extracted, parseVars,
                            content, cursor, sink, begun, got, finished>>
    <2>1. UNCHANGED <<input, limits, opened, parseVars>> /\ op' = op /\ sink' = sink /\ finished' = finished
      BY <1>3
    <2>2. ControlOK'
      BY <1>1, <1>3, <2>1, ArchiveStays, Order DEF Inv, ControlOK
    <2>3. SinkStep
      BY <1>1, <2>1, SinkRests
    <2>4. RoundGoesForward
      BY <1>1, <1>3, <2>1 DEF RoundGoesForward, Inv, ControlOK
    <2> QED
      BY <2>1, <2>2, <2>3, <2>4, ArchiveStays DEF Good, Inv
  <1> QED
    BY <1>2, <1>3 DEF VerifyEntry

\* verify has judged them all.
LEMMA VerifyDoneStep ==
  ASSUME Inv, VerifyDone
  PROVE  Good
  BY VerifyReturnsStep DEF VerifyDone

\* An extraction returns.
LEMMA ExtractReturnsStep ==
  ASSUME Inv, op \in {"extract", "chunks"}, NEW r, ExtractReturns(r),
         UNCHANGED <<at, sink, finished>>
  PROVE  Good
  <1>1. op' = "done" /\ UNCHANGED <<input, limits, opened, parseVars>>
    BY DEF ExtractReturns
  <1>2. ControlOK'
    BY <1>1, ArchiveStays, Order DEF Inv, ControlOK
  <1>3. SinkStep
    BY <1>1, SinkEnds
  <1>4. RoundGoesForward
    BY <1>1, Order DEF RoundGoesForward
  <1> QED
    BY <1>1, <1>2, <1>3, <1>4, ArchiveStays DEF Good, Inv

\* An entry is begun, or its checks or the sink stop the extraction.
LEMMA BeginStep ==
  ASSUME Inv, NEW result, NEW size, NEW data, result = "ok" => IsVector(data),
         BeginEntry(result, size, data)
  PROVE  Good
  <1>1. op = "extract" /\ sink
    BY DEF BeginEntry
  <1>2. CASE ExtractReturns("sink") /\ UNCHANGED <<at, total, content, cursor, sink, got, finished>>
    BY <1>1, <1>2, ExtractReturnsStep
  <1>3. CASE ExtractReturns(result) /\ UNCHANGED loopVars
    BY <1>1, <1>3, ExtractReturnsStep DEF loopVars
  <1>4. CASE /\ result = "ok" /\ content' = data /\ cursor' = 0 /\ op' = "chunks"
             /\ UNCHANGED <<input, limits, opened, verified, extracted, parseVars, at, sink,
                            got, finished>>
    <2>1. /\ UNCHANGED <<input, limits, opened, parseVars>> /\ at' = at /\ sink' = sink
          /\ finished' = finished
      BY <1>4
    <2>2. IsVector(content') /\ Len(content') \in Nat
      BY <1>4 DEF IsVector
    <2>3. ControlOK'
      BY <1>1, <1>4, <2>1, <2>2, ArchiveStays, Order DEF Inv, ControlOK
    <2>4. Sink!SinkBegin
      <3>1. at = Len(finished) + 1
        BY <1>1, VectorIsSeq DEF Inv, ControlOK
      <3> QED
        BY <1>1, <1>4, <2>1, <2>2, <3>1 DEF Sink!SinkBegin
    <2>5. RoundGoesForward
      BY <1>1, <1>4, Order DEF RoundGoesForward
    <2> QED
      BY <2>1, <2>3, <2>4, <2>5, ArchiveStays DEF Good, Inv, SinkStep, Sink!SinkNext
  <1> QED
    BY <1>2, <1>3, <1>4, Zenon DEF BeginEntry

\* extract_entries_to is done.
LEMMA ExtractDoneStep ==
  ASSUME Inv, ExtractDone
  PROVE  Good
  BY ExtractReturnsStep DEF ExtractDone, loopVars

\* An entry is extracted alone.
LEMMA AloneStep ==
  ASSUME Inv, NEW i \in Nat \ {0}, NEW result, NEW data, result = "ok" => IsVector(data),
         BeginAlone(i, result, data)
  PROVE  Good
  <1>1. op = "extract" /\ ~ sink
    BY DEF BeginAlone
  <1>2. CASE ExtractReturns(result) /\ UNCHANGED loopVars
    BY <1>1, <1>2, ExtractReturnsStep DEF loopVars
  <1>3. CASE /\ result = "ok" /\ at' = i /\ content' = data /\ cursor' = 0 /\ op' = "chunks"
             /\ UNCHANGED <<input, limits, opened, verified, extracted, parseVars, total, sink,
                            begun, got, finished>>
    <2>1. UNCHANGED <<input, limits, opened, parseVars>> /\ sink' = sink /\ finished' = finished
      BY <1>3
    <2>2. IsVector(content') /\ Len(content') \in Nat
      BY <1>3 DEF IsVector
    <2>3. ControlOK'
      BY <1>1, <1>3, <2>1, <2>2, ArchiveStays, Order DEF Inv, ControlOK
    <2>4. SinkStep
      BY <1>1, <1>3, <2>1, SinkRests
    <2>5. RoundGoesForward
      BY <1>1, <1>3, Order DEF RoundGoesForward
    <2> QED
      BY <2>1, <2>3, <2>4, <2>5, ArchiveStays DEF Good, Inv
  <1> QED
    BY <1>2, <1>3 DEF BeginAlone

\* A chunk is written, or the sink refuses it.
LEMMA WriteStep ==
  ASSUME Inv, WriteChunk
  PROVE  Good
  <1>1. /\ op = "chunks" /\ cursor < Len(content)
        /\ UNCHANGED <<at, total, content, sink, begun, finished>>
    BY DEF WriteChunk
  <1> DEFINE end == Smaller(cursor + IoChunk, Len(content))
  <1>2. CASE ExtractReturns("sink")
    BY <1>1, <1>2, ExtractReturnsStep
  <1>3. CASE /\ cursor' = end
             /\ UNCHANGED <<input, limits, op, opened, verified, extracted, parseVars>>
    <2>1. UNCHANGED <<input, limits, opened, parseVars>> /\ op' = op
      BY <1>3
    <2>2. cursor \in 0 .. Len(content) /\ Len(content) \in Nat
      BY <1>1 DEF Inv, ControlOK, IsVector
    <2>3. cursor' \in 0 .. Len(content) /\ cursor' > cursor
      BY <1>1, <1>3, <2>2, CasesAssumption DEF Smaller
    <2>4. ControlOK'
      BY <1>1, <2>1, <2>3, ArchiveStays, Order DEF Inv, ControlOK
    <2>5. SinkStep
      <3>1. CASE sink
        <4>1. Sink!SinkWrite
          <5>1. at # 0
            BY DEF Inv, ControlOK
          <5>2. Len(content) - cursor' \in 0 .. (Len(content) - cursor) - 1
            BY <2>2, <2>3
          <5> QED
            BY <1>1, <2>1, <3>1, <5>1, <5>2 DEF Sink!SinkWrite
        <4> QED
          BY <4>1 DEF SinkStep, Sink!SinkNext
      <3>2. CASE ~ sink
        BY <1>1, <2>1, <3>2, SinkRests
      <3> QED
        BY <3>1, <3>2
    <2>6. RoundGoesForward
      BY <1>1, <2>1, <2>3 DEF RoundGoesForward
    <2> QED
      BY <2>1, <2>4, <2>5, <2>6, ArchiveStays DEF Good, Inv
  <1> QED
    BY <1>2, <1>3 DEF WriteChunk

\* An entry that has all its bytes is finished, or the sink refuses that.
LEMMA FinishStep ==
  ASSUME Inv, FinishEntry
  PROVE  Good
  <1>1. /\ op = "chunks" /\ cursor = Len(content)
        /\ UNCHANGED <<total, content, cursor, sink, begun, got>>
    BY DEF FinishEntry, Delivered
  <1>2. CASE ExtractReturns("sink") /\ UNCHANGED <<at, finished>>
    BY <1>1, <1>2, ExtractReturnsStep
  <1>3. CASE ExtractReturns("ok") /\ UNCHANGED <<at, finished>>
    BY <1>1, <1>3, ExtractReturnsStep
  <1>4. CASE /\ sink /\ finished' = Append(finished, at) /\ at' = at + 1 /\ op' = "extract"
             /\ UNCHANGED <<input, limits, opened, verified, extracted, parseVars>>
    <2>1. UNCHANGED <<input, limits, opened, parseVars>> /\ sink' = sink
      BY <1>1, <1>4
    <2>2. Len(finished) = at - 1 /\ at \in Nat \ {0} /\ IsVector(finished)
      BY <1>1, <1>4 DEF Inv, ControlOK
    <2>3. IsVector(finished') /\ Len(finished') = at /\ Len(finished') = at' - 1 /\ at' \in Nat \ {0}
      BY <1>4, <2>2, AppendVector
    <2>4. ControlOK'
      BY <1>4, <2>1, <2>3, ArchiveStays, Order DEF Inv, ControlOK
    <2>5. Sink!SinkFinish
      <3>1. Len(content) - cursor = 0
        BY <1>1 DEF Inv, ControlOK, IsVector
      <3> QED
        BY <1>1, <1>4, <2>1, <2>2, <2>3, <3>1 DEF Sink!SinkFinish
    <2>6. RoundGoesForward
      BY <1>1, <1>4, <2>2, Order DEF RoundGoesForward
    <2> QED
      BY <2>1, <2>4, <2>5, <2>6, ArchiveStays DEF Good, Inv, SinkStep, Sink!SinkNext
  <1> QED
    BY <1>2, <1>3, <1>4 DEF FinishEntry

\* A checkpoint interrupts the operation.
LEMMA InterruptStep ==
  ASSUME Inv, Interrupt
  PROVE  Good
  <1>1. CASE op \in {"read", "open"} /\ OpenReturns("interrupted") /\ UNCHANGED parseVars
    BY <1>1, FailsStep
  <1>2. CASE op = "verify" /\ VerifyReturns("interrupted")
    BY <1>2, VerifyReturnsStep
  <1>3. CASE op \in {"extract", "chunks"} /\ ExtractReturns("interrupted") /\ UNCHANGED loopVars
    BY <1>3, ExtractReturnsStep DEF loopVars
  <1> QED
    BY <1>1, <1>2, <1>3 DEF Interrupt
-----------------------------------------------------------------------------
(***************************************************************************)
(* Rows of checks                                                          *)
(***************************************************************************)
Checks(s) == IsVector(s) /\ \A i \in 1 .. Len(s) : s[i][1] \/ s[i][2] # "ok"

\* What passed is true of every check.
LEMMA AllHold ==
  ASSUME NEW s, Checks(s), FirstFailure(s) = "ok"
  PROVE  \A i \in 1 .. Len(s) : s[i][1]
  <1> DEFINE bad == {i \in DOMAIN s : ~ s[i][1]}
  <1>1. Len(s) \in Nat /\ DOMAIN s = 1 .. Len(s)
    BY VectorIsSeq DEF Checks
  <1>2. bad = {}
    <2> SUFFICES ASSUME bad # {} PROVE FALSE
      OBVIOUS
    <2>1. FirstFailure(s) = s[Min(bad)][2]
      BY DEF FirstFailure
    <2>2. bad \in SUBSET Nat
      BY <1>1
    <2>3. \A i \in bad : i \in 1 .. Len(s) /\ ~ s[i][1]
      BY <1>1
    <2> HIDE DEF bad
    <2>4. \E x \in bad : \A y \in bad : x <= y
      BY <2>2, LeastElement
    <2>5. Min(bad) \in bad
      BY <2>4 DEF Min
    <2> QED
      BY <2>1, <2>3, <2>5 DEF Checks
  <1> QED
    BY <1>1, <1>2

\* ... and a row of which every check is true passes.
LEMMA HeldRow ==
  ASSUME NEW s, Checks(s), \A i \in 1 .. Len(s) : s[i][1]
  PROVE  FirstFailure(s) = "ok"
  <1>1. DOMAIN s = 1 .. Len(s)
    BY VectorIsSeq DEF Checks
  <1> QED
    BY <1>1 DEF FirstFailure

\* Checks behind checks that all hold, hold.
LEMMA ConcatChecks ==
  ASSUME NEW s, Checks(s), NEW t, Checks(t)
  PROVE  /\ Checks(s \o t)
         /\ FirstFailure(s \o t) = "ok" =>
              /\ \A i \in 1 .. Len(s) : s[i][1]
              /\ \A i \in 1 .. Len(t) : t[i][1]
  <1> DEFINE n == Len(s)
             m == Len(t)
             r == s \o t
  <1>1. n \in Nat /\ m \in Nat /\ IsVector(s) /\ IsVector(t)
    BY DEF Checks, IsVector
  <1>2. /\ IsVector(r) /\ Len(r) = n + m
        /\ \A i \in 1 .. Len(r) : r[i] = IF i <= n THEN s[i] ELSE t[i - n]
    BY <1>1, ConcatVector
  <1> HIDE DEF r
  <1>3. /\ \A i \in 1 .. n + m : (i <= n => i \in 1 .. n) /\ (~ (i <= n) => i - n \in 1 .. m)
        /\ \A i \in 1 .. n : i \in 1 .. n + m /\ i <= n
        /\ \A i \in 1 .. m : i + n \in 1 .. n + m /\ ~ (i + n <= n) /\ (i + n) - n = i
    BY <1>1
  <1>4. /\ \A i \in 1 .. n : r[i] = s[i]
        /\ \A i \in 1 .. m : r[i + n] = t[i]
    BY <1>2, <1>3
  <1>5. Checks(r)
    <2>1. ASSUME NEW i \in 1 .. n + m PROVE r[i][1] \/ r[i][2] # "ok"
      <3>1. CASE i <= n
        BY <1>2, <1>3, <3>1 DEF Checks
      <3>2. CASE ~ (i <= n)
        BY <1>2, <1>3, <3>2 DEF Checks
      <3> QED
        BY <3>1, <3>2
    <2> QED
      BY <1>2, <2>1 DEF Checks
  <1>6. ASSUME FirstFailure(r) = "ok"
        PROVE  (\A i \in 1 .. n : s[i][1]) /\ (\A i \in 1 .. m : t[i][1])
    <2>1. \A i \in 1 .. n + m : r[i][1]
      BY <1>2, <1>5, <1>6, AllHold
    <2>2. ASSUME NEW i \in 1 .. n PROVE s[i][1]
      BY <1>3, <1>4, <2>1
    <2>3. ASSUME NEW i \in 1 .. m PROVE t[i][1]
      BY <1>3, <1>4, <2>1, Zenon
    <2> QED
      BY <2>2, <2>3
  <1> QED
    BY <1>5, <1>6 DEF r

\* A CPIO header that passed has one of the known magics.
LEMMA CpioHeaderHolds ==
  ASSUME NEW cells, NEW o, NEW h, FirstFailure(CpioHeaderChecks(cells, o, h)) = "ok"
  PROVE  h.magic \in DOMAIN CpioLayout
  <1> DEFINE s == CpioHeaderChecks(cells, o, h)
  <1>1. Checks(s) /\ Len(s) = 5
    BY DEF CpioHeaderChecks, Checks, IsVector
  <1>2. s[2][1]
    BY <1>1, AllHold
  <1> QED
    BY <1>2, Zenon DEF CpioHeaderChecks
-----------------------------------------------------------------------------
(***************************************************************************)
(* CPIO and RPM                                                            *)
(***************************************************************************)
\* What a round of parse_entries does, as far as the places go.
CpioLists(cells) ==
  /\ ParseGoesOn
  /\ \E e : /\ entries' = Append(entries, e) /\ EntryOK(e)
            /\ e.start >= offset /\ e.end <= offset' /\ e.end <= Len(cells)
  /\ offset' \in Nat /\ offset' > offset
  /\ \E h, n : acc' = [acc EXCEPT !.format = CpioMerge(@, h.magic), !.header = @ + n.header,
                                  !.names = @ + n.names]
               /\ h.magic \in DOMAIN CpioLayout
CpioEnds(cells) ==
  /\ \E r : OpenReturns(r)
  /\ entries' = entries /\ offset' \in Nat /\ offset' >= offset
  /\ \E h : acc' = [acc EXCEPT !.format = CpioMerge(@, h.magic)] /\ h.magic \in DOMAIN CpioLayout
CpioFails == \E r : r # "ok" /\ ParseFails(r)

\* The sizes of a CPIO header are numbers.
LEMMA CpioNumbers ==
  ASSUME NEW s, RecordsOK(s), NEW o
  PROVE  LET h == RecordAt(s, o, "cpio", CpioNoHeader) IN h.name \in Nat /\ h.size \in Nat
  <1> DEFINE h == RecordAt(s, o, "cpio", CpioNoHeader)
  <1>1. h = CpioNoHeader \/ (RecordOK(h) /\ h.k = "cpio")
    BY FieldsFound
  <1>2. CpioNoHeader.name = 0 /\ CpioNoHeader.size = 0
    BY DEF CpioNoHeader, CpioHeader
  <1> HIDE DEF h
  <1>3. RecordOK(h) /\ h.k = "cpio" => h.name \in Nat /\ h.size \in Nat
    BY DEF RecordOK, Unsigned
  <1>4. h.name \in Nat /\ h.size \in Nat
    BY <1>1, <1>2, <1>3
  <1> QED
    BY <1>4 DEF h

\* The extent of a record begins behind its header.
LEMMA CpioExtents ==
  ASSUME NEW cells, NEW o \in Nat, NEW h, h.name \in Nat, h.size \in Nat,
         h.magic \in DOMAIN CpioLayout
  PROVE  LET x == CpioExtent(cells, o, h) IN
         /\ x.start \in Nat /\ x.start > o
         /\ x.dataEnd = x.start + h.size
         /\ x.end \in Nat /\ x.end >= x.dataEnd
  <1> DEFINE x == CpioExtent(cells, o, h)
             layout == CpioLayout[h.magic]
  <1>1. layout.width \in Nat \ {0} /\ layout.align \in Nat \ {0}
    BY DEF CpioLayout, CpioNewc, CpioOdc, CpioBinary
  <1>2. /\ x.start = AlignUp(o + layout.width + h.name, layout.align)
        /\ x.dataEnd = x.start + h.size
        /\ x.end = AlignUp(x.start + h.size, layout.align)
    BY DEF CpioExtent
  <1> HIDE DEF x, layout
  <1>3. o + layout.width + h.name \in Nat /\ o + layout.width + h.name > o
    BY <1>1
  <1>4. x.start \in Nat /\ x.start > o
    BY <1>1, <1>2, <1>3, AlignedUp
  <1>5. x.end \in Nat /\ x.end >= x.dataEnd
    <2>1. x.start + h.size \in Nat
      BY <1>4
    <2> QED
      BY <1>1, <1>2, <2>1, AlignedUp
  <1> QED
    BY <1>2, <1>4, <1>5 DEF x

\* The longest row of checks.
LEMMA Fourteen ==
  ASSUME NEW a, NEW b, NEW c, NEW d, NEW e, NEW f, NEW g, NEW h, NEW i, NEW j, NEW k,
         NEW l, NEW m, NEW n
  PROVE  LET s == <<a, b, c, d, e, f, g, h, i, j, k, l, m, n>> IN
         /\ IsVector(s) /\ Len(s) = 14 
         /\ s[1] = a /\ s[2] = b /\ s[3] = c /\ s[4] = d /\ s[5] = e /\ s[6] = f /\ s[7] = g
         /\ s[8] = h /\ s[9] = i /\ s[10] = j /\ s[11] = k /\ s[12] = l /\ s[13] = m /\ s[14] = n
  BY DEF IsVector

\* The many checks of one record are checks.
LEMMA FourteenChecks ==
  ASSUME NEW s, Len(s) = 14, IsVector(s), \A i \in {1,2,3,4,5,6,7,8,9,10,11,12,13,14} : s[i][2] # "ok"
  PROVE  Checks(s)
  <1>1. \A i \in 1 .. 14 : i \in {1,2,3,4,5,6,7,8,9,10,11,12,13,14}
    OBVIOUS
  <1> QED BY <1>1 DEF Checks

\* A CPIO record that passed ends inside the archive.
LEMMA CpioRecordHolds ==
  ASSUME NEW cells, NEW h, NEW x, NEW count, NEW a,
         FirstFailure(CpioRecordChecks(cells, h, x, count, a)) = "ok"
  PROVE  x.dataEnd <= Len(cells)
  <1> DEFINE s == CpioRecordChecks(cells, h, x, count, a)
  <1>1. IsVector(s) /\ Len(s) = 14
    BY Fourteen DEF CpioRecordChecks
  <1>2. /\ s[1][2] = "limit" /\ s[2][2] = "format" /\ s[3][2] = "format" /\ s[4][2] = "format"
        /\ s[5][2] = "format" /\ s[6][2] = "format" /\ s[7][2] = "format" /\ s[8][2] = "format"
        /\ s[9][2] = "format" /\ s[10][2] = "limit" /\ s[11][2] = "limit" /\ s[12][2] = "limit"
        /\ s[13][2] = "limit" /\ s[14][2] = "checksum"
    BY DEF CpioRecordChecks
  <1>4. s[7][1] = (x.dataEnd <= Len(cells))
    BY DEF CpioRecordChecks
  <1>3. Checks(s)
    <2> HIDE DEF s
    <2> QED BY <1>1, <1>2, FourteenChecks
  <1>0. FirstFailure(s) = "ok"
    OBVIOUS
  <1> HIDE DEF s
  <1>5. s[7][1]
    BY <1>0, <1>1, <1>3, AllHold
  <1> QED
    BY <1>4, <1>5, Zenon

\* A round of the CPIO parser lists an entry, ends the archive or fails.
LEMMA CpioRounds ==
  ASSUME NEW cells, RecordsOK(cells), offset \in Nat, CpioRound(cells)
  PROVE  CpioLists(cells) \/ CpioEnds(cells) \/ CpioFails
  <1> DEFINE h == RecordAt(cells, offset, "cpio", CpioNoHeader)
             x == CpioExtent(cells, offset, h)
             header == FirstFailure(CpioHeaderChecks(cells, offset, h))
             record == IF header # "ok" THEN header
                       ELSE FirstFailure(CpioRecordChecks(cells, h, x, Len(entries), acc))
  <1>1. \/ /\ offset >= Len(cells)
           /\ ParseFails("format")
        \/ /\ offset < Len(cells)
           /\ record # "ok"
           /\ ParseFails(record)
        \/ /\ offset < Len(cells)
           /\ record = "ok"
           /\ x.name = Trailer
           /\ acc' = [acc EXCEPT !.format = CpioMerge(@, h.magic)]
           /\ offset' = x.end
           /\ UNCHANGED entries
           /\ OpenReturns(IF AllZero(cells, x.end, Len(cells)) THEN "ok" ELSE "format")
        \/ /\ offset < Len(cells)
           /\ record = "ok"
           /\ x.name # Trailer
           /\ acc' = [acc EXCEPT !.format = CpioMerge(@, h.magic),
                                 !.header = @ + (x.nameEnd - offset),
                                 !.names = @ + Len(x.name)]
           /\ entries' = Append(entries, CpioEntry(h, x))
           /\ offset' = x.end
           /\ ParseGoesOn
    BY DEF CpioRound
  <1>2. h.name \in Nat /\ h.size \in Nat
    BY CpioNumbers
  <1>3. CASE record # "ok"
    BY <1>1, <1>3 DEF CpioFails
  <1>4. CASE record = "ok"
    <2>1. /\ header = "ok"
          /\ FirstFailure(CpioRecordChecks(cells, h, x, Len(entries), acc)) = "ok"
      BY <1>4
    <2>2. h.magic \in DOMAIN CpioLayout
      BY <2>1, CpioHeaderHolds
    <2>3. x.dataEnd <= Len(cells)
      BY <2>1, CpioRecordHolds
    <2>4. /\ x.start \in Nat /\ x.start > offset
          /\ x.dataEnd = x.start + h.size
          /\ x.end \in Nat /\ x.end >= x.dataEnd
      BY <1>2, <2>2, CpioExtents
    <2> HIDE DEF x, h, record, header
    <2>5. CASE ParseFails("format")
      BY <2>5 DEF CpioFails
    <2>6. CASE /\ acc' = [acc EXCEPT !.format = CpioMerge(@, h.magic)]
               /\ offset' = x.end
               /\ UNCHANGED entries
               /\ OpenReturns(IF AllZero(cells, x.end, Len(cells)) THEN "ok" ELSE "format")
      <3>1. offset' \in Nat /\ offset' >= offset
        BY <1>2, <2>4, <2>6
      <3>2. \E r : OpenReturns(r)
        BY <2>6
      <3> QED
        BY <2>2, <2>6, <3>1, <3>2, Zenon DEF CpioEnds
    <2>7. CASE /\ acc' = [acc EXCEPT !.format = CpioMerge(@, h.magic),
                                     !.header = @ + (x.nameEnd - offset),
                                     !.names = @ + Len(x.name)]
               /\ entries' = Append(entries, CpioEntry(h, x))
               /\ offset' = x.end
               /\ ParseGoesOn
      <3> DEFINE e == CpioEntry(h, x)
      <3>1. e.start = x.start /\ e.end = x.dataEnd
        BY DEF CpioEntry
      <3> HIDE DEF e
      <3>2. /\ EntryOK(e) /\ e.start >= offset /\ e.end <= offset' /\ e.end <= Len(cells)
            /\ offset' \in Nat /\ offset' > offset
        BY <1>2, <2>3, <2>4, <2>7, <3>1 DEF EntryOK
      <3>3. entries' = Append(entries, e)
        BY <2>7 DEF e
      <3> DEFINE n == [header |-> x.nameEnd - offset, names |-> Len(x.name)]
      <3>4. acc' = [acc EXCEPT !.format = CpioMerge(@, h.magic), !.header = @ + n.header,
                               !.names = @ + n.names]
        BY <2>7
      <3> HIDE DEF n
      <3> QED
        BY <2>2, <2>7, <3>2, <3>3, <3>4, Zenon DEF CpioLists
    <2> QED
      BY <1>1, <1>4, <2>5, <2>6, <2>7
  <1> QED
    BY <1>3, <1>4

\* One more entry, behind those that there are.
LEMMA OneMoreEntry ==
  ASSUME EntriesOK, NEW cells, BehindEachOther(cells), NEW e, EntryOK(e),
         entries' = Append(entries, e), offset' \in Nat, offset' > offset,
         e.start >= offset, e.end <= offset', e.end <= Len(cells)
  PROVE  /\ EntriesOK'
         /\ \A i \in 1 .. Len(entries') :
              entries'[i].end <= offset' /\ entries'[i].end <= Len(cells)
         /\ \A i, j \in 1 .. Len(entries') : i < j => entries'[i].end <= entries'[j].start
         /\ Len(entries') = Len(entries) + 1 /\ entries'[Len(entries')] = e
         /\ \A i \in 1 .. Len(entries) : entries'[i] = entries[i]
         /\ Len(entries) \in Nat
  <1> DEFINE n == Len(entries)
  <1>1. IsVector(entries) /\ n \in Nat /\ \A i \in 1 .. n : EntryOK(entries[i])
    BY DEF EntriesOK, IsVector
  <1>2. /\ IsVector(entries') /\ Len(entries') = n + 1
        /\ \A i \in 1 .. n : entries'[i] = entries[i]
        /\ entries'[n + 1] = e
    BY <1>1, AppendVector
  <1>3. \A i \in 1 .. n + 1 : i \in 1 .. n \/ i = n + 1
    BY <1>1
  <1>4. EntriesOK'
    BY <1>1, <1>2, <1>3 DEF EntriesOK, EntryOK
  <1>5. \A i \in 1 .. n : entries[i].end <= offset /\ entries[i].end \in Nat
                          /\ entries[i].end <= Len(cells)
    BY <1>1 DEF BehindEachOther, EntryOK
  <1>6. offset \in Nat /\ e.start \in Nat
    BY DEF BehindEachOther, EntryOK
  <1>7. ASSUME NEW i \in 1 .. n + 1
        PROVE  entries'[i].end <= offset' /\ entries'[i].end <= Len(cells)
    BY <1>2, <1>3, <1>5, <1>6
  <1>8. ASSUME NEW i \in 1 .. n + 1, NEW j \in 1 .. n + 1, i < j
        PROVE  entries'[i].end <= entries'[j].start
    <2>1. i \in 1 .. n
      BY <1>1, <1>8
    <2>2. CASE j \in 1 .. n
      BY <1>2, <1>8, <2>1, <2>2 DEF BehindEachOther
    <2>3. CASE j = n + 1
      BY <1>2, <1>5, <1>6, <2>1, <2>3
    <2> QED
      BY <1>3, <2>2, <2>3
  <1> QED
    BY <1>1, <1>2, <1>4, <1>7, <1>8, Zenon
-----------------------------------------------------------------------------
\* The format after one more header, and the stage of the parser.
LEMMA MergedFormat ==
  ASSUME NEW format \in CpioFormats, NEW magic \in DOMAIN CpioLayout
  PROVE  /\ CpioMerge(format, magic) \in CpioFormats \ {"none", "start"}
         /\ \A a : a.format \in CpioFormats \ {"none"} => Stage(a) = 2
         /\ \A a : a.format \in CpioFormats => Stage(a) = 2 \/ Stage(a) = 0
  <1>1. magic \in {"newc", "crc", "odc", "binle", "binbe"}
        /\ CpioFormats = {"none", "start", "mixed", "newc", "crc", "odc", "binle", "binbe"}
    BY DEF CpioLayout, CpioFormats
  <1>2. CpioMerge(format, magic) \in {"mixed", "newc", "crc", "odc", "binle", "binbe"}
    BY <1>1 DEF CpioMerge
  <1> QED
    BY <1>1, <1>2 DEF Stage

\* The listing after a round that goes on, or that is the last one.
CpioAfter(cells) ==
  /\ EntriesOK' /\ offset' \in Nat
  /\ \A i \in 1 .. Len(entries') : entries'[i].end <= offset' /\ entries'[i].end <= Len(cells)
  /\ \A i, j \in 1 .. Len(entries') : i < j => entries'[i].end <= entries'[j].start
  /\ DOMAIN acc' = DOMAIN acc
  /\ acc'.format \in CpioFormats \ {"none", "start"}
  /\ acc'.payload = acc.payload

\* A CPIO entry is listed behind those before it, and the parser goes on behind it.
LEMMA CpioListed ==
  ASSUME NEW cells, CpioOK(cells), CpioLists(cells)
  PROVE  /\ CpioAfter(cells) /\ offset' > offset
         /\ Stage(acc') > Stage(acc) \/ Stage(acc') = Stage(acc)
  <1>1. PICK e : /\ entries' = Append(entries, e) /\ EntryOK(e)
                 /\ e.start >= offset /\ e.end <= offset' /\ e.end <= Len(cells)
    BY DEF CpioLists
  <1>2. PICK h, n : /\ acc' = [acc EXCEPT !.format = CpioMerge(@, h.magic),
                                          !.header = @ + n.header, !.names = @ + n.names]
                    /\ h.magic \in DOMAIN CpioLayout
    BY Zenon DEF CpioLists
  <1>3. offset' \in Nat /\ offset' > offset
    BY DEF CpioLists
  <1>4. EntriesOK /\ BehindEachOther(cells)
    BY DEF CpioOK
  <1>5. /\ EntriesOK'
        /\ \A i \in 1 .. Len(entries') :
             entries'[i].end <= offset' /\ entries'[i].end <= Len(cells)
        /\ \A i, j \in 1 .. Len(entries') : i < j => entries'[i].end <= entries'[j].start
    BY <1>1, <1>3, <1>4, OneMoreEntry
  <1>6. {"header", "names", "format"} \subseteq DOMAIN acc /\ acc.format \in CpioFormats
    BY DEF CpioOK
  <1>7. /\ DOMAIN acc' = DOMAIN acc /\ acc'.payload = acc.payload
        /\ acc'.format \in CpioFormats \ {"none", "start"}
        /\ Stage(acc') = 2 /\ (Stage(acc) = 2 \/ Stage(acc) = 0)
    <2> DEFINE p == acc.header + n.header
               q == acc.names + n.names
               v == CpioMerge(acc.format, h.magic)
    <2>1. acc' = [acc EXCEPT !.format = v, !.header = p, !.names = q]
      BY <1>2
    <2>2. v \in CpioFormats \ {"none", "start"}
      BY <1>2, <1>6, MergedFormat
    <2> HIDE DEF p, q, v
    <2>3. DOMAIN acc' = DOMAIN acc /\ acc'.payload = acc.payload /\ acc'.format = v
      BY <1>6, <2>1
    <2>4. Stage(acc') = 2 /\ (Stage(acc) = 2 \/ Stage(acc) = 0)
      BY <1>2, <1>6, <2>2, <2>3, MergedFormat, Zenon
    <2> QED
      BY <2>2, <2>3, <2>4
  <1> QED
    BY <1>3, <1>5, <1>7 DEF CpioAfter

\* The trailer ends the listing.
LEMMA CpioEnded ==
  ASSUME NEW cells, CpioOK(cells), CpioEnds(cells)
  PROVE  CpioAfter(cells)
  <1>1. PICK h : /\ acc' = [acc EXCEPT !.format = CpioMerge(@, h.magic)]
                 /\ h.magic \in DOMAIN CpioLayout
    BY DEF CpioEnds
  <1>2. entries' = entries /\ offset' \in Nat /\ offset' >= offset
    BY DEF CpioEnds
  <1>3. EntriesOK /\ BehindEachOther(cells)
    BY DEF CpioOK
  <1>4. EntriesOK'
    BY <1>2, <1>3 DEF EntriesOK, EntryOK
  <1>5. ASSUME NEW i \in 1 .. Len(entries')
        PROVE  entries'[i].end <= offset' /\ entries'[i].end <= Len(cells)
    BY <1>2, <1>3 DEF BehindEachOther, EntriesOK, EntryOK
  <1>6. \A i, j \in 1 .. Len(entries') : i < j => entries'[i].end <= entries'[j].start
    BY <1>2, <1>3 DEF BehindEachOther
  <1>7. {"header", "names", "format"} \subseteq DOMAIN acc /\ acc.format \in CpioFormats
    BY DEF CpioOK
  <1>8. /\ DOMAIN acc' = DOMAIN acc /\ acc'.payload = acc.payload
        /\ acc'.format \in CpioFormats \ {"none", "start"}
    BY <1>1, <1>7, MergedFormat
  <1> QED
    BY <1>2, <1>4, <1>5, <1>6, <1>8 DEF CpioAfter

\* Only one of the five readers is at work.
LEMMA OneFormat ==
  /\ \A f, g \in {"cpio", "zip", "rpm", "deb", "arj"} : Is(f) /\ f # g => ~ Is(g)
  /\ Is("cpio") /\ FormatOK => CpioOK(Cells)
  /\ Is("rpm") /\ FormatOK => RpmOK
  /\ Is("arj") /\ FormatOK => ArjOK
  /\ Is("deb") /\ FormatOK => DebOK
  /\ Is("zip") /\ FormatOK => ZipOK
  BY DEF Is, FormatOK

\* The CPIO reader's part of the invariant.
LEMMA CpioFormat ==
  ASSUME Is("cpio"), input' = input, CpioOK(Cells), CpioAfter(Cells)
  PROVE  FormatOK'
  <1>1. CpioOK(Cells)'
    BY DEF CpioOK, CpioAfter, Cells, BehindEachOther
  <1>2. ~ Is("rpm")' /\ ~ Is("arj")' /\ ~ Is("deb")' /\ ~ Is("zip")'
    BY DEF Is
  <1> QED
    BY <1>1, <1>2 DEF FormatOK

\* A round of the CPIO parser.
LEMMA CpioParseStep ==
  ASSUME Inv, CpioParse
  PROVE  Good
  <1>1. Is("cpio") /\ op = "open" /\ CpioRound(Cells)
    BY DEF CpioParse
  <1>2. CpioOK(Cells) /\ RecordsOK(Cells) /\ offset \in Nat
    <2>1. CpioOK(Cells)
      BY <1>1, OneFormat DEF Inv
    <2>2. CellsOK(Cells)
      BY DEF Inv, ControlOK
    <2> QED
      BY <2>1, <2>2, CellsAreRecords DEF CpioOK, BehindEachOther
  <1>3. CASE CpioFails
    BY <1>1, <1>3, FailsStep DEF CpioFails, ParseFails
  <1>4. CASE CpioLists(Cells)
    <2>1. /\ CpioAfter(Cells) /\ offset' > offset
          /\ Stage(acc') > Stage(acc) \/ Stage(acc') = Stage(acc)
      BY <1>2, <1>4, CpioListed
    <2>2. ParseGoesOn /\ input' = input
      BY <1>4 DEF CpioLists, ParseGoesOn
    <2>3. FormatOK'
      BY <1>1, <1>2, <2>1, <2>2, CpioFormat
    <2>4. offset' \in Int
      BY <2>1 DEF CpioAfter
    <2> QED
      BY <1>1, <2>1, <2>2, <2>3, <2>4, GoesOnStep
  <1>5. CASE CpioEnds(Cells)
    <2>1. CpioAfter(Cells)
      BY <1>2, <1>5, CpioEnded
    <2>2. PICK r : OpenReturns(r)
      BY <1>5 DEF CpioEnds
    <2>3. input' = input
      BY <2>2 DEF OpenReturns
    <2>4. FormatOK'
      BY <1>1, <1>2, <2>1, <2>3, CpioFormat
    <2>5. offset' \in Int
      BY <2>1 DEF CpioAfter
    <2> QED
      BY <1>1, <2>2, <2>4, <2>5, ListedStep
  <1> QED
    BY <1>1, <1>2, <1>3, <1>4, <1>5, CpioRounds
-----------------------------------------------------------------------------
\* An entry of the listing has numbers for its bounds.
LEMMA EntryThere ==
  ASSUME EntriesOK, NEW i \in DOMAIN entries
  PROVE  i \in 1 .. Len(entries) /\ EntryOK(entries[i])
         /\ entries[i].start \in Nat /\ entries[i].end \in Nat
         /\ entries[i].end - entries[i].start \in Int
  <1>1. DOMAIN entries = 1 .. Len(entries)
    BY VectorIsSeq DEF EntriesOK
  <1> QED
    BY <1>1 DEF EntriesOK, EntryOK

\* The index that a caller gives is a number.
LEMMA Indices ==
  ASSUME EntriesOK, NEW i \in 1 .. Len(entries) + 1
  PROVE  i \in Nat \ {0}
  BY VectorIsSeq DEF EntriesOK

\* The steps before a parser starts, and those behind it that are alike.
LEMMA SharedSteps ==
  ASSUME Inv, StatPath \/ ReadPath \/ StartOpen \/ VerifyDone \/ ExtractDone \/ WriteChunk
              \/ FinishEntry \/ Interrupt
  PROVE  Good
  BY StatStep, ReadStep, StartStep, VerifyDoneStep, ExtractDoneStep, WriteStep, FinishStep,
     InterruptStep

\* Every step of the CPIO reader.
LEMMA CpioNextStep ==
  ASSUME Inv, CpioNext
  PROVE  Good
  <1>1. CASE CpioReadPath
    BY <1>1, SharedSteps DEF CpioReadPath
  <1>2. CASE CpioOpenBytes
    BY <1>2, SharedSteps DEF CpioOpenBytes
  <1>3. CASE CpioParse
    BY <1>3, CpioParseStep
  <1>4. CASE CpioVerify
    BY <1>4, SharedSteps, VerifyStep DEF CpioVerify
  <1>5. CASE CpioWrite
    BY <1>5, SharedSteps DEF CpioWrite
  <1>6. Is("cpio") => EntriesOK /\ IsVector(Cells)
    BY OneFormat DEF Inv, ControlOK, CpioOK, CellsOK
  <1>7. ASSUME Is("cpio"), NEW i \in DOMAIN entries PROVE IsVector(CpioData(entries[i]))
    BY <1>6, <1>7, EntryThere, SliceLemma, Zenon DEF CpioData
  <1>8. CASE CpioExtractEntries
    <2>1. CASE ExtractDone
      BY <2>1, SharedSteps
    <2>2. CASE at \in DOMAIN entries
      BY <1>7, <1>8, <2>2, BeginStep, SharedSteps DEF CpioExtractEntries
    <2> QED
      BY <1>8, <2>1, <2>2 DEF CpioExtractEntries
  <1>9. CASE CpioExtractEntry
    <2>1. PICK i \in 1 .. Len(entries) + 1 :
            BeginAlone(i, CpioAlone(i), IF i \in DOMAIN entries THEN CpioData(entries[i]) ELSE << >>)
      BY <1>9 DEF CpioExtractEntry
    <2>2. i \in Nat \ {0}
      BY <1>6, <1>9, Indices DEF CpioExtractEntry
    <2>3. IsVector(IF i \in DOMAIN entries THEN CpioData(entries[i]) ELSE << >>)
      BY <1>7, <1>9, NoRecords DEF CpioExtractEntry
    <2> QED
      BY <2>1, <2>2, <2>3, AloneStep
  <1> QED
    BY <1>1, <1>2, <1>3, <1>4, <1>5, <1>8, <1>9 DEF CpioNext
-----------------------------------------------------------------------------
\* The RPM reader's part of the invariant.
LEMMA RpmFormat ==
  ASSUME Is("rpm"), input' = input, RpmOK'
  PROVE  FormatOK'
  BY DEF FormatOK, Is

\* Lead, signature and header of a package.
LEMMA RpmHeadersStep ==
  ASSUME Inv, RpmHeaders
  PROVE  Good
  <1>1. Is("rpm") /\ op = "open" /\ acc.format = "none" /\ offset = 0
    BY DEF RpmHeaders
  <1>2. \/ \E r : r # "ok" /\ ParseFails(r)
        \/ offset' = RpmMainAt + 1 /\ UNCHANGED <<acc, entries>> /\ ParseGoesOn
    BY DEF RpmHeaders
  <1>3. CASE \E r : r # "ok" /\ ParseFails(r)
    BY <1>1, <1>3, FailsStep DEF ParseFails
  <1>4. CASE offset' = RpmMainAt + 1 /\ UNCHANGED <<acc, entries>> /\ ParseGoesOn
    <2>1. offset' = 5
      BY <1>4 DEF RpmMainAt, RpmAlign
    <2>2. RpmOK'
      BY <1>1, <1>4, <2>1, OneFormat DEF Inv, RpmOK
    <2>3. FormatOK'
      BY <1>1, <1>4, <2>2, RpmFormat DEF ParseGoesOn
    <2> QED
      BY <1>1, <1>4, <2>1, <2>3, GoesOnStep
  <1> QED
    BY <1>2, <1>3, <1>4

\* The payload is decoded into records.
LEMMA RpmPayloadStep ==
  ASSUME Inv, RpmPayload
  PROVE  Good
  <1> DEFINE compressed == Slice(Cells, offset, Len(Cells))
             payload == ContainerOutput(RpmCompression, compressed)
  <1>1. Is("rpm") /\ op = "open" /\ acc.format = "none"
        /\ RpmPayloadWith(payload, RpmDecoded(compressed, payload))
    BY DEF RpmPayload
  <1>2. entries = << >> /\ offset \in Nat
    BY <1>1, OneFormat DEF Inv, RpmOK
  <1>3. RecordsOK(payload)
    <2>1. CellsOK(Cells) /\ Len(Cells) \in Int
      BY DEF Inv, ControlOK, CellsOK, IsVector
    <2>2. CellsOK(compressed)
      BY <1>2, <2>1, SliceCells
    <2> QED
      BY <2>2, ContainerRecords
  <1> HIDE DEF payload, compressed
  <1>4. \/ \E r : r # "ok" /\ ParseFails(r)
        \/ /\ acc' = [header |-> 0, names |-> 0, format |-> "start", payload |-> payload]
           /\ offset' = 0 /\ UNCHANGED entries /\ ParseGoesOn
    BY <1>1 DEF RpmPayloadWith
  <1>5. CASE \E r : r # "ok" /\ ParseFails(r)
    BY <1>1, <1>5, FailsStep DEF ParseFails
  <1>6. CASE /\ acc' = [header |-> 0, names |-> 0, format |-> "start", payload |-> payload]
             /\ offset' = 0 /\ UNCHANGED entries /\ ParseGoesOn
    <2>1. /\ DOMAIN acc' = {"header", "names", "format", "payload"}
          /\ acc'.format = "start" /\ acc'.payload = payload
      BY <1>6
    <2>2. EntriesOK' /\ BehindEachOther(acc.payload)'
      BY <1>2, <1>6, NoRecords DEF EntriesOK, BehindEachOther
    <2>3. RpmOK'
      BY <1>3, <2>1, <2>2 DEF RpmOK, CpioOK, CpioFormats
    <2>4. FormatOK'
      BY <1>1, <1>6, <2>3, RpmFormat DEF ParseGoesOn
    <2>5. Stage(acc') > Stage(acc)
      BY <1>1, <2>1 DEF Stage
    <2> QED
      BY <1>1, <1>6, <2>4, <2>5, GoesOnStep
  <1> QED
    BY <1>4, <1>5, <1>6

\* A round of the CPIO parser over the payload keeps the RPM reader's part.
LEMMA RpmParsed ==
  ASSUME Is("rpm"), input' = input, RpmOK, acc.format # "none", CpioAfter(acc.payload)
  PROVE  FormatOK'
  <1>1. acc'.payload = acc.payload /\ DOMAIN acc' = DOMAIN acc
    BY DEF CpioAfter
  <1>2. CpioOK(acc.payload)'
    BY <1>1 DEF RpmOK, CpioOK, CpioAfter, BehindEachOther
  <1>3. RpmOK'
    BY <1>1, <1>2 DEF RpmOK, CpioAfter
  <1> QED
    BY <1>3, RpmFormat

\* A round of the payload's parser.
LEMMA RpmParsePayloadStep ==
  ASSUME Inv, RpmParsePayload
  PROVE  Good
  <1>1. Is("rpm") /\ op = "open" /\ acc.format # "none" /\ CpioRound(acc.payload)
    BY DEF RpmParsePayload
  <1>2. RpmOK /\ CpioOK(acc.payload) /\ RecordsOK(acc.payload) /\ offset \in Nat
    BY <1>1, OneFormat DEF Inv, RpmOK, CpioOK, BehindEachOther
  <1>3. CASE CpioFails
    BY <1>1, <1>3, FailsStep DEF CpioFails, ParseFails
  <1>4. CASE CpioLists(acc.payload)
    <2>1. /\ CpioAfter(acc.payload) /\ offset' > offset
          /\ Stage(acc') > Stage(acc) \/ Stage(acc') = Stage(acc)
      BY <1>2, <1>4, CpioListed
    <2>2. ParseGoesOn /\ input' = input
      BY <1>4 DEF CpioLists, ParseGoesOn
    <2>3. FormatOK'
      BY <1>1, <1>2, <2>1, <2>2, RpmParsed
    <2>4. offset' \in Int
      BY <2>1 DEF CpioAfter
    <2> QED
      BY <1>1, <2>1, <2>2, <2>3, <2>4, GoesOnStep
  <1>5. CASE CpioEnds(acc.payload)
    <2>1. CpioAfter(acc.payload)
      BY <1>2, <1>5, CpioEnded
    <2>2. PICK r : OpenReturns(r)
      BY <1>5 DEF CpioEnds
    <2>3. input' = input
      BY <2>2 DEF OpenReturns
    <2>4. FormatOK'
      BY <1>1, <1>2, <2>1, <2>3, RpmParsed
    <2>5. offset' \in Int
      BY <2>1 DEF CpioAfter
    <2> QED
      BY <1>1, <2>2, <2>4, <2>5, ListedStep
  <1> QED
    BY <1>1, <1>2, <1>3, <1>4, <1>5, CpioRounds

\* Every step of the RPM reader.
LEMMA RpmNextStep ==
  ASSUME Inv, RpmNext
  PROVE  Good
  <1>1. CASE RpmReadPath
    BY <1>1, SharedSteps DEF RpmReadPath
  <1>2. CASE RpmOpenBytes
    BY <1>2, SharedSteps DEF RpmOpenBytes
  <1>3. CASE RpmHeaders \/ RpmPayload \/ RpmParsePayload
    BY <1>3, RpmHeadersStep, RpmPayloadStep, RpmParsePayloadStep
  <1>4. CASE RpmVerify
    BY <1>4, SharedSteps, VerifyStep DEF RpmVerify
  <1>5. CASE RpmWrite
    BY <1>5, SharedSteps DEF RpmWrite
  <1>6. Is("rpm") => EntriesOK /\ (entries # << >> => IsVector(acc.payload))
    <2>1. EntriesOK \/ entries # << >>
      BY NoRecords DEF EntriesOK
    <2> QED
      BY <2>1, OneFormat DEF Inv, RpmOK, CpioOK, RecordsOK
  <1>7. ASSUME Is("rpm"), NEW i \in DOMAIN entries PROVE IsVector(RpmData(entries[i]))
    <2>1. entries # << >>
      BY <1>6, <1>7, EntryThere, NoRecords
    <2> QED
      BY <1>6, <1>7, <2>1, EntryThere, SliceLemma, Zenon DEF RpmData
  <1>8. CASE RpmExtractEntries
    <2>1. CASE ExtractDone
      BY <2>1, SharedSteps
    <2>2. CASE at \in DOMAIN entries
      BY <1>7, <1>8, <2>2, BeginStep, SharedSteps DEF RpmExtractEntries
    <2> QED
      BY <1>8, <2>1, <2>2 DEF RpmExtractEntries
  <1>9. CASE RpmExtractEntry
    <2>1. PICK i \in 1 .. Len(entries) + 1 :
            BeginAlone(i, RpmAlone(i), IF i \in DOMAIN entries THEN RpmData(entries[i]) ELSE << >>)
      BY <1>9 DEF RpmExtractEntry
    <2>2. i \in Nat \ {0}
      BY <1>6, <1>9, Indices DEF RpmExtractEntry
    <2>3. IsVector(IF i \in DOMAIN entries THEN RpmData(entries[i]) ELSE << >>)
      BY <1>7, <1>9, NoRecords DEF RpmExtractEntry
    <2> QED
      BY <2>1, <2>2, <2>3, AloneStep
  <1> QED
    BY <1>1, <1>2, <1>3, <1>4, <1>5, <1>8, <1>9 DEF RpmNext
-----------------------------------------------------------------------------
(***************************************************************************)
(* ARJ                                                                     *)
(***************************************************************************)
\* The ARJ reader's part of the invariant.
LEMMA ArjFormat ==
  ASSUME Is("arj"), input' = input, ArjOK'
  PROVE  FormatOK'
  BY DEF FormatOK, Is

\* Where the scan succeeds there is a main header.
LEMMA ArjMainThere ==
  ASSUME CellsOK(Cells), LimitsOK(limits), ArjScan = "ok"
  PROVE  LET p == Min({q \in ArjCandidates : ArjStops(q)}) IN
         /\ p \in Nat /\ p + 1 \in 1 .. Len(Cells)
         /\ Cells[p + 1].csize \in Nat /\ Cells[p + 1].usize \in Nat
         /\ IsVector(Cells[p + 1].name)
  <1> DEFINE stops == {q \in ArjCandidates : ArjStops(q)}
             p == Min(stops)
  <1>1. Len(Cells) \in Nat /\ \A i \in 1 .. Len(Cells) : RecordOK(Cells[i])
    BY CellsAreRecords DEF CellsOK, IsVector, RecordsOK
  <1>2. stops # {}
    BY DEF ArjScan
  <1>3. \A q \in stops : /\ q \in Nat /\ q + 1 \in 1 .. Len(Cells)
                         /\ Cells[q + 1].k = "arj"
    <2>1. limits.sfx \in Nat
      BY DEF LimitsOK
    <2>2. ASSUME NEW q \in 0 .. Smaller(Len(Cells) - 1, limits.sfx)
          PROVE  q \in Nat /\ q <= Len(Cells) - 1
      BY <1>1, <2>1, <2>2 DEF Smaller
    <2>3. ASSUME NEW q \in Nat, q <= Len(Cells) - 1
          PROVE  q + 1 \in 1 .. Len(Cells)
      BY <1>1, <2>3
    <2> QED
      BY <2>2, <2>3 DEF ArjCandidates
  <1> HIDE DEF stops
  <1>4. stops \in SUBSET Nat
    BY <1>3
  <1>5. \E x \in stops : \A y \in stops : x <= y
    BY <1>2, <1>4, LeastElement
  <1>6. p \in stops
    BY <1>5 DEF Min
  <1> HIDE DEF p
  <1>7. /\ p \in Nat /\ p + 1 \in 1 .. Len(Cells) /\ Cells[p + 1].k = "arj"
        /\ RecordOK(Cells[p + 1])
    BY <1>1, <1>3, <1>6
  <1>8. Cells[p + 1].csize \in Nat /\ Cells[p + 1].usize \in Nat /\ IsVector(Cells[p + 1].name)
    BY <1>7 DEF RecordOK, Unsigned
  <1> QED
    BY <1>7, <1>8 DEF p, stops

\* The main header is found, wherever an SFX stub ends.
LEMMA ArjFindMainStep ==
  ASSUME Inv, ArjFindMain
  PROVE  Good
  <1> DEFINE p == Min({q \in ArjCandidates : ArjStops(q)})
             m == Cells[p + 1]
             result == IF ArjScan = "ok" THEN FirstFailure(ArjMainChecks(m)) ELSE ArjScan
  <1>1. Is("arj") /\ op = "open" /\ acc.format = "none" /\ CellsOK(Cells)
        /\ LimitsOK(limits)
    BY DEF ArjFindMain, Inv, ControlOK
  <1>2. entries = << >>
    BY <1>1, OneFormat DEF Inv, ArjOK
  <1>3. \/ result # "ok" /\ ParseFails(result)
        \/ /\ result = "ok"
           /\ acc' = [format |-> "main", header |-> m.size + ArjFraming, properties |-> 0,
                      names |-> Len(m.name), h |-> m]
           /\ offset' = p + 1 /\ UNCHANGED entries /\ ParseGoesOn
    BY DEF ArjFindMain
  <1>4. result = "ok" => p \in Nat /\ m.csize \in Nat /\ m.usize \in Nat
    <2>1. result = "ok" => ArjScan = "ok"
      OBVIOUS
    <2> QED
      BY <1>1, <2>1, ArjMainThere
  <1> HIDE DEF p, m, result
  <1>5. CASE result # "ok" /\ ParseFails(result)
    BY <1>1, <1>5, FailsStep DEF ParseFails
  <1>6. CASE /\ result = "ok"
             /\ acc' = [format |-> "main", header |-> m.size + ArjFraming, properties |-> 0,
                        names |-> Len(m.name), h |-> m]
             /\ offset' = p + 1 /\ UNCHANGED entries /\ ParseGoesOn
    <2>1. /\ DOMAIN acc' = {"format", "header", "properties", "names", "h"}
          /\ acc'.format = "main" /\ acc'.h = m
      BY <1>6
    <2>2. /\ EntriesOK' /\ BehindEachOther(Cells)'
          /\ \A i \in 1 .. Len(entries') : entries'[i].size \in Nat
      BY <1>2, <1>4, <1>6, NoRecords DEF EntriesOK, BehindEachOther
    <2>3. ArjOK'
      BY <1>4, <1>6, <2>1, <2>2 DEF ArjOK
    <2>4. FormatOK'
      BY <1>1, <1>6, <2>3, ArjFormat DEF ParseGoesOn
    <2>5. Stage(acc') > Stage(acc)
      BY <1>1, <2>1 DEF Stage
    <2>6. offset' \in Int
      BY <1>4, <1>6
    <2> QED
      BY <1>1, <1>6, <2>4, <2>5, <2>6, GoesOnStep
  <1> QED
    BY <1>3, <1>5, <1>6

\* A header more was read: the listing stays as it is.
LEMMA ArjHeaderRead ==
  ASSUME Inv, Is("arj"), op = "open", acc.format # "none",
         acc'.format \in {"main", "headers", "member"}, DOMAIN acc' = DOMAIN acc,
         acc'.h.csize \in Nat, acc'.h.usize \in Nat,
         offset' = offset + 1, UNCHANGED entries, ParseGoesOn
  PROVE  Good
  <1>1. ArjOK /\ offset \in Nat
    BY OneFormat DEF Inv, ArjOK, BehindEachOther
  <1>2. offset' \in Nat /\ offset' > offset /\ Cells' = Cells
    BY <1>1 DEF ParseGoesOn, Cells
  <1>3. EntriesOK'
    BY <1>1 DEF ArjOK, EntriesOK, EntryOK
  <1>4. ASSUME NEW i \in 1 .. Len(entries)
        PROVE  entries[i].end <= offset' /\ entries[i].end <= Len(Cells)
    BY <1>1, <1>2 DEF ArjOK, BehindEachOther, EntriesOK, EntryOK
  <1>5. BehindEachOther(Cells)'
    BY <1>1, <1>2, <1>4 DEF ArjOK, BehindEachOther
  <1>6. ArjOK'
    BY <1>1, <1>3, <1>5 DEF ArjOK
  <1>7. FormatOK'
    BY <1>6, ArjFormat DEF ParseGoesOn
  <1>8. Stage(acc') = 1 /\ Stage(acc) = 1
    BY <1>1 DEF Stage, ArjOK
  <1> QED
    BY <1>2, <1>7, <1>8, GoesOnStep

\* A member whose extensions were read is listed.
LEMMA ArjMemberRead ==
  ASSUME Inv, Is("arj"), op = "open", acc.format = "member",
         acc'.format = "headers", DOMAIN acc' = DOMAIN acc, acc'.h = acc.h,
         entries' = Append(entries, ArjEntry(acc.h, offset + 1)),
         offset' = offset + 1 + acc.h.csize, offset + 1 + acc.h.csize <= Len(Cells),
         ParseGoesOn
  PROVE  Good
  <1> DEFINE e == ArjEntry(acc.h, offset + 1)
  <1>1. ArjOK /\ offset \in Nat /\ acc.h.csize \in Nat /\ acc.h.usize \in Nat
        /\ EntriesOK /\ BehindEachOther(Cells)
    BY OneFormat DEF Inv, ArjOK, BehindEachOther
  <1>2. /\ e.start = offset + 1 /\ e.end = offset + 1 + acc.h.csize /\ e.size = acc.h.usize
        /\ entries' = Append(entries, e)
    BY DEF ArjEntry
  <1> HIDE DEF e
  <1>3. EntryOK(e) /\ e.start >= offset /\ e.end <= offset' /\ e.end <= Len(Cells)
        /\ offset' \in Nat /\ offset' > offset /\ e.size \in Nat
    BY <1>1, <1>2 DEF EntryOK
  <1>4. /\ EntriesOK'
        /\ \A i \in 1 .. Len(entries') :
             entries'[i].end <= offset' /\ entries'[i].end <= Len(Cells)
        /\ \A i, j \in 1 .. Len(entries') : i < j => entries'[i].end <= entries'[j].start
        /\ Len(entries') = Len(entries) + 1 /\ entries'[Len(entries')] = e
        /\ \A i \in 1 .. Len(entries) : entries'[i] = entries[i]
        /\ Len(entries) \in Nat
    BY <1>1, <1>2, <1>3, OneMoreEntry, Zenon
  <1>5. BehindEachOther(Cells)'
    <2>1. Cells' = Cells
      BY DEF ParseGoesOn, Cells
    <2> QED
      BY <1>3, <1>4, <2>1, Zenon DEF BehindEachOther
  <1>6. ASSUME NEW i \in 1 .. Len(entries')
        PROVE  entries'[i].size \in Nat
    <2>1. i \in 1 .. Len(entries) \/ i = Len(entries')
      BY <1>4
    <2> QED
      BY <1>1, <1>3, <1>4, <2>1, Zenon DEF ArjOK
  <1>7. ArjOK'
    BY <1>1, <1>4, <1>5, <1>6 DEF ArjOK
  <1>8. FormatOK'
    BY <1>7, ArjFormat DEF ParseGoesOn
  <1>9. Stage(acc') = 1 /\ Stage(acc) = 1
    BY DEF Stage
  <1> QED
    BY <1>3, <1>8, <1>9, GoesOnStep

\* A member that passed ends inside the archive.
LEMMA ArjMemberFits ==
  ASSUME NEW h, NEW start, FirstFailure(ArjMemberChecks(h, start)) = "ok"
  PROVE  start + h.csize <= Len(Cells)
  <1> DEFINE s == ArjMemberChecks(h, start)
  <1>1. Checks(s) /\ Len(s) = 4
    BY DEF ArjMemberChecks, Checks, IsVector
  <1>2. s[1][1]
    BY <1>1, AllHold
  <1> QED
    BY <1>2, Zenon DEF ArjMemberChecks

\* A round over a header's extensions.
LEMMA ArjExtensionsStep ==
  ASSUME Inv, ArjExtensions
  PROVE  Good
  <1> DEFINE x == RecordAt(Cells, offset, "arjext", ArjNoExtended)
             end == FirstFailure(IF acc.format = "main" THEN ArjVolumeChecks(acc.h)
                                 ELSE ArjMemberChecks(acc.h, offset + 1))
             own == FirstFailure(ArjExtendedChecks(x))
             result == IF own # "ok" \/ x.size # 0 THEN own ELSE end
  <1>1. Is("arj") /\ op = "open" /\ acc.format \in {"main", "member"}
    BY DEF ArjExtensions
  <1>2. /\ {"format", "header", "properties", "names", "h"} \subseteq DOMAIN acc
        /\ acc.h.csize \in Nat /\ acc.h.usize \in Nat /\ offset \in Nat
    BY <1>1, OneFormat DEF Inv, ArjOK, BehindEachOther
  <1>3. \/ result # "ok" /\ ParseFails(result)
        \/ /\ acc' = [acc EXCEPT !.header = @ + ArjFraming + x.size, !.properties = @ + 1]
           /\ offset' = offset + 1 /\ UNCHANGED entries /\ ParseGoesOn
        \/ /\ acc' = [acc EXCEPT !.header = @ + 1, !.format = "headers"]
           /\ offset' = offset + 1 /\ UNCHANGED entries /\ ParseGoesOn
        \/ /\ result = "ok" /\ x.size = 0 /\ acc.format = "member"
           /\ acc' = [acc EXCEPT !.header = @ + 1, !.format = "headers",
                                 !.names = @ + Len(acc.h.name)]
           /\ entries' = Append(entries, ArjEntry(acc.h, offset + 1))
           /\ offset' = offset + 1 + acc.h.csize
           /\ ParseGoesOn
    BY DEF ArjExtensions
  <1>4. result = "ok" /\ x.size = 0 /\ acc.format = "member"
        => offset + 1 + acc.h.csize <= Len(Cells)
    BY ArjMemberFits
  <1> HIDE DEF x, end, own, result
  <1>5. CASE result # "ok" /\ ParseFails(result)
    BY <1>1, <1>5, FailsStep DEF ParseFails
  <1>6. CASE /\ acc' = [acc EXCEPT !.header = @ + ArjFraming + x.size, !.properties = @ + 1]
             /\ offset' = offset + 1 /\ UNCHANGED entries /\ ParseGoesOn
    <2>1. DOMAIN acc' = DOMAIN acc /\ acc'.format = acc.format /\ acc'.h = acc.h
      BY <1>2, <1>6
    <2> QED
      BY <1>1, <1>2, <1>6, <2>1, ArjHeaderRead
  <1>7. CASE /\ acc' = [acc EXCEPT !.header = @ + 1, !.format = "headers"]
             /\ offset' = offset + 1 /\ UNCHANGED entries /\ ParseGoesOn
    <2>1. DOMAIN acc' = DOMAIN acc /\ acc'.format = "headers" /\ acc'.h = acc.h
      BY <1>2, <1>7
    <2> QED
      BY <1>1, <1>2, <1>7, <2>1, ArjHeaderRead
  <1>8. CASE /\ result = "ok" /\ x.size = 0 /\ acc.format = "member"
             /\ acc' = [acc EXCEPT !.header = @ + 1, !.format = "headers",
                                   !.names = @ + Len(acc.h.name)]
             /\ entries' = Append(entries, ArjEntry(acc.h, offset + 1))
             /\ offset' = offset + 1 + acc.h.csize
             /\ ParseGoesOn
    <2>1. DOMAIN acc' = DOMAIN acc /\ acc'.format = "headers" /\ acc'.h = acc.h
      BY <1>2, <1>8
    <2> QED
      BY <1>1, <1>4, <1>8, <2>1, ArjMemberRead
  <1> QED
    BY <1>3, <1>5, <1>6, <1>7, <1>8

\* A local header that passed is one.
LEMMA ArjLocalHolds ==
  ASSUME NEW h, FirstFailure(ArjLocalChecks(h)) = "ok"
  PROVE  h.k = "arj"
  <1> DEFINE s == << <<h.k = "arj", "format">>,
                     <<h.size <= ArjMaxHeader, "format">>,
                     <<h.size <= limits.header, "limit">>,
                     <<h.crc, "checksum">>,
                     <<acc.header + h.size + ArjFraming <= limits.header, "limit">>,
                     <<h.fields, "format">>,
                     <<h.name # << >>, "format">> >>
             t == ArjStringChecks(h)
             u == << <<{"volume", "extended"} \cap h.flags = {} /\ h.chapters = 0, "unsupported">> >>
  <1>1. Checks(s) /\ Len(s) = 7
    BY DEF Checks, IsVector
  <1>2. Checks(t)
    BY DEF ArjStringChecks, Checks, IsVector
  <1>3. Checks(u)
    BY DEF Checks, IsVector
  <1>4. ArjLocalChecks(h) = (s \o t) \o u
    BY DEF ArjLocalChecks
  <1>5. s[1][1] = (h.k = "arj")
    OBVIOUS
  <1> HIDE DEF s, t, u
  <1>6. Checks(s \o t)
    BY <1>1, <1>2, ConcatChecks
  <1>7. IsVector(s \o t) /\ Len(s \o t) = 7 + Len(t) /\ Len(t) \in Nat
        /\ (s \o t)[1] = s[1]
    <2>1. IsVector(s) /\ IsVector(t) /\ Len(t) \in Nat
      BY <1>1, <1>2 DEF Checks, IsVector
    <2>2. /\ IsVector(s \o t) /\ Len(s \o t) = Len(s) + Len(t)
          /\ \A i \in 1 .. Len(s \o t) :
               (s \o t)[i] = IF i <= Len(s) THEN s[i] ELSE t[i - Len(s)]
      BY <2>1, ConcatVector
    <2>3. 1 \in 1 .. Len(s \o t) /\ 1 <= Len(s)
      BY <1>1, <2>1, <2>2
    <2>4. (s \o t)[1] = s[1]
      BY <2>2, <2>3
    <2> QED
      BY <1>1, <2>1, <2>2, <2>4
  <1>8. \A i \in 1 .. Len(s \o t) : (s \o t)[i][1]
    BY <1>3, <1>4, <1>6, ConcatChecks, Zenon
  <1>9. 1 \in 1 .. Len(s \o t)
    BY <1>7
  <1> QED
    BY <1>5, <1>7, <1>8, <1>9, Zenon

\* A local header is read, or the end of the archive.
LEMMA ArjLocalStep ==
  ASSUME Inv, ArjLocal
  PROVE  Good
  <1> DEFINE h == RecordAt(Cells, offset, "arj", ArjNone)
             result == FirstFailure(ArjLocalChecks(h))
  <1>1. Is("arj") /\ op = "open" /\ acc.format = "headers" /\ CellsOK(Cells)
    BY DEF ArjLocal, Inv, ControlOK
  <1>2. {"format", "header", "properties", "names", "h"} \subseteq DOMAIN acc
    BY <1>1, OneFormat DEF Inv, ArjOK
  <1>3. \/ OpenReturns("ok") /\ UNCHANGED parseVars
        \/ result # "ok" /\ ParseFails(result)
        \/ /\ result = "ok"
           /\ acc' = [acc EXCEPT !.format = "member", !.header = @ + h.size + ArjFraming, !.h = h]
           /\ offset' = offset + 1 /\ UNCHANGED entries /\ ParseGoesOn
    BY DEF ArjLocal
  <1>4. CASE OpenReturns("ok") /\ UNCHANGED parseVars
    <2>1. input' = input /\ UNCHANGED parseVars /\ ~ Is("zip")
      BY <1>1, <1>4 DEF OpenReturns, Is
    <2>2. FormatOK'
      BY <2>1, FormatStays DEF Inv, parseVars
    <2>3. offset' \in Int
      BY <2>1 DEF Inv, ControlOK, parseVars
    <2> QED
      BY <1>1, <1>4, <2>2, <2>3, ListedStep
  <1>5. CASE result # "ok" /\ ParseFails(result)
    BY <1>1, <1>5, FailsStep DEF ParseFails
  <1>6. CASE /\ result = "ok"
             /\ acc' = [acc EXCEPT !.format = "member", !.header = @ + h.size + ArjFraming, !.h = h]
             /\ offset' = offset + 1 /\ UNCHANGED entries /\ ParseGoesOn
    <2>1. h.k = "arj"
      BY <1>6, ArjLocalHolds
    <2>2. ArjNone.k = "none"
      BY DEF ArjNone, ArjMain, ArjHeader
    <2>3. RecordOK(h)
      BY <1>1, <2>1, <2>2, RecordFound DEF CellOK
    <2> HIDE DEF h, result
    <2>4. h.csize \in Nat /\ h.usize \in Nat
      BY <2>1, <2>3 DEF RecordOK, Unsigned
    <2>5. DOMAIN acc' = DOMAIN acc /\ acc'.format = "member" /\ acc'.h = h
      BY <1>2, <1>6
    <2> QED
      BY <1>1, <1>6, <2>4, <2>5, ArjHeaderRead
  <1> QED
    BY <1>3, <1>4, <1>5, <1>6

\* Every step of the ARJ reader.
LEMMA ArjNextStep ==
  ASSUME Inv, ArjNext
  PROVE  Good
  <1>1. CASE ArjReadPath
    BY <1>1, SharedSteps DEF ArjReadPath
  <1>2. CASE ArjOpenBytes
    BY <1>2, SharedSteps DEF ArjOpenBytes
  <1>3. CASE ArjFindMain \/ ArjExtensions \/ ArjLocal
    BY <1>3, ArjFindMainStep, ArjExtensionsStep, ArjLocalStep
  <1>4. CASE ArjVerify
    BY <1>4, SharedSteps, VerifyStep DEF ArjVerify
  <1>5. CASE ArjWrite
    BY <1>5, SharedSteps DEF ArjWrite
  <1>6. Is("arj") => EntriesOK /\ CellsOK(Cells) /\ \A i \in 1 .. Len(entries) : entries[i].size \in Nat
    BY OneFormat DEF Inv, ControlOK, ArjOK
  <1>7. ASSUME Is("arj"), NEW i \in DOMAIN entries PROVE IsVector(ArjOutput(entries[i]))
    BY <1>6, <1>7, EntryThere, ArjContent
  <1>8. CASE ArjExtractEntries
    <2>1. CASE ExtractDone
      BY <2>1, SharedSteps
    <2>2. CASE at \in DOMAIN entries
      BY <1>7, <1>8, <2>2, BeginStep, SharedSteps DEF ArjExtractEntries
    <2> QED
      BY <1>8, <2>1, <2>2 DEF ArjExtractEntries
  <1>9. CASE ArjExtractEntry
    <2>1. PICK i \in 1 .. Len(entries) + 1 :
            BeginAlone(i, ArjAlone(i), IF i \in DOMAIN entries THEN ArjOutput(entries[i]) ELSE << >>)
      BY <1>9 DEF ArjExtractEntry
    <2>2. i \in Nat \ {0}
      BY <1>6, <1>9, Indices DEF ArjExtractEntry
    <2>3. IsVector(IF i \in DOMAIN entries THEN ArjOutput(entries[i]) ELSE << >>)
      BY <1>7, <1>9, NoRecords DEF ArjExtractEntry
    <2> QED
      BY <2>1, <2>2, <2>3, AloneStep
  <1> QED
    BY <1>1, <1>2, <1>3, <1>4, <1>5, <1>8, <1>9 DEF ArjNext
-----------------------------------------------------------------------------
(***************************************************************************)
(* Debian: the members of the package                                      *)
(***************************************************************************)
\* The Debian reader's part of the invariant.
LEMMA DebFormat ==
  ASSUME Is("deb"), input' = input, DebOK'
  PROVE  FormatOK'
  BY DEF FormatOK, Is

\* A package without a listing so far.
LEMMA DebEmpty ==
  ASSUME entries = << >>, offset \in Nat,
         acc.format \in {"none", "ar", "control", "data"},
         acc.format = "ar" =>
           /\ {"header", "names", "format", "members"} \subseteq DOMAIN acc
           /\ IsVector(acc.members) /\ \A i \in 1 .. Len(acc.members) : MemberOK(acc.members[i]),
         acc.format \in {"control", "data"} => DebParserOK
  PROVE  DebOK
  BY NoRecords DEF DebOK, EntriesOK

\* With nothing listed yet, that is the parser's own state.
LEMMA DebEmptyNext ==
  (/\ entries = << >> /\ offset \in Nat
   /\ acc.format \in {"none", "ar", "control", "data"}
   /\ acc.format = "ar" =>
        /\ {"header", "names", "format", "members"} \subseteq DOMAIN acc
        /\ IsVector(acc.members) /\ \A i \in 1 .. Len(acc.members) : MemberOK(acc.members[i])
   /\ acc.format \in {"control", "data"} => DebParserOK)'
  => DebOK'
  BY DebEmpty, PTL

\* The ar archive begins.
LEMMA DebStartStep ==
  ASSUME Inv, DebStart
  PROVE  Good
  <1>1. Is("deb") /\ op = "open" /\ acc.format = "none"
    BY DEF DebStart
  <1>2. entries = << >>
    BY <1>1, OneFormat DEF Inv, DebOK
  <1>3. CASE ParseFails("limit") \/ ParseFails("format")
    BY <1>1, <1>3, FailsStep DEF ParseFails
  <1>4. CASE /\ acc' = [header |-> 0, names |-> 0, format |-> "ar", members |-> << >>]
             /\ offset' = 1 /\ UNCHANGED entries /\ ParseGoesOn
    <2>1. /\ DOMAIN acc' = {"header", "names", "format", "members"}
          /\ acc'.format = "ar" /\ acc'.members = << >>
      BY <1>4
    <2>2. DebOK'
      BY <1>2, <1>4, <2>1, NoRecords, DebEmptyNext
    <2>3. FormatOK'
      BY <1>1, <1>4, <2>2, DebFormat DEF ParseGoesOn
    <2>4. Stage(acc') > Stage(acc)
      BY <1>1, <2>1 DEF Stage
    <2> QED
      BY <1>1, <1>4, <2>3, <2>4, GoesOnStep
  <1> QED
    BY <1>3, <1>4 DEF DebStart

\* An ar member is noted.
LEMMA DebArMemberStep ==
  ASSUME Inv, DebArMember
  PROVE  Good
  <1> DEFINE h == RecordAt(Cells, offset, "ar", ArNone)
             result == FirstFailure(ArChecks(h))
             m == DebMember(h)
  <1>1. Is("deb") /\ op = "open" /\ acc.format = "ar" /\ CellsOK(Cells)
    BY DEF DebArMember, Inv, ControlOK
  <1>2. /\ entries = << >> /\ offset \in Nat
        /\ {"header", "names", "format", "members"} \subseteq DOMAIN acc
        /\ IsVector(acc.members) /\ \A i \in 1 .. Len(acc.members) : MemberOK(acc.members[i])
    BY <1>1, OneFormat DEF Inv, DebOK
  <1>3. \/ result # "ok" /\ ParseFails(result)
        \/ /\ acc' = [acc EXCEPT !.header = @ + 1, !.names = @ + h.length,
                                 !.members = Append(@, m)]
           /\ offset' = offset + 1 + h.size + (h.size % 2)
           /\ UNCHANGED entries /\ ParseGoesOn
    BY DEF DebArMember
  <1>4. h.size \in Nat
    <2>1. h = ArNone \/ (CellOK(h) /\ h.k = "ar")
      BY <1>1, RecordFound
    <2>2. ArNone.size = 0
      BY DEF ArNone, ArHeader
    <2> HIDE DEF h
    <2>3. CellOK(h) /\ h.k = "ar" => h.size \in Nat
      BY DEF CellOK, RecordOK, Unsigned
    <2> QED
      BY <2>1, <2>2, <2>3
  <1>5. MemberOK(m)
    <2>1. m.start = offset + 1 /\ m.end = offset + 1 + h.size
      BY DEF DebMember
    <2> HIDE DEF m, h
    <2> QED
      BY <1>2, <1>4, <2>1 DEF MemberOK
  <1> HIDE DEF h, m, result
  <1>6. CASE result # "ok" /\ ParseFails(result)
    BY <1>1, <1>6, FailsStep DEF ParseFails
  <1>7. CASE /\ acc' = [acc EXCEPT !.header = @ + 1, !.names = @ + h.length,
                                   !.members = Append(@, m)]
             /\ offset' = offset + 1 + h.size + (h.size % 2)
             /\ UNCHANGED entries /\ ParseGoesOn
    <2>1. /\ DOMAIN acc' = DOMAIN acc /\ acc'.format = "ar"
          /\ acc'.members = Append(acc.members, m)
      BY <1>1, <1>2, <1>7
    <2>2. offset' \in Nat /\ offset' > offset
      BY <1>2, <1>4, <1>7
    <2>3. /\ IsVector(acc'.members) /\ Len(acc'.members) = Len(acc.members) + 1
          /\ \A i \in 1 .. Len(acc.members) : acc'.members[i] = acc.members[i]
          /\ acc'.members[Len(acc.members) + 1] = m
      BY <1>2, <2>1, AppendVector
    <2>4. Len(acc.members) \in Nat
      BY <1>2 DEF IsVector
    <2>5. ASSUME NEW i \in 1 .. Len(acc'.members) PROVE MemberOK(acc'.members[i])
      <3>1. i \in 1 .. Len(acc.members) \/ i = Len(acc.members) + 1
        BY <2>3, <2>4
      <3> QED
        BY <1>2, <1>5, <2>3, <3>1, Zenon DEF MemberOK
    <2>7. DebOK'
      <3>1. entries' = << >> /\ acc'.format = "ar"
            /\ {"header", "names", "format", "members"} \subseteq DOMAIN acc'
        BY <1>2, <1>7, <2>1
      <3> QED
        BY <2>2, <2>3, <2>5, <3>1, DebEmptyNext DEF MemberOK
    <2>8. FormatOK'
      BY <1>1, <1>7, <2>7, DebFormat DEF ParseGoesOn
    <2>9. Stage(acc') = Stage(acc)
      BY <1>1, <2>1 DEF Stage
    <2> QED
      BY <1>1, <1>7, <2>2, <2>8, <2>9, GoesOnStep
  <1> QED
    BY <1>3, <1>6, <1>7

\* The member of a name that was seen.
LEMMA DebArchiveThere ==
  ASSUME CellsOK(Cells), IsVector(acc.members),
         \A i \in 1 .. Len(acc.members) : MemberOK(acc.members[i]),
         NEW name, DebSeen(Len(acc.members) + 1, name)
  PROVE  CellsOK(DebData(DebArchive(name)))
  <1> DEFINE S == {i \in DOMAIN acc.members : acc.members[i].name = name}
             m == DebArchive(name)
  <1>1. Len(acc.members) \in Nat /\ DOMAIN acc.members = 1 .. Len(acc.members)
    BY VectorIsSeq
  <1>2. (Len(acc.members) + 1) - 1 = Len(acc.members)
    BY <1>1
  <1>3. S # {} /\ S \in SUBSET (1 .. Len(acc.members))
    BY <1>1, <1>2 DEF DebSeen
  <1>4. m = acc.members[Max(S)]
    BY DEF DebArchive
  <1> HIDE DEF S, m
  <1>5. Max(S) \in 1 .. Len(acc.members)
    BY <1>1, <1>3, LastOf, Zenon
  <1>6. m.start \in Nat /\ m.end \in Nat
    BY <1>4, <1>5 DEF MemberOK
  <1>7. m.end - m.start \in Int
    BY <1>6
  <1>8. CellsOK(DebData(m))
    BY <1>6, <1>7, SliceCells DEF DebData
  <1> QED
    BY <1>8 DEF m

\* A package that passed has a control and a data member.
LEMMA DebMembersHold ==
  ASSUME IsVector(acc.members), FirstFailure(DebMemberChecks) = "ok"
  PROVE  DebSeen(Len(acc.members) + 1, "control") /\ DebSeen(Len(acc.members) + 1, "data")
  <1> DEFINE s == DebMemberChecks
  <1>1. IsVector(s) /\ Len(s) = 7
    BY DEF DebMemberChecks, IsVector
  <1>2. s[1][2] = "format" /\ s[2][2] = "format" /\ s[3][2] = "unsupported"
        /\ s[5][2] = "limit" /\ s[6][2] = "format" /\ s[7][2] = "format"
    BY DEF DebMemberChecks
  <1>3. s[4][1] \/ s[4][2] # "ok"
    BY Zenon DEF DebMemberChecks
  <1>4. /\ s[6][1] = DebSeen(Len(acc.members) + 1, "control")
        /\ s[7][1] = DebSeen(Len(acc.members) + 1, "data")
    BY DEF DebMemberChecks
  <1>5. FirstFailure(s) = "ok"
    OBVIOUS
  <1> HIDE DEF s
  <1>6. \A i \in 1 .. 7 : i \in {1, 2, 3, 4, 5, 6, 7}
    OBVIOUS
  <1>7. Checks(s)
    BY <1>1, <1>2, <1>3, <1>6 DEF Checks
  <1>8. \A i \in 1 .. 7 : s[i][1]
    BY <1>1, <1>5, <1>7, AllHold, Zenon
  <1>9. 6 \in 1 .. 7 /\ 7 \in 1 .. 7
    OBVIOUS
  <1> QED
    BY <1>4, <1>8, <1>9

\* The two members are decoded, and the listing of the first begins.
LEMMA DebMembersStep ==
  ASSUME Inv, DebMembers
  PROVE  Good
  <1> DEFINE result == FirstFailure(DebMemberChecks)
             c == DebArchive("control")
             d == DebArchive("data")
             control == ContainerOutput(c.codec, DebData(c))
             data == ContainerOutput(d.codec, DebData(d))
  <1>1. Is("deb") /\ op = "open" /\ acc.format = "ar" /\ CellsOK(Cells)
    BY DEF DebMembers, Inv, ControlOK
  <1>2. /\ entries = << >>
        /\ IsVector(acc.members) /\ \A i \in 1 .. Len(acc.members) : MemberOK(acc.members[i])
    BY <1>1, OneFormat DEF Inv, DebOK
  <1>3. \/ \E r : r # "ok" /\ ParseFails(r)
        \/ /\ result = "ok"
           /\ acc' = [header |-> Len(acc.members) + 1, names |-> acc.names,
                      format |-> "control", members |-> acc.members, properties |-> 0,
                      control |-> control, data |-> data,
                      global |-> PaxNone, local |-> << >>, longName |-> NoName,
                      longLink |-> NoName]
           /\ offset' = 0 /\ UNCHANGED entries /\ ParseGoesOn
    BY DEF DebMembers, DebDecode, DebDecodeWith
  <1>4. result = "ok" => RecordsOK(control) /\ RecordsOK(data)
    BY <1>1, <1>2, DebMembersHold, DebArchiveThere, ContainerRecords
  <1> HIDE DEF control, data, result
  <1>5. CASE \E r : r # "ok" /\ ParseFails(r)
    BY <1>1, <1>5, FailsStep DEF ParseFails
  <1>6. CASE /\ result = "ok"
             /\ acc' = [header |-> Len(acc.members) + 1, names |-> acc.names,
                        format |-> "control", members |-> acc.members, properties |-> 0,
                        control |-> control, data |-> data,
                        global |-> PaxNone, local |-> << >>, longName |-> NoName,
                        longLink |-> NoName]
             /\ offset' = 0 /\ UNCHANGED entries /\ ParseGoesOn
    <2>1. /\ DOMAIN acc' = {"header", "names", "format", "members", "properties", "control",
                            "data", "global", "local", "longName", "longLink"}
          /\ acc'.format = "control" /\ acc'.control = control /\ acc'.data = data
          /\ acc'.global = PaxNone /\ acc'.local = << >>
      BY <1>6
    <2>2. PaxNone.size = NoSize
      BY DEF PaxNone
    <2>3. DebParserOK'
      BY <1>4, <1>6, <2>1, <2>2 DEF DebParserOK, PaxOK
    <2>4. DebOK'
      BY <1>2, <1>6, <2>1, <2>3, DebEmptyNext
    <2>5. FormatOK'
      BY <1>1, <1>6, <2>4, DebFormat DEF ParseGoesOn
    <2>6. Stage(acc') > Stage(acc)
      BY <1>1, <2>1 DEF Stage
    <2> QED
      BY <1>1, <1>6, <2>5, <2>6, GoesOnStep
  <1> QED
    BY <1>3, <1>5, <1>6
-----------------------------------------------------------------------------
(***************************************************************************)
(* Debian: the two tars                                                    *)
(***************************************************************************)

\* The next record begins behind this one.
LEMMA TarForward ==
  ASSUME offset \in Nat, NEW size \in Nat
  PROVE  /\ TarNext(size) \in Nat /\ TarNext(size) > offset
         /\ TarNext(size) >= offset + TarBlock + size
  <1> DEFINE end == offset + TarBlock + size
             r == end % TarBlock
  <1>1. TarBlock = 2
    BY DEF TarBlock
  <1>2. end \in Nat /\ end > offset /\ end >= offset + TarBlock + size
    BY <1>1
  <1>3. r \in 0 .. 1
    BY <1>1, <1>2
  <1>4. TarNext(size) = IF r = 0 THEN end ELSE end + TarBlock - r
    BY DEF TarNext
  <1> HIDE DEF end, r
  <1> QED
    BY <1>1, <1>2, <1>3, <1>4

\* The size a pax record gives is a number.
LEMMA PaxSize ==
  ASSUME NEW cells, RecordsOK(cells), NEW base, PaxOK(base)
  PROVE  PaxOK(PaxValues(cells, base))
  <1> DEFINE places == {i \in DOMAIN cells : cells[i].k = "pax" /\ cells[i].key = "size"}
             v == PaxLast(cells, "size", <<base.size>>)
  <1>1. PaxValues(cells, base).size = v[1]
    BY DEF PaxValues
  <1>2. v = IF places = {} THEN <<base.size>> ELSE cells[Max(places)].v
    BY DEF PaxLast
  <1>3. Len(cells) \in Nat /\ DOMAIN cells = 1 .. Len(cells)
    BY VectorIsSeq DEF RecordsOK
  <1>4. CASE places = {}
    BY <1>1, <1>2, <1>4 DEF PaxOK
  <1>5. CASE places # {}
    <2>1. places \in SUBSET (1 .. Len(cells))
      BY <1>3
    <2>2. \A i \in places : cells[i].k = "pax" /\ cells[i].key = "size"
      OBVIOUS
    <2> HIDE DEF places
    <2>3. Max(places) \in places
      BY <1>3, <1>5, <2>1, LastOf, Zenon
    <2>4. RecordOK(cells[Max(places)])
      BY <2>1, <2>3, Zenon DEF RecordsOK
    <2>5. cells[Max(places)].v[1] \in Nat
      BY <2>2, <2>3, <2>4 DEF RecordOK
    <2> QED
      BY <1>1, <1>2, <1>5, <2>5 DEF PaxOK
  <1> QED
    BY <1>4, <1>5

\* The size of a member, whoever gives it.
LEMMA TarMemberSize ==
  ASSUME DebParserOK, NEW h, h.size \in Nat
  PROVE  TarMember(h).size \in Nat
  <1> DEFINE local == IF acc.local = << >> THEN PaxNone ELSE acc.local[1]
             a == local.size
             b == acc.global.size
             values == <<a, b>>
             there == {i \in DOMAIN values : values[i] # NoSize}
  <1>1. a \in Nat \cup {NoSize} /\ b \in Nat \cup {NoSize}
    BY DEF DebParserOK, PaxOK, PaxNone
  <1>2. TarMember(h).size = IF there = {} THEN h.size ELSE values[Min(there)]
    BY DEF TarMember, OneOf
  <1> HIDE DEF a, b
  <1>3. there \in SUBSET {1, 2} /\ \A i \in there : values[i] \in Nat
    BY <1>1
  <1> HIDE DEF there, values
  <1>4. ASSUME there # {} PROVE values[Min(there)] \in Nat
    <2>1. there \in SUBSET Nat
      BY <1>3
    <2>2. \E x \in there : \A y \in there : x <= y
      BY <1>4, <2>1, LeastElement
    <2>3. Min(there) \in there
      BY <2>2 DEF Min
    <2> QED
      BY <1>3, <2>3, Zenon
  <1> QED
    BY <1>2, <1>4

\* The section under way is records, and so is the header it is at.
LEMMA TarFound ==
  ASSUME DebOK, acc.format \in {"control", "data"}
  PROVE  /\ RecordsOK(Tar) /\ Len(Tar) \in Nat
         /\ TarHere.size \in Nat
         /\ Tar = IF acc.format = "control" THEN acc.control ELSE acc.data
  <1>1. RecordsOK(Tar)
    BY DEF Tar, DebOK, DebParserOK
  <1>2. TarHere = TarNone \/ (RecordOK(TarHere) /\ TarHere.k = "tar")
    BY <1>1, FieldsFound DEF TarHere
  <1>3. TarNone.size = 0
    BY DEF TarNone, TarHeader
  <1>4. RecordOK(TarHere) /\ TarHere.k = "tar" => TarHere.size \in Nat
    BY DEF RecordOK, Unsigned
  <1>5. TarHere.size \in Nat
    BY <1>2, <1>3, <1>4
  <1> QED
    BY <1>1, <1>5 DEF Tar, RecordsOK, IsVector

\* The entries of the other tar, and those in front of this record.
LEMMA TarEntries ==
  ASSUME DebOK, acc.format \in {"control", "data"},
         UNCHANGED entries, DOMAIN acc' = DOMAIN acc,
         acc'.format \in {"control", "data"},
         acc'.control = acc.control, acc'.data = acc.data,
         PaxOK(acc'.global), acc'.local = << >> \/ PaxOK(acc'.local[1]),
         offset' \in Nat,
         \/ acc'.format = acc.format /\ offset' >= offset
         \/ acc.format = "control" /\ acc'.format = "data"
  PROVE  DebOK'
  <1>1. EntriesOK'
    BY DEF DebOK, EntriesOK, EntryOK
  <1>2. DebParserOK'
    BY DEF DebOK, DebParserOK, PaxOK
  <1>3. ASSUME NEW i \in 1 .. Len(entries)
        PROVE  LET e == entries[i] IN
               /\ e.section \in {"control", "data"}
               /\ e.section = "data" => acc'.format = "data"
               /\ e.end <= Len(IF e.section = "control" THEN acc'.control ELSE acc'.data)
               /\ e.section = acc'.format => e.end <= offset'
    <2>1. DebEntryOK(entries[i]) /\ entries[i].end \in Nat /\ offset \in Nat
      BY DEF DebOK, EntriesOK, EntryOK
    <2> QED
      BY <2>1 DEF DebEntryOK, DebSection
  <1>4. \A i \in 1 .. Len(entries') : DebEntryOK(entries[i])'
    BY <1>3 DEF DebEntryOK, DebSection
  <1> QED
    BY <1>1, <1>2, <1>4 DEF DebOK

\* A section ends: the next one begins, or the listing is complete.
LEMMA TarEndStep ==
  ASSUME Inv, Is("deb"), op = "open", acc.format \in {"control", "data"}, TarEnd
  PROVE  Good
  <1>1. DebOK
    BY OneFormat DEF Inv
  <1>2. \/ \E r : r # "ok" /\ ParseFails(r)
        \/ OpenReturns("ok") /\ UNCHANGED parseVars
        \/ /\ acc.format = "control"
           /\ acc' = [acc EXCEPT !.header = @ + 2 * TarBlock, !.format = "data",
                                 !.global = PaxNone]
           /\ offset' = 0 /\ UNCHANGED entries /\ ParseGoesOn
    BY DEF TarEnd
  <1>3. CASE \E r : r # "ok" /\ ParseFails(r)
    BY <1>3, FailsStep DEF ParseFails
  <1>4. CASE OpenReturns("ok") /\ UNCHANGED parseVars
    <2>1. input' = input /\ UNCHANGED parseVars /\ ~ Is("zip")
      BY <1>4 DEF OpenReturns, Is
    <2>2. FormatOK'
      BY <2>1, FormatStays DEF Inv, parseVars
    <2>3. offset' \in Int
      BY <2>1 DEF Inv, ControlOK, parseVars
    <2> QED
      BY <1>4, <2>2, <2>3, ListedStep
  <1>5. CASE /\ acc.format = "control"
             /\ acc' = [acc EXCEPT !.header = @ + 2 * TarBlock, !.format = "data",
                                   !.global = PaxNone]
             /\ offset' = 0 /\ UNCHANGED entries /\ ParseGoesOn
    <2>1. /\ {"header", "names", "format", "members", "properties", "control", "data", "global",
              "local", "longName", "longLink"} \subseteq DOMAIN acc
          /\ acc.local = << >> \/ PaxOK(acc.local[1])
      BY <1>1 DEF DebOK, DebParserOK
    <2>2. /\ DOMAIN acc' = DOMAIN acc /\ acc'.format = "data" /\ acc'.global = PaxNone
          /\ acc'.control = acc.control /\ acc'.data = acc.data /\ acc'.local = acc.local
      BY <1>5, <2>1
    <2>3. PaxOK(PaxNone)
      BY DEF PaxOK, PaxNone
    <2>4. DebOK'
      BY <1>1, <1>5, <2>1, <2>2, <2>3, TarEntries
    <2>5. FormatOK'
      BY <1>5, <2>4, DebFormat DEF ParseGoesOn
    <2>6. Stage(acc') > Stage(acc)
      BY <1>5, <2>2 DEF Stage
    <2> QED
      BY <1>5, <2>5, <2>6, GoesOnStep
  <1> QED
    BY <1>2, <1>3, <1>4, <1>5

\* A pax or GNU extension is taken, and the parser goes on behind it.
LEMMA TarExtensionStep ==
  ASSUME Inv, Is("deb"), op = "open", acc.format \in {"control", "data"},
         NEW h, h.size \in Nat, h.type \in {"g", "x", "L", "K"}, TarExtension(h)
  PROVE  Good
  <1> DEFINE data == TarData(h.size)
             n == acc.header + TarBlock + h.size
             p == acc.properties + (IF h.type \in {"g", "x"} THEN h.size ELSE 0)
             counted == [acc EXCEPT !.header = n, !.properties = p]
  <1>1. DebOK /\ DebParserOK /\ offset \in Nat
    BY OneFormat DEF Inv, DebOK
  <1>2. RecordsOK(data)
    <2>1. offset + TarBlock \in Nat
      BY <1>1 DEF TarBlock
    <2> QED
      BY <1>1, <2>1, TarFound, SliceRecords, SMTT(40) DEF TarData
  <1>3. /\ acc' = CASE h.type = "g" -> [counted EXCEPT !.global = PaxValues(data, @)]
                    [] h.type = "x" -> [counted EXCEPT !.local = <<PaxValues(data, PaxNone)>>]
                    [] h.type = "L" -> [counted EXCEPT !.longName = LongValue(data)]
                    [] h.type = "K" -> [counted EXCEPT !.longLink = LongValue(data)]
        /\ offset' = TarNext(h.size) /\ UNCHANGED entries /\ ParseGoesOn
    BY DEF TarExtension
  <1>4. {"header", "names", "format", "members", "properties", "control", "data", "global",
         "local", "longName", "longLink"} \subseteq DOMAIN acc
    BY <1>1 DEF DebParserOK
  <1> HIDE DEF n, p, data
  <1>5. /\ DOMAIN counted = DOMAIN acc /\ counted.format = acc.format
        /\ counted.control = acc.control /\ counted.data = acc.data
        /\ counted.global = acc.global /\ counted.local = acc.local
    BY <1>4
  <1> HIDE DEF counted
  <1>6. /\ PaxOK(PaxValues(data, acc.global)) /\ PaxOK(PaxValues(data, PaxNone))
        /\ PaxOK(acc.global) /\ (acc.local = << >> \/ PaxOK(acc.local[1]))
    <2>1. PaxOK(PaxNone)
      BY DEF PaxOK, PaxNone
    <2> QED
      BY <1>1, <1>2, <2>1, PaxSize DEF DebParserOK
  <1>7. /\ DOMAIN acc' = DOMAIN acc /\ acc'.format = acc.format
        /\ acc'.control = acc.control /\ acc'.data = acc.data
        /\ PaxOK(acc'.global) /\ (acc'.local = << >> \/ PaxOK(acc'.local[1]))
    <2>1. CASE h.type = "g"
      <3>1. acc' = [counted EXCEPT !.global = PaxValues(data, acc.global)]
        BY <1>3, <1>5, <2>1
      <3>2. /\ DOMAIN acc' = DOMAIN acc /\ acc'.format = acc.format
            /\ acc'.control = acc.control /\ acc'.data = acc.data
            /\ acc'.global = PaxValues(data, acc.global) /\ acc'.local = acc.local
        BY <1>4, <1>5, <3>1
      <3> QED
        BY <1>6, <3>2
    <2>2. CASE h.type = "x"
      <3> DEFINE v == PaxValues(data, PaxNone)
      <3>1. acc' = [counted EXCEPT !.local = <<v>>]
        BY <1>3, <2>2
      <3> HIDE DEF v
      <3>2. /\ DOMAIN acc' = DOMAIN acc /\ acc'.format = acc.format
            /\ acc'.control = acc.control /\ acc'.data = acc.data
            /\ acc'.global = acc.global /\ acc'.local[1] = v
        BY <1>4, <1>5, <3>1
      <3> QED
        BY <1>6, <3>2 DEF v
    <2>3. CASE h.type = "L"
      <3>1. acc' = [counted EXCEPT !.longName = LongValue(data)]
        BY <1>3, <2>3
      <3>2. /\ DOMAIN acc' = DOMAIN acc /\ acc'.format = acc.format
            /\ acc'.control = acc.control /\ acc'.data = acc.data
            /\ acc'.global = acc.global /\ acc'.local = acc.local
        BY <1>4, <1>5, <3>1
      <3> QED
        BY <1>6, <3>2
    <2>4. CASE h.type = "K"
      <3>1. acc' = [counted EXCEPT !.longLink = LongValue(data)]
        BY <1>3, <2>4
      <3>2. /\ DOMAIN acc' = DOMAIN acc /\ acc'.format = acc.format
            /\ acc'.control = acc.control /\ acc'.data = acc.data
            /\ acc'.global = acc.global /\ acc'.local = acc.local
        BY <1>4, <1>5, <3>1
      <3> QED
        BY <1>6, <3>2
    <2> QED
      BY <2>1, <2>2, <2>3, <2>4
  <1>8. offset' \in Nat /\ offset' > offset
    BY <1>1, <1>3, TarForward
  <1>9. DebOK'
    BY <1>1, <1>3, <1>7, <1>8, TarEntries
  <1>10. FormatOK'
    BY <1>3, <1>9, DebFormat DEF ParseGoesOn
  <1>11. Stage(acc') = Stage(acc)
    BY <1>7 DEF Stage
  <1> QED
    BY <1>3, <1>8, <1>10, <1>11, GoesOnStep
-----------------------------------------------------------------------------
\* A member that was accepted lies in its tar.
LEMMA TarMemberFits ==
  ASSUME NEW h, Checks(TarMemberChecks(h)),
         \A i \in 1 .. Len(TarMemberChecks(h)) : TarMemberChecks(h)[i][1]
  PROVE  offset + TarBlock + TarMember(h).size <= Len(Tar)
  <1>1. Len(TarMemberChecks(h)) = 9
        /\ TarMemberChecks(h)[7][1] = (offset + TarBlock + TarMember(h).size <= Len(Tar))
    BY DEF TarMemberChecks
  <1>2. 7 \in 1 .. 9
    OBVIOUS
  <1> QED
    BY <1>1, <1>2, Zenon

\* What is checked of a member are checks.
LEMMA TarMemberRow ==
  ASSUME NEW h
  PROVE  Checks(TarMemberChecks(h))
  <1> DEFINE s == TarMemberChecks(h)
  <1>1. IsVector(s) /\ Len(s) = 9
    BY DEF TarMemberChecks, IsVector
  <1>2. /\ s[1][2] = "limit" /\ s[2][2] = "format" /\ s[3][2] = "limit" /\ s[4][2] = "limit"
        /\ s[5][2] = "limit" /\ s[6][2] = "limit" /\ s[7][2] = "format" /\ s[8][2] = "limit"
        /\ s[9][2] = "format"
    BY DEF TarMemberChecks
  <1> HIDE DEF s
  <1>3. \A i \in 1 .. 9 : i \in {1, 2, 3, 4, 5, 6, 7, 8, 9}
    OBVIOUS
  <1>4. Checks(s)
    BY <1>1, <1>2, <1>3 DEF Checks
  <1> QED
    BY <1>4 DEF s

\* A member that passed ends inside its section.
LEMMA TarHolds ==
  ASSUME NEW h,
         FirstFailure(TarBlockChecks \o TarHeaderChecks(h) \o TarMemberChecks(h)) = "ok"
  PROVE  offset + TarBlock + TarMember(h).size <= Len(Tar)
  <1>1. Checks(TarBlockChecks)
    BY DEF TarBlockChecks, Checks, IsVector
  <1>2. Checks(TarHeaderChecks(h))
    BY DEF TarHeaderChecks, Checks, IsVector
  <1>3. Checks(TarBlockChecks \o TarHeaderChecks(h))
    BY <1>1, <1>2, ConcatChecks
  <1>4. Checks(TarMemberChecks(h))
    BY TarMemberRow
  <1>5. \A i \in 1 .. Len(TarMemberChecks(h)) : TarMemberChecks(h)[i][1]
    BY <1>3, <1>4, ConcatChecks
  <1> QED
    BY <1>4, <1>5, TarMemberFits

\* A member is listed behind those of its section.
LEMMA TarTakesStep ==
  ASSUME Inv, Is("deb"), op = "open", acc.format \in {"control", "data"},
         NEW h, h.size \in Nat, offset + TarBlock + TarMember(h).size <= Len(Tar), TarTakes(h)
  PROVE  Good
  <1> DEFINE e == DebEntry(h)
             size == TarMember(h).size
             n == Len(entries)
  <1>1. DebOK /\ DebParserOK /\ offset \in Nat
    BY OneFormat DEF Inv, DebOK
  <1>2. size \in Nat /\ Len(Tar) \in Nat /\ TarBlock = 2
    BY <1>1, TarMemberSize, TarFound DEF TarBlock
  <1>3. /\ e.start = offset + TarBlock /\ e.end = offset + TarBlock + size
        /\ e.section = acc.format
        /\ entries' = Append(entries, e) /\ offset' = TarNext(size) /\ ParseGoesOn
        /\ offset + TarBlock + size <= Len(Tar)
    BY DEF TarTakes, DebEntry
  <1>4. /\ acc' = [acc EXCEPT !.header = @ + TarBlock, !.names = @ + Len(TarMember(h).name),
                              !.local = << >>, !.longName = NoName, !.longLink = NoName]
    BY DEF TarTakes
  <1> HIDE DEF e, size
  <1>5. /\ DOMAIN acc' = DOMAIN acc /\ acc'.format = acc.format
        /\ acc'.control = acc.control /\ acc'.data = acc.data
        /\ acc'.global = acc.global /\ acc'.local = << >>
    <2>1. {"header", "names", "format", "members", "properties", "control", "data", "global",
           "local", "longName", "longLink"} \subseteq DOMAIN acc
      BY <1>1 DEF DebParserOK
    <2> DEFINE p == acc.header + TarBlock
               q == acc.names + Len(TarMember(h).name)
    <2>2. acc' = [acc EXCEPT !.header = p, !.names = q,
                             !.local = << >>, !.longName = NoName, !.longLink = NoName]
      BY <1>4
    <2> HIDE DEF p, q
    <2> QED
      BY <2>1, <2>2
  <1>6. offset' \in Nat /\ offset' > offset /\ offset' >= offset + TarBlock + size
    BY <1>1, <1>2, <1>3, TarForward
  <1>7. /\ EntryOK(e) /\ e.section \in {"control", "data"} /\ e.start >= offset
        /\ e.end <= offset' /\ e.end <= Len(Tar)
    BY <1>1, <1>2, <1>3, <1>6 DEF EntryOK
  <1>8. IsVector(entries) /\ n \in Nat /\ \A i \in 1 .. n : EntryOK(entries[i])
    BY <1>1 DEF DebOK, EntriesOK, IsVector
  <1>9. /\ IsVector(entries') /\ Len(entries') = n + 1
        /\ \A i \in 1 .. n : entries'[i] = entries[i]
        /\ entries'[n + 1] = e
    BY <1>3, <1>8, AppendVector
  <1>10. \A i \in 1 .. n + 1 : i \in 1 .. n \/ i = n + 1
    BY <1>8
  <1>11. EntriesOK'
    BY <1>7, <1>8, <1>9, <1>10, Zenon DEF EntriesOK, EntryOK
  <1>12. DebParserOK'
    BY <1>1, <1>5 DEF DebParserOK, PaxOK
  <1>13. ASSUME NEW i \in 1 .. n
         PROVE  LET d == entries[i] IN
                /\ d.section \in {"control", "data"}
                /\ d.section = "data" => acc.format = "data"
                /\ d.end <= Len(IF d.section = "control" THEN acc.control ELSE acc.data)
                /\ d.section = acc.format => d.end <= offset
                /\ d.end \in Nat
    <2>1. DebEntryOK(entries[i]) /\ entries[i].end \in Nat
      BY <1>1, <1>8 DEF DebOK, EntryOK
    <2> QED
      BY <2>1 DEF DebEntryOK, DebSection
  <1>14. ASSUME NEW i \in 1 .. n + 1
         PROVE  LET d == entries'[i] IN
                /\ d.section \in {"control", "data"}
                /\ d.section = "data" => acc'.format = "data"
                /\ d.end <= Len(IF d.section = "control" THEN acc'.control ELSE acc'.data)
                /\ d.section = acc'.format => d.end <= offset'
    <2>1. CASE i \in 1 .. n
      BY <1>1, <1>5, <1>6, <1>9, <1>13, <2>1
    <2>2. CASE i = n + 1
      BY <1>1, <1>3, <1>5, <1>7, <1>9, <2>2 DEF Tar
    <2> QED
      BY <1>10, <2>1, <2>2
  <1>15. ASSUME NEW i \in 1 .. n + 1, NEW j \in 1 .. n + 1, i < j,
                entries'[i].section = entries'[j].section
         PROVE  entries'[i].end <= entries'[j].start
    <2>1. i \in 1 .. n
      BY <1>8, <1>15
    <2>2. CASE j \in 1 .. n
      BY <1>1, <1>9, <1>15, <2>1, <2>2 DEF DebOK
    <2>3. CASE j = n + 1
      <3>1. entries[i].end <= offset /\ entries[i].end \in Nat
        BY <1>3, <1>9, <1>13, <1>15, <2>1, <2>3
      <3>2. e.start \in Nat /\ e.start >= offset
        BY <1>7 DEF EntryOK
      <3> QED
        BY <1>1, <1>9, <2>1, <2>3, <3>1, <3>2
    <2> QED
      BY <1>10, <2>2, <2>3
  <1>16. \A i \in 1 .. Len(entries') :
           /\ entries'[i].section \in {"control", "data"}
           /\ entries'[i].section = "data" => acc'.format = "data"
           /\ entries'[i].end <= Len(IF entries'[i].section = "control" THEN acc'.control
                                     ELSE acc'.data)
           /\ entries'[i].section = acc'.format => entries'[i].end <= offset'
    BY <1>9, <1>14
  <1>17. DebOK'
    BY <1>1, <1>5, <1>6, <1>9, <1>11, <1>12, <1>15, <1>16 DEF DebOK, DebEntryOK, DebSection
  <1>18. FormatOK'
    BY <1>3, <1>17, DebFormat DEF ParseGoesOn
  <1>19. Stage(acc') = Stage(acc)
    BY <1>5 DEF Stage
  <1> QED
    BY <1>3, <1>6, <1>18, <1>19, GoesOnStep

\* A round of the tar parser.
LEMMA DebTarStep ==
  ASSUME Inv, DebTar
  PROVE  Good
  <1> DEFINE h == TarHere
             extension == h.type \in {"g", "x", "L", "K"}
             result == FirstFailure(TarBlockChecks \o TarHeaderChecks(h)
                         \o (IF extension THEN TarExtensionChecks(h) ELSE TarMemberChecks(h)))
  <1>1. Is("deb") /\ op = "open" /\ acc.format \in {"control", "data"}
    BY DEF DebTar
  <1>2. h.size \in Nat
    BY <1>1, OneFormat, TarFound DEF Inv
  <1>3. \/ \E r : r # "ok" /\ ParseFails(r)
        \/ TarEnd
        \/ extension /\ TarExtension(h)
        \/ result = "ok" /\ ~ extension /\ TarTakes(h)
    BY DEF DebTar
  <1>4. result = "ok" /\ ~ extension => offset + TarBlock + TarMember(h).size <= Len(Tar)
    <2> SUFFICES ASSUME result = "ok", ~ extension
                 PROVE  offset + TarBlock + TarMember(h).size <= Len(Tar)
      OBVIOUS
    <2>1. FirstFailure(TarBlockChecks \o TarHeaderChecks(h) \o TarMemberChecks(h)) = "ok"
      OBVIOUS
    <2> HIDE DEF h
    <2> QED
      BY <2>1, TarHolds
  <1> HIDE DEF h, result
  <1>5. CASE \E r : r # "ok" /\ ParseFails(r)
    BY <1>1, <1>5, FailsStep DEF ParseFails
  <1> QED
    BY <1>1, <1>2, <1>3, <1>4, <1>5, TarEndStep, TarExtensionStep, TarTakesStep

\* Every step of the Debian reader.
LEMMA DebNextStep ==
  ASSUME Inv, DebNext
  PROVE  Good
  <1>1. CASE DebReadPath
    BY <1>1, SharedSteps DEF DebReadPath
  <1>2. CASE DebOpenBytes
    BY <1>2, SharedSteps DEF DebOpenBytes
  <1>3. CASE DebStart \/ DebArMember \/ DebMembers \/ DebTar
    BY <1>3, DebStartStep, DebArMemberStep, DebMembersStep, DebTarStep
  <1>4. CASE DebVerify
    BY <1>4, SharedSteps, VerifyStep DEF DebVerify
  <1>5. CASE DebWrite
    BY <1>5, SharedSteps DEF DebWrite
  <1>6. Is("deb") => EntriesOK /\ DebOK
    BY OneFormat DEF Inv, DebOK
  <1>7. ASSUME Is("deb"), NEW i \in DOMAIN entries PROVE IsVector(DebEntryData(entries[i]))
    <2>1. i \in 1 .. Len(entries) /\ entries[i].start \in Nat
          /\ entries[i].end - entries[i].start \in Int
      BY <1>6, <1>7, EntryThere
    <2>2. entries # << >>
      BY <2>1, NoRecords
    <2>3. IsVector(acc.control) /\ IsVector(acc.data)
      BY <1>6, <1>7, <2>2 DEF DebOK, DebParserOK, RecordsOK
    <2>4. IsVector(DebSection(entries[i]))
      BY <2>3 DEF DebSection
    <2> QED
      BY <2>1, <2>4, SliceLemma, Zenon DEF DebEntryData
  <1>8. CASE DebExtractEntries
    <2>1. CASE ExtractDone
      BY <2>1, SharedSteps
    <2>2. CASE at \in DOMAIN entries
      BY <1>7, <1>8, <2>2, BeginStep, SharedSteps DEF DebExtractEntries
    <2> QED
      BY <1>8, <2>1, <2>2 DEF DebExtractEntries
  <1>9. CASE DebExtractEntry
    <2>1. PICK i \in 1 .. Len(entries) + 1 :
            BeginAlone(i, DebAlone(i),
                       IF i \in DOMAIN entries THEN DebEntryData(entries[i]) ELSE << >>)
      BY <1>9 DEF DebExtractEntry
    <2>2. i \in Nat \ {0}
      BY <1>6, <1>9, Indices DEF DebExtractEntry
    <2>3. IsVector(IF i \in DOMAIN entries THEN DebEntryData(entries[i]) ELSE << >>)
      BY <1>7, <1>9, NoRecords DEF DebExtractEntry
    <2> QED
      BY <2>1, <2>2, <2>3, AloneStep
  <1>10. CASE DebExtractMember
    <2>1. op = "extract" /\ (\E r : ExtractReturns(r)) /\ UNCHANGED loopVars
      BY <1>10 DEF DebExtractMember
    <2> QED
      BY <2>1, ExtractReturnsStep DEF loopVars
  <1> QED
    BY <1>1, <1>2, <1>3, <1>4, <1>5, <1>8, <1>9, <1>10 DEF DebNext
-----------------------------------------------------------------------------
(***************************************************************************)
(* ZIP: where the directory is                                             *)
(***************************************************************************)
\* The ZIP reader's part of the invariant.
LEMMA ZipFormat ==
  ASSUME Is("zip"), input' = input, ZipOK'
  PROVE  FormatOK'
  BY DEF FormatOK, Is

\* The record that ends the archive.
LEMMA ZipEocdThere ==
  ASSUME CellsOK(Cells), ZipEocdAt >= 0
  PROVE  /\ ZipEocdAt \in Nat /\ ZipEocdAt + 1 \in 1 .. Len(Cells)
         /\ ZipEocdAt >= Len(Cells) - ZipSearch
         /\ Cells[ZipEocdAt + 1].k = "eocd"
  <1> DEFINE places == {p \in 0 .. Len(Cells) - 1 :
                          /\ p >= Len(Cells) - ZipSearch
                          /\ Cells[p + 1].k = "eocd"
                          /\ p + 1 + Cells[p + 1].comment = Len(Cells)}
             spot == ZipEocdAt
  <1>1. spot = IF places = {} THEN -1 ELSE Max(places)
    BY DEF ZipEocdAt
  <1>2. Len(Cells) \in Nat
    BY DEF CellsOK, IsVector
  <1>3. /\ places \in SUBSET Int /\ \A x \in places : x <= Len(Cells) - 1
        /\ \A x \in places : /\ x \in Nat /\ x + 1 \in 1 .. Len(Cells)
                             /\ x >= Len(Cells) - ZipSearch /\ Cells[x + 1].k = "eocd"
    BY <1>2
  <1>4. spot >= 0
    OBVIOUS
  <1> HIDE DEF places, spot
  <1>5. places # {}
    BY <1>1, <1>4
  <1>6. Len(Cells) - 1 \in Int
    BY <1>2
  <1>7. spot \in places
    BY <1>1, <1>3, <1>5, <1>6, LastBelow, Zenon
  <1> QED
    BY <1>3, <1>7 DEF spot

\* The ZIP64 end record, where there is one, is in front of its locator.
LEMMA ZipEnd64There ==
  ASSUME NEW locator \in Int, ZipEnd64At(locator) >= 0
  PROVE  ZipEnd64At(locator) \in Nat /\ ZipEnd64At(locator) < locator
  <1> DEFINE places == {p \in 0 .. locator - 1 :
                          /\ p >= locator - limits.header
                          /\ Cells[p + 1].k = "eocd64"
                          /\ Cells[p + 1].width >= 1
                          /\ p + Cells[p + 1].width = locator}
             spot == ZipEnd64At(locator)
  <1>1. spot = IF places = {} THEN -1 ELSE Max(places)
    BY DEF ZipEnd64At
  <1>2. /\ places \in SUBSET Int /\ \A x \in places : x <= locator - 1
        /\ \A x \in places : x \in Nat /\ x < locator
    OBVIOUS
  <1>3. spot >= 0
    OBVIOUS
  <1> HIDE DEF places, spot
  <1>4. places # {}
    BY <1>1, <1>3
  <1>5. locator - 1 \in Int
    OBVIOUS
  <1>6. spot \in places
    BY <1>1, <1>2, <1>4, <1>5, LastBelow, Zenon
  <1> QED
    BY <1>2, <1>6, Zenon DEF spot

\* What the checks of the slice leave: it begins in front of that record.
LEMMA ZipSliceHolds ==
  ASSUME CellsOK(Cells), FirstFailure(ZipSliceChecks) = "ok"
  PROVE  /\ ZipEocdAt \in Nat /\ ZipEocdAt + 1 \in 1 .. Len(Cells)
         /\ ZipEocdAt >= Len(Cells) - ZipSearch
         /\ Cells[ZipEocdAt + 1].k = "eocd"
         /\ ZipSliceStart \in Nat /\ ZipSliceStart <= ZipEocdAt
  <1> DEFINE eocd == ZipEocdAt
             e == RecordAt(Cells, eocd, "eocd", ZipNoEnd)
             l == RecordAt(Cells, eocd - 1, "locator", ZipNoLocator)
             actual == ZipEnd64At(eocd - 1)
             s == ZipSliceChecks
  <1>1. Checks(s) /\ Len(s) = 5
    BY DEF ZipSliceChecks, Checks, IsVector
  <1>2. /\ s[1][1] = (eocd >= 0)
        /\ s[2][1] = (ZipNeeds64(e) => l.k = "locator")
        /\ s[3][1] = (ZipNeeds64(e) => actual >= 0)
        /\ s[4][1] = (ZipNeeds64(e) => actual >= l.offset)
    BY DEF ZipSliceChecks
  <1>3. FirstFailure(s) = "ok"
    OBVIOUS
  <1> HIDE DEF s
  <1>4. \A i \in 1 .. 5 : s[i][1]
    BY <1>1, <1>3, AllHold, Zenon
  <1>5. 1 \in 1 .. 5 /\ 2 \in 1 .. 5 /\ 3 \in 1 .. 5 /\ 4 \in 1 .. 5
    OBVIOUS
  <1>6. /\ eocd >= 0
        /\ ZipNeeds64(e) => l.k = "locator" /\ actual >= 0 /\ actual >= l.offset
    BY <1>2, <1>4, <1>5, Zenon
  <1>7. /\ eocd \in Nat /\ eocd + 1 \in 1 .. Len(Cells)
        /\ eocd >= Len(Cells) - ZipSearch /\ Cells[eocd + 1].k = "eocd"
    BY <1>6, ZipEocdThere
  <1>8. Len(Cells) \in Nat
    BY DEF CellsOK, IsVector
  <1>9. e = Cells[eocd + 1]
    <2>1. eocd \in 0 .. Len(Cells) - 1
      BY <1>7, <1>8
    <2> QED
      BY <1>7, <2>1 DEF RecordAt
  <1>10. ZipSliceStart = IF ZipNeeds64(e) THEN actual - Cells[eocd].offset ELSE 0
    BY <1>9 DEF ZipSliceStart
  <1> HIDE DEF e
  <1>11. ASSUME ZipNeeds64(e)
         PROVE  ZipSliceStart \in Nat /\ ZipSliceStart <= eocd
    <2>1. l.k = "locator" /\ actual >= 0 /\ actual >= l.offset
      BY <1>6, <1>11
    <2>2. ZipNoLocator.k = "none"
      BY DEF ZipNoLocator, ZipLocator
    <2>3. l = Cells[(eocd - 1) + 1] /\ CellOK(l)
      BY <2>1, <2>2, RecordFound
    <2>4. (eocd - 1) + 1 = eocd
      BY <1>7
    <2>5. l.offset \in Nat
      BY <2>1, <2>3 DEF CellOK, RecordOK, Unsigned
    <2>6. actual \in Nat /\ actual < eocd - 1
      <3>1. eocd - 1 \in Int
        BY <1>7
      <3> QED
        BY <2>1, <3>1, ZipEnd64There
    <2>7. ZipSliceStart = actual - l.offset
      BY <1>10, <1>11, <2>3, <2>4
    <2> HIDE DEF l, actual, eocd
    <2> QED
      BY <1>7, <2>1, <2>5, <2>6, <2>7
  <1>12. ASSUME ~ ZipNeeds64(e)
         PROVE  ZipSliceStart \in Nat /\ ZipSliceStart <= eocd
    BY <1>7, <1>10, <1>12
  <1> QED
    BY <1>7, <1>11, <1>12

\* The geometry that is reported is one of numbers.
LEMMA RawzipNumbers ==
  ASSUME CellsOK(Cells), NEW start \in Nat, NEW q \in Nat, start <= q, q + 1 \in 1 .. Len(Cells),
         q >= Len(Cells) - ZipSearch, Cells[q + 1].k = "eocd",
         RawzipLocate(start).found
  PROVE  LET r == RawzipLocate(start) IN
         /\ r.eocd \in Nat /\ r.eocd <= Len(Cells) - 1
         /\ r.dir \in Int /\ r.dirEnd \in Int /\ r.base \in Nat
  <1> DEFINE signatures == {p \in start .. Len(Cells) - 1 :
                              p >= Len(Cells) - ZipSearch /\ Cells[p + 1].k = "eocd"}
             eocd == Max(signatures)
             e == Cells[eocd + 1]
             locator == RecordAt(Cells, eocd - 1, "locator", ZipNoLocator)
             last == IF ZipNeeds64(e)
                     THEN RecordAt(Cells, start + locator.offset, "eocd64", ZipNoEnd) ELSE e
             at64 == IF ZipNeeds64(e) THEN start + locator.offset ELSE eocd
             r == RawzipLocate(start)
  <1>1. /\ r.eocd = eocd /\ r.dirEnd = at64 /\ r.dir = at64 - last.size
        /\ r.base = at64 - last.size - last.offset
        /\ r.found = (/\ last.k # "none" /\ at64 - last.size >= start
                      /\ at64 - last.size - last.offset >= 0
                      /\ eocd + 1 + e.comment <= Len(Cells))
    BY Zenon DEF RawzipLocate
  <1>2. r.found
    OBVIOUS
  <1> HIDE DEF r
  <1>3. Len(Cells) \in Nat /\ \A i \in 1 .. Len(Cells) : RecordOK(Cells[i])
    BY CellsAreRecords, Zenon DEF CellsOK, IsVector, RecordsOK
  <1>4. /\ signatures \in SUBSET Int /\ signatures # {}
        /\ \A x \in signatures : x <= Len(Cells) - 1
        /\ \A x \in signatures : x \in Nat /\ x + 1 \in 1 .. Len(Cells) /\ Cells[x + 1].k = "eocd"
    <2>1. q \in signatures
      BY <1>3
    <2> QED
      BY <1>3, <2>1
  <1>5. eocd \in signatures
    <2> HIDE DEF signatures
    <2>1. Len(Cells) - 1 \in Int
      BY <1>3
    <2> QED
      BY <1>4, <2>1, LastBelow, Zenon
  <1>6. /\ eocd \in Nat /\ eocd <= Len(Cells) - 1 /\ eocd + 1 \in 1 .. Len(Cells)
        /\ e.k = "eocd" /\ RecordOK(e)
    BY <1>3, <1>4, <1>5, Zenon
  <1> HIDE DEF eocd
  <1>7. e.size \in Nat /\ e.offset \in Nat
    BY <1>6 DEF RecordOK, Unsigned
  <1> HIDE DEF e
  <1>8. locator.offset \in Nat
    <2>1. locator = ZipNoLocator \/ (CellOK(locator) /\ locator.k = "locator")
      BY RecordFound
    <2>2. ZipNoLocator.offset = 0
      BY DEF ZipNoLocator, ZipLocator
    <2> HIDE DEF locator
    <2>3. CellOK(locator) /\ locator.k = "locator" => locator.offset \in Nat
      BY DEF CellOK, RecordOK, Unsigned
    <2> QED
      BY <2>1, <2>2, <2>3
  <1> HIDE DEF locator
  <1>9. at64 \in Nat
    BY <1>6, <1>8
  <1>10. last.size \in Nat /\ last.offset \in Nat
    <2> DEFINE z == RecordAt(Cells, start + locator.offset, "eocd64", ZipNoEnd)
    <2>1. z = ZipNoEnd \/ (CellOK(z) /\ z.k = "eocd64")
      BY RecordFound
    <2>2. ZipNoEnd.size = 0 /\ ZipNoEnd.offset = 0
      BY DEF ZipNoEnd, ZipEnd
    <2> HIDE DEF z
    <2>3. CellOK(z) /\ z.k = "eocd64" => z.size \in Nat /\ z.offset \in Nat
      BY DEF CellOK, RecordOK, Unsigned
    <2>4. z.size \in Nat /\ z.offset \in Nat
      BY <2>1, <2>2, <2>3
    <2> QED
      BY <1>7, <2>4 DEF z
  <1> HIDE DEF at64, last
  <1>11. r.dir \in Int /\ r.dirEnd \in Int /\ r.base \in Nat
    <2>1. at64 - last.size - last.offset >= 0
      BY <1>1, <1>2, Zenon
    <2>2. at64 - last.size \in Int /\ at64 - last.size - last.offset \in Nat
      BY <1>9, <1>10, <2>1
    <2> QED
      BY <1>1, <1>9, <2>2
  <1> QED
    BY <1>1, <1>6, <1>11, SMTT(40) DEF r
-----------------------------------------------------------------------------
\* A directory that passed ends in front of the end record.
LEMMA ZipDirectoryHolds ==
  ASSUME NEW r, NEW start, FirstFailure(ZipDirectoryChecks(r, start)) = "ok"
  PROVE  r.found /\ r.dir <= r.eocd
  <1> DEFINE s == << <<r.found, "format">>,
                     <<r.end = Len(Cells), "format">>,
                     <<r.dir <= r.eocd, "format">>,
                     <<Len(Cells) - r.dir <= limits.header, "limit">> >>
             t == ZipDiskChecks(Cells[r.eocd + 1], r, start)
             u == << <<r.last.entries <= limits.files, "limit">> >>
  <1>1. Checks(s) /\ Len(s) = 4
    BY DEF Checks, IsVector
  <1>2. Checks(t)
    BY DEF ZipDiskChecks, Checks, IsVector
  <1>3. Checks(u)
    BY DEF Checks, IsVector
  <1>4. ZipDirectoryChecks(r, start) = (s \o t) \o u
    BY DEF ZipDirectoryChecks
  <1>5. s[1][1] = r.found /\ s[3][1] = (r.dir <= r.eocd)
    OBVIOUS
  <1> HIDE DEF s, t, u
  <1>6. Checks(s \o t)
    BY <1>1, <1>2, ConcatChecks
  <1>7. \A i \in 1 .. Len(s \o t) : (s \o t)[i][1]
    BY <1>3, <1>4, <1>6, ConcatChecks, Zenon
  <1>8. FirstFailure(s \o t) = "ok"
    BY <1>6, <1>7, HeldRow, Zenon
  <1>9. \A i \in 1 .. 4 : s[i][1]
    BY <1>1, <1>2, <1>8, ConcatChecks, Zenon
  <1>10. 1 \in 1 .. 4 /\ 3 \in 1 .. 4
    OBVIOUS
  <1> QED
    BY <1>5, <1>9, <1>10, Zenon

\* The directory is located.
LEMMA ZipLocateStep ==
  ASSUME Inv, ZipLocate
  PROVE  Good
  <1> DEFINE slice == FirstFailure(ZipSliceChecks)
             start == IF slice = "ok" THEN ZipSliceStart ELSE 0
             r == RawzipLocate(start)
             found == IF slice = "ok" THEN FirstFailure(ZipDirectoryChecks(r, start)) ELSE slice
  <1>1. Is("zip") /\ op = "open" /\ acc.format = "none" /\ CellsOK(Cells) /\ opened = "none"
    BY DEF ZipLocate, Inv, ControlOK
  <1>2. entries = << >>
    BY <1>1, OneFormat DEF Inv, ZipOK
  <1>3. \/ found # "ok" /\ ParseFails(found)
        \/ /\ found = "ok"
           /\ acc' = [format |-> "zip", names |-> 0, dir |-> r.dir, dirEnd |-> r.dirEnd,
                      base |-> r.base, hint |-> r.last.entries,
                      comment |-> Cells[r.eocd + 1].comment]
           /\ offset' = r.dir /\ UNCHANGED entries /\ ParseGoesOn
    BY DEF ZipLocate
  <1>4. ASSUME found = "ok"
        PROVE  r.dir \in Int /\ r.dirEnd \in Int /\ r.base \in Nat /\ r.dir <= Len(Cells)
    <2>1. slice = "ok" /\ start = ZipSliceStart /\ FirstFailure(ZipDirectoryChecks(r, start)) = "ok"
      BY <1>4
    <2>2. /\ ZipEocdAt \in Nat /\ ZipEocdAt + 1 \in 1 .. Len(Cells)
          /\ ZipEocdAt >= Len(Cells) - ZipSearch
          /\ Cells[ZipEocdAt + 1].k = "eocd"
          /\ start \in Nat /\ start <= ZipEocdAt
      BY <1>1, <2>1, ZipSliceHolds
    <2>3. r.found /\ r.dir <= r.eocd
      BY <2>1, ZipDirectoryHolds
    <2> HIDE DEF start
    <2>4. /\ r.eocd \in Nat /\ r.eocd <= Len(Cells) - 1
          /\ r.dir \in Int /\ r.dirEnd \in Int /\ r.base \in Nat
      BY <1>1, <2>2, <2>3, RawzipNumbers
    <2>5. Len(Cells) \in Nat
      BY <1>1 DEF CellsOK, IsVector
    <2> HIDE DEF r
    <2> QED
      BY <2>3, <2>4, <2>5
  <1> HIDE DEF found, r
  <1>5. CASE found # "ok" /\ ParseFails(found)
    BY <1>1, <1>5, FailsStep DEF ParseFails
  <1>6. CASE /\ found = "ok"
             /\ acc' = [format |-> "zip", names |-> 0, dir |-> r.dir, dirEnd |-> r.dirEnd,
                        base |-> r.base, hint |-> r.last.entries,
                        comment |-> Cells[r.eocd + 1].comment]
             /\ offset' = r.dir /\ UNCHANGED entries /\ ParseGoesOn
    <2>1. /\ DOMAIN acc' = {"format", "names", "dir", "dirEnd", "base", "hint", "comment"}
          /\ acc'.format = "zip" /\ acc'.dir = r.dir /\ acc'.dirEnd = r.dirEnd
          /\ acc'.base = r.base
      BY <1>6
    <2>2. entries' = << >> /\ Cells' = Cells /\ opened' # "ok"
      BY <1>1, <1>2, <1>6 DEF ParseGoesOn, Cells
    <2>3. EntriesOK' /\ \A i \in 1 .. Len(entries') : FALSE
      BY <2>2, NoRecords DEF EntriesOK
    <2>4. ZipOK'
      BY <1>4, <1>6, <2>1, <2>2, <2>3 DEF ZipOK
    <2>5. FormatOK'
      BY <1>1, <1>6, <2>4, ZipFormat DEF ParseGoesOn
    <2>6. Stage(acc') > Stage(acc)
      BY <1>1, <2>1 DEF Stage
    <2> QED
      BY <1>1, <1>4, <1>6, <2>5, <2>6, GoesOnStep
  <1> QED
    BY <1>3, <1>5, <1>6

\* The values of the ZIP64 field are numbers, and as many as are needed.
LEMMA ZipResolved ==
  ASSUME NEW fields, IsVector(fields), \A i \in 1 .. Len(fields) : fields[i] \in Nat,
         NEW extra, IsVector(extra.zip64),
         \A i \in DOMAIN extra.zip64 :
           /\ IsVector(extra.zip64[i])
           /\ \A j \in DOMAIN extra.zip64[i] : extra.zip64[i][j] \in Nat
  PROVE  \A i \in 1 .. Len(fields) : ZipResolve(fields, extra)[i] \in Nat
  <1> DEFINE needed == ZipNeeded(fields)
  <1>1. Len(fields) \in Nat /\ DOMAIN fields = 1 .. Len(fields)
    BY VectorIsSeq
  <1>2. needed \in SUBSET (1 .. Len(fields)) /\ IsFiniteSet(needed)
    <2>1. needed \in SUBSET (1 .. Len(fields))
      BY <1>1 DEF ZipNeeded
    <2>2. IsFiniteSet(1 .. Len(fields))
      BY <1>1, FS_Interval
    <2> QED
      BY <2>1, <2>2, FS_Subset
  <1> HIDE DEF needed
  <1>3. SUFFICES ASSUME NEW i \in 1 .. Len(fields)
                 PROVE  ZipResolve(fields, extra)[i] \in Nat
    OBVIOUS
  <1> DEFINE before == {j \in needed : j <= i}
             n == Cardinality(before)
  <1>4. ZipResolve(fields, extra)[i]
          = IF i \notin needed \/ ~ ZipResolvable(fields, extra) THEN fields[i]
            ELSE extra.zip64[1][n]
    BY <1>1 DEF ZipResolve, needed
  <1>5. ASSUME i \in needed, ZipResolvable(fields, extra)
        PROVE  extra.zip64[1][n] \in Nat
    <2>1. Len(extra.zip64) = 1 /\ Len(extra.zip64[1]) = Cardinality(needed)
      BY <1>5 DEF ZipResolvable, needed
    <2>2. i \in before /\ before \in SUBSET needed
      BY <1>5
    <2> HIDE DEF before
    <2>3. IsFiniteSet(before) /\ n <= Cardinality(needed)
      BY <1>2, <2>2, FS_Subset, Zenon
    <2>4. n \in Nat /\ n # 0 /\ Cardinality(needed) \in Nat
      BY <1>2, <2>2, <2>3, FS_CardinalityType, FS_EmptySet
    <2>5. 1 \in DOMAIN extra.zip64
      BY <2>1, VectorIsSeq
    <2>6. DOMAIN extra.zip64[1] = 1 .. Cardinality(needed)
      BY <2>1, <2>5, VectorIsSeq
    <2>7. n \in DOMAIN extra.zip64[1]
      BY <2>3, <2>4, <2>6
    <2> QED
      BY <2>5, <2>7
  <1> HIDE DEF n
  <1> QED
    BY <1>4, <1>5

\* The fields of a central record once they are resolved.
LEMMA ZipSizes ==
  ASSUME CellsOK(Cells), NEW o
  PROVE  LET c == RecordAt(Cells, o, "central", ZipNoRecord)
             sizes == ZipResolve(ZipCentralFields(c), c.extra) IN
         sizes[1] \in Nat /\ sizes[2] \in Nat /\ sizes[3] \in Nat
  <1> DEFINE c == RecordAt(Cells, o, "central", ZipNoRecord)
             fields == ZipCentralFields(c)
  <1>1. c = ZipNoRecord \/ (CellOK(c) /\ c.k = "central")
    BY RecordFound
  <1>2. /\ ZipNoRecord.usize = 0 /\ ZipNoRecord.csize = 0 /\ ZipNoRecord.offset = 0
        /\ ZipNoRecord.disk = 0 /\ ZipNoRecord.extra.zip64 = << >>
    BY DEF ZipNoRecord, ZipRecord, ZipNoExtra
  <1> HIDE DEF c
  <1>3. CellOK(c) /\ c.k = "central" => RecordOK(c)
    BY DEF CellOK
  <1>4. /\ c.usize \in Nat /\ c.csize \in Nat /\ c.offset \in Nat /\ c.disk \in Nat
    BY <1>1, <1>2, <1>3 DEF RecordOK, Unsigned
  <1>5. /\ IsVector(c.extra.zip64)
        /\ \A i \in DOMAIN c.extra.zip64 :
             /\ IsVector(c.extra.zip64[i])
             /\ \A j \in DOMAIN c.extra.zip64[i] : c.extra.zip64[i][j] \in Nat
    <2>1. CASE c = ZipNoRecord
      <3>1. c.extra.zip64 = << >>
        BY <1>2, <2>1
      <3>2. DOMAIN << >> = {}
        OBVIOUS
      <3> QED
        BY <3>1, <3>2, NoRecords
    <2>2. CASE CellOK(c) /\ c.k = "central"
      BY <1>3, <2>2 DEF RecordOK
    <2> QED
      BY <1>1, <2>1, <2>2
  <1>6. IsVector(fields) /\ Len(fields) = 4
    BY DEF ZipCentralFields, IsVector
  <1>7. fields[1] = c.usize /\ fields[2] = c.csize /\ fields[3] = c.offset /\ fields[4] = c.disk
    BY DEF ZipCentralFields
  <1> HIDE DEF fields
  <1>8. \A i \in 1 .. 4 : i = 1 \/ i = 2 \/ i = 3 \/ i = 4
    OBVIOUS
  <1>9. \A i \in 1 .. Len(fields) : fields[i] \in Nat
    BY <1>4, <1>6, <1>7, <1>8
  <1>10. \A i \in 1 .. Len(fields) : ZipResolve(fields, c.extra)[i] \in Nat
    BY <1>5, <1>6, <1>9, ZipResolved, Zenon
  <1>11. 1 \in 1 .. 4 /\ 2 \in 1 .. 4 /\ 3 \in 1 .. 4
    OBVIOUS
  <1> QED
    BY <1>6, <1>10, <1>11, Zenon DEF fields, c

\* The descriptor is behind the data.
LEMMA ZipExtents ==
  ASSUME NEW c, NEW l, NEW place \in Nat, NEW sizes, sizes[2] \in Nat, NEW dir
  PROVE  LET x == ZipExtent(c, l, place, sizes, dir) IN
         /\ x.start = place + 1 /\ x.dataEnd = place + 1 + sizes[2]
         /\ x.end \in Int /\ x.end >= x.dataEnd
  <1> DEFINE o == place + 1 + sizes[2]
             wide == ZipNeeded(<<c.usize, c.csize>>) # {}
             x == ZipExtent(c, l, place, sizes, dir)
             d == ZipDescriptor(o, c, sizes, wide, dir)
  <1>1. /\ x.start = place + 1 /\ x.dataEnd = o
        /\ x.end = IF "descriptor" \in l.flags THEN d.end ELSE o
    BY DEF ZipExtent
  <1>2. o \in Nat
    OBVIOUS
  <1> HIDE DEF x, o
  <1>3. ASSUME NEW p \in Nat
        PROVE  /\ ZipDescriptorValues(p, c, sizes, wide, dir).end \in Nat
               /\ ZipDescriptorValues(p, c, sizes, wide, dir).end >= p
    <2> DEFINE width == IF wide THEN 2 ELSE 1
    <2>1. ZipDescriptorValues(p, c, sizes, wide, dir).end = p + 1 + 2 * width
      BY DEF ZipDescriptorValues
    <2>2. width \in Nat
      OBVIOUS
    <2> HIDE DEF width
    <2> QED
      BY <2>1, <2>2
  <1>4. d = ZipDescriptorValues(o + 1, c, sizes, wide, dir)
        \/ d = ZipDescriptorValues(o, c, sizes, wide, dir)
    BY DEF ZipDescriptor
  <1> HIDE DEF d
  <1>5. d.end \in Nat /\ d.end >= o
    <2>1. o + 1 \in Nat /\ o + 1 >= o
      BY <1>2
    <2>2. CASE d = ZipDescriptorValues(o + 1, c, sizes, wide, dir)
      <3>1. d.end \in Nat /\ d.end >= o + 1
        BY <1>3, <2>1, <2>2
      <3> QED
        BY <1>2, <3>1
    <2>3. CASE d = ZipDescriptorValues(o, c, sizes, wide, dir)
      BY <1>2, <1>3, <2>3
    <2> QED
      BY <1>4, <2>2, <2>3
  <1>6. x.end \in Int /\ x.end >= x.dataEnd
    BY <1>1, <1>2, <1>5
  <1> QED
    BY <1>1, <1>6 DEF x, o

\* A central record and its local header are read into an entry.
LEMMA ZipCentralStep ==
  ASSUME Inv, ZipCentral
  PROVE  Good
  <1> DEFINE c == RecordAt(Cells, offset, "central", ZipNoRecord)
             sizes == ZipResolve(ZipCentralFields(c), c.extra)
             place == acc.base + sizes[3]
             l == RecordAt(Cells, place, "local", ZipNoRecord)
             x == ZipExtent(c, l, place, sizes, acc.dir)
             e == ZipEntry(c, x, place, sizes)
             n == Len(entries)
  <1>1. Is("zip") /\ op = "open" /\ acc.format = "zip" /\ CellsOK(Cells) /\ opened = "none"
        /\ offset \in Int
    BY DEF ZipCentral, Inv, ControlOK
  <1>2. ZipOK /\ EntriesOK /\ acc.base \in Nat
        /\ {"format", "names", "dir", "dirEnd", "base", "hint", "comment"} \subseteq DOMAIN acc
    BY <1>1, OneFormat DEF Inv, ZipOK
  <1>3. \/ \E r : r # "ok" /\ ParseFails(r)
        \/ /\ entries' = Append(entries, e)
           /\ acc' = [acc EXCEPT !.names = @ + Len(c.name)]
           /\ offset' = offset + 1 /\ ParseGoesOn
    BY DEF ZipCentral
  <1>4. sizes[1] \in Nat /\ sizes[2] \in Nat /\ sizes[3] \in Nat
    BY <1>1, ZipSizes
  <1>5. place \in Nat
    <2> HIDE DEF sizes
    <2> QED
      BY <1>2, <1>4
  <1> HIDE DEF sizes, place, c, l
  <1>6. /\ x.start = place + 1 /\ x.dataEnd = place + 1 + sizes[2]
        /\ x.end \in Int /\ x.end >= x.dataEnd
    BY <1>4, <1>5, ZipExtents
  <1>7. e.start = x.start /\ e.end = x.dataEnd /\ e.place = place /\ e.last = x.end
        /\ e.size = sizes[1]
    BY DEF ZipEntry
  <1> HIDE DEF x, e
  <1>8. EntryOK(e) /\ ZipEntryOK(e)
    BY <1>4, <1>5, <1>6, <1>7 DEF EntryOK, ZipEntryOK
  <1>9. CASE \E r : r # "ok" /\ ParseFails(r)
    BY <1>1, <1>9, FailsStep DEF ParseFails
  <1>10. CASE /\ entries' = Append(entries, e)
              /\ acc' = [acc EXCEPT !.names = @ + Len(c.name)]
              /\ offset' = offset + 1 /\ ParseGoesOn
    <2>1. IsVector(entries) /\ n \in Nat /\ \A i \in 1 .. n : EntryOK(entries[i]) /\ ZipEntryOK(entries[i])
      BY <1>2 DEF ZipOK, EntriesOK, IsVector
    <2>2. /\ IsVector(entries') /\ Len(entries') = n + 1
          /\ \A i \in 1 .. n : entries'[i] = entries[i]
          /\ entries'[n + 1] = e
      BY <1>10, <2>1, AppendVector
    <2>3. \A i \in 1 .. n + 1 : i \in 1 .. n \/ i = n + 1
      BY <2>1
    <2>4. ASSUME NEW i \in 1 .. n + 1
          PROVE  EntryOK(entries'[i]) /\ ZipEntryOK(entries'[i])
      BY <1>8, <2>1, <2>2, <2>3
    <2>5. \A i \in 1 .. Len(entries') : EntryOK(entries'[i]) /\ ZipEntryOK(entries'[i])
      BY <2>2, <2>4
    <2>6. DOMAIN acc' = DOMAIN acc /\ acc'.format = "zip" /\ acc'.dir = acc.dir
          /\ acc'.dirEnd = acc.dirEnd /\ acc'.base = acc.base
      BY <1>1, <1>2, <1>10
    <2>7. Cells' = Cells /\ opened' # "ok"
      BY <1>1, <1>10 DEF ParseGoesOn, Cells
    <2>8. EntriesOK' /\ \A i \in 1 .. Len(entries') :
                          /\ entries'[i].size \in Nat
                          /\ entries'[i].place \in Nat /\ entries'[i].last \in Int
                          /\ entries'[i].place < entries'[i].start
                          /\ entries'[i].end <= entries'[i].last
      BY <2>2, <2>5 DEF EntriesOK, EntryOK, ZipEntryOK
    <2>9. ZipOK'
      BY <1>1, <1>2, <2>6, <2>7, <2>8 DEF ZipOK, ZipEntryOK
    <2>10. FormatOK'
      BY <1>1, <1>10, <2>9, ZipFormat DEF ParseGoesOn
    <2>11. Stage(acc') = Stage(acc)
      BY <1>1, <2>6 DEF Stage
    <2>12. offset' \in Int /\ offset' > offset
      BY <1>1, <1>10
    <2> QED
      BY <1>1, <1>10, <2>10, <2>11, <2>12, GoesOnStep
  <1> QED
    BY <1>3, <1>9, <1>10

\* The directory is complete: its entries are compared with each other.
LEMMA ZipListedStep ==
  ASSUME Inv, ZipListed
  PROVE  Good
  <1> DEFINE s == << <<Len(entries) = acc.hint, "format">>,
                     <<ZipNonOverlapping, "format">>,
                     <<acc.comment <= limits.header, "limit">> >>
             r == FirstFailure(s)
  <1>1. Is("zip") /\ op = "open" /\ OpenReturns(r) /\ UNCHANGED parseVars
    BY DEF ZipListed
  <1>2. Checks(s) /\ Len(s) = 3 /\ s[2][1] = ZipNonOverlapping
    BY DEF Checks, IsVector
  <1> HIDE DEF s
  <1>3. r = "ok" => ZipNonOverlapping
    <2>1. 2 \in 1 .. 3
      OBVIOUS
    <2> QED
      BY <1>2, <2>1, AllHold, Zenon
  <1>4. input' = input /\ opened' = r
    BY <1>1 DEF OpenReturns
  <1>5. ZipOK
    BY <1>1, OneFormat DEF Inv
  <1>6. ZipOK'
    BY <1>1, <1>3, <1>4, <1>5
       DEF ZipOK, Cells, EntriesOK, EntryOK, ZipEntryOK, ZipNonOverlapping, parseVars
  <1>7. FormatOK'
    BY <1>1, <1>4, <1>6, ZipFormat
  <1>8. offset' \in Int
    BY <1>1 DEF Inv, ControlOK, parseVars
  <1> QED
    BY <1>1, <1>7, <1>8, ListedStep

\* Every step of the ZIP reader.
LEMMA ZipNextStep ==
  ASSUME Inv, ZipNext
  PROVE  Good
  <1>1. CASE ZipReadPath
    BY <1>1, SharedSteps DEF ZipReadPath
  <1>2. CASE ZipOpenBytes
    BY <1>2, SharedSteps DEF ZipOpenBytes
  <1>3. CASE ZipLocate \/ ZipCentral \/ ZipListed
    BY <1>3, ZipLocateStep, ZipCentralStep, ZipListedStep
  <1>4. CASE ZipVerify
    BY <1>4, SharedSteps, VerifyStep DEF ZipVerify
  <1>5. CASE ZipWrite
    BY <1>5, SharedSteps DEF ZipWrite
  <1>6. Is("zip") => EntriesOK /\ CellsOK(Cells)
                     /\ \A i \in 1 .. Len(entries) : entries[i].size \in Nat
    BY OneFormat DEF Inv, ControlOK, ZipOK, ZipEntryOK
  <1>7. ASSUME Is("zip"), NEW i \in DOMAIN entries PROVE IsVector(ZipOutput(entries[i]))
    BY <1>6, <1>7, EntryThere, ZipContent
  <1>8. CASE ZipExtractEntries
    <2>1. CASE ExtractDone
      BY <2>1, SharedSteps
    <2>2. CASE at \in DOMAIN entries
      BY <1>7, <1>8, <2>2, BeginStep, SharedSteps DEF ZipExtractEntries
    <2> QED
      BY <1>8, <2>1, <2>2 DEF ZipExtractEntries
  <1>9. CASE ZipExtractEntry
    <2>1. PICK i \in 1 .. Len(entries) + 1 :
            BeginAlone(i, ZipAlone(i), IF i \in DOMAIN entries THEN ZipOutput(entries[i]) ELSE << >>)
      BY <1>9 DEF ZipExtractEntry
    <2>2. i \in Nat \ {0}
      BY <1>6, <1>9, Indices DEF ZipExtractEntry
    <2>3. IsVector(IF i \in DOMAIN entries THEN ZipOutput(entries[i]) ELSE << >>)
      BY <1>7, <1>9, NoRecords DEF ZipExtractEntry
    <2> QED
      BY <2>1, <2>2, <2>3, AloneStep
  <1> QED
    BY <1>1, <1>2, <1>3, <1>4, <1>5, <1>8, <1>9 DEF ZipNext
-----------------------------------------------------------------------------
(***************************************************************************)
(* The theorems                                                            *)
(***************************************************************************)

\* Every reader starts before its parser, with nothing listed.
LEMMA InitInv ==
  Init => Inv
  <1> SUFFICES ASSUME Init
               PROVE  Inv
    OBVIOUS
  <1>1. PICK c \in Cases : input = c.input /\ limits = c.limits
    BY DEF Init
  <1>2. /\ CellsOK(Cells) /\ LimitsOK(limits)
        /\ input.format \in {"cpio", "zip", "rpm", "deb", "arj"}
    BY <1>1, CasesAssumption DEF Cells
  <1>3. FormatOK
    <2>1. /\ acc = [header |-> 0, names |-> 0, format |-> "none"] /\ entries = << >>
          /\ offset \in Nat /\ opened # "ok"
      BY DEF Init
    <2> QED
      BY <2>1, FormatStarts
  <1>4. op \in {"stat", "start"}
    BY DEF Init
  <1>5. IsVector(finished)
    BY NoRecords DEF Init
  <1>6. ControlOK
    BY <1>2, <1>4, <1>5, Order DEF Init, ControlOK
  <1> QED
    BY <1>3, <1>6 DEF Inv

\* A step in which nothing changes.
LEMMA RestStep ==
  ASSUME Inv, UNCHANGED vars
  PROVE  Inv' /\ SinkStep
  <1>1. FormatOK'
    BY FormatStays DEF Inv, vars, parseVars
  <1>2. ControlOK'
    BY DEF Inv, ControlOK, Cells, vars, parseVars, loopVars
  <1>3. SinkStep
    BY DEF SinkStep, Sink!sinkVars, vars, loopVars
  <1> QED
    BY <1>1, <1>2, <1>3 DEF Inv

\* A step of any reader keeps the invariant, is a step of the sink's promise
\* or none, and goes forward unless it is none.
LEMMA NextStep ==
  ASSUME Inv, [Next]_vars
  PROVE  Inv' /\ SinkStep /\ [RoundGoesForward]_vars
  <1>1. CASE UNCHANGED vars
    BY <1>1, RestStep
  <1>2. CASE Returned
    BY <1>2, RestStep DEF Returned
  <1>3. CASE CpioNext \/ ZipNext \/ RpmNext \/ DebNext \/ ArjNext
    BY <1>3, CpioNextStep, ZipNextStep, RpmNextStep, DebNextStep, ArjNextStep DEF Good
  <1>4. CASE Interrupt
    BY <1>4, InterruptStep DEF Good
  <1> QED
    BY <1>1, <1>2, <1>3, <1>4 DEF Next

\* Whatever was read, the invariant holds.
LEMMA InvariantHolds ==
  Spec => []Inv
  <1>1. Inv /\ [Next]_vars => Inv'
    BY NextStep
  <1> QED
    BY InitInv, <1>1, PTL DEF Spec

\* What lies one behind the other shares nothing.
LEMMA BehindIsDisjoint ==
  ASSUME NEW cells, EntriesOK, BehindEachOther(cells), NEW i \in DOMAIN entries,
         NEW j \in DOMAIN entries
  PROVE  /\ entries[i].end <= Len(cells)
         /\ i # j => entries[i].end <= entries[j].start \/ entries[j].end <= entries[i].start
  <1>1. DOMAIN entries = 1 .. Len(entries) /\ Len(entries) \in Nat
    BY VectorIsSeq DEF EntriesOK
  <1>2. i # j => i < j \/ j < i
    BY <1>1
  <1> QED
    BY <1>1, <1>2 DEF BehindEachOther

\* The invariant keeps the entries apart, in each reader for its own reason.
LEMMA InvIsDisjoint ==
  Inv => EntriesAreDisjoint
  <1> SUFFICES ASSUME Inv, opened = "ok", NEW i \in DOMAIN entries, NEW j \in DOMAIN entries
               PROVE  /\ entries[i].end <= Len(Retained(entries[i]))
                      /\ i # j /\ (input.format = "deb" => entries[i].section = entries[j].section) =>
                           entries[i].end <= entries[j].start \/ entries[j].end <= entries[i].start
    BY DEF EntriesAreDisjoint, Listed
  <1>1. entries # << >>
    BY NoRecords
  <1>2. CASE Is("cpio")
    <2>1. CpioOK(Cells) /\ Retained(entries[i]) = Cells
      BY <1>2 DEF Inv, FormatOK, Is, Retained
    <2> QED
      BY <2>1, BehindIsDisjoint DEF CpioOK
  <1>3. CASE Is("rpm")
    <2>1. CpioOK(acc.payload) /\ Retained(entries[i]) = acc.payload
      BY <1>1, <1>3 DEF Inv, FormatOK, Is, RpmOK, Retained
    <2> QED
      BY <2>1, BehindIsDisjoint DEF CpioOK
  <1>4. CASE Is("arj")
    <2>1. ArjOK /\ Retained(entries[i]) = Cells
      BY <1>4 DEF Inv, FormatOK, Is, Retained
    <2> QED
      BY <2>1, BehindIsDisjoint DEF ArjOK
  <1>5. CASE Is("deb")
    <2>1. DebOK /\ Retained(entries[i]) = DebSection(entries[i])
      BY <1>5 DEF Inv, FormatOK, Is, Retained
    <2>2. DOMAIN entries = 1 .. Len(entries) /\ Len(entries) \in Nat
      BY <2>1, VectorIsSeq DEF DebOK, EntriesOK
    <2>3. entries[i].end <= Len(DebSection(entries[i]))
      BY <2>1, <2>2 DEF DebOK, DebEntryOK
    <2>4. ASSUME i # j, entries[i].section = entries[j].section
          PROVE  entries[i].end <= entries[j].start \/ entries[j].end <= entries[i].start
      <3>1. i < j \/ j < i
        BY <2>2, <2>4
      <3> QED
        BY <2>1, <2>2, <2>4, <3>1 DEF DebOK
    <2> QED
      BY <1>5, <2>1, <2>3, <2>4 DEF Is
  <1>6. CASE Is("zip")
    <2>1. ZipOK /\ ZipNonOverlapping /\ Retained(entries[i]) = Cells
      BY <1>6 DEF Inv, FormatOK, Is, ZipOK, Retained
    <2>2. DOMAIN entries = 1 .. Len(entries) /\ Len(Cells) \in Nat
      BY <2>1, VectorIsSeq DEF ZipOK, EntriesOK, Inv, ControlOK, CellsOK
    <2>3. acc.format = "zip" /\ acc.dir \in Int /\ acc.dir <= Len(Cells)
      BY <1>1, <2>1 DEF ZipOK
    <2>4. /\ EntryOK(entries[i]) /\ ZipEntryOK(entries[i])
          /\ EntryOK(entries[j]) /\ ZipEntryOK(entries[j])
      BY <2>1, <2>2 DEF ZipOK, EntriesOK
    <2>5. entries[i].last <= acc.dir
      BY <2>1 DEF ZipNonOverlapping
    <2>6. entries[i].end <= Len(Cells)
      BY <2>2, <2>3, <2>4, <2>5 DEF EntryOK, ZipEntryOK
    <2>7. ASSUME i # j
          PROVE  entries[i].end <= entries[j].start \/ entries[j].end <= entries[i].start
      <3>1. \/ entries[i].last <= entries[j].place
            \/ entries[j].last <= entries[i].place
        BY <2>1, <2>7 DEF ZipNonOverlapping
      <3> QED
        BY <2>4, <3>1 DEF EntryOK, ZipEntryOK
    <2> QED
      BY <2>1, <2>6, <2>7
  <1> QED
    BY <1>2, <1>3, <1>4, <1>5, <1>6 DEF Inv, ControlOK, Is

\* The entries of an archive that any of the five readers opened lie inside
\* the bytes it keeps and share none of them: the ZIP reader by the check at
\* the end of its directory, the others because their parsers only go
\* forward, whatever their fields say.
THEOREM EntriesLieApart ==
  Spec => []EntriesAreDisjoint
  BY InvariantHolds, InvIsDisjoint, PTL

\* A round of open, of verify or of an extraction goes forward, whatever the
\* fields say that it read: none of them can be kept busy in one place.
THEOREM RoundsGoForward ==
  Spec => RoundsAdvance
  <1>1. Inv /\ [Next]_vars => [RoundGoesForward]_vars
    BY NextStep
  <1> QED
    BY InvariantHolds, <1>1, PTL DEF Spec, RoundsAdvance

\* extract_entries_to of every reader calls its sink as EntrySink says: the
\* entries one at a time and in order, each finished only with all of its
\* bytes, and nothing after the return.
THEOREM SinkKept ==
  Spec => ImplementsSink
  <1>1. Init => Sink!SinkInit
    BY DEF Init, Sink!SinkInit
  <1>2. Inv /\ [Next]_vars => [Sink!SinkNext]_(Sink!sinkVars)
    BY NextStep DEF SinkStep
  <1> QED
    BY InvariantHolds, <1>1, <1>2, PTL DEF Spec, ImplementsSink, Sink!SinkSpec
-----------------------------------------------------------------------------
(***************************************************************************)
(* The limits: what is decoded stays within the output it was allowed       *)
(***************************************************************************)
\* A decoder whose output stays within a bound.
Within(d, bound) == DecoderOK(d) /\ Len(d.out) <= bound

\* A result does not change that.
LEMMA FailedWithin ==
  ASSUME NEW d, NEW bound, Within(d, bound), NEW r
  PROVE  Within([d EXCEPT !.result = r], bound)
  BY FailedDecoder DEF Within, DecoderOK

\* One operation does not pass the target.
LEMMA AppliedWithin ==
  ASSUME NEW d, NEW target \in Int, Within(d, target), Len(d.out) # target,
         NEW p, OperationOK(p)
  PROVE  Within(LzmaApply(d, target, p), target)
  <1> DEFINE c == Advance(d.coder, CodedAs(d.coder, DecoderContext(d.out, d.start), d.out, p), p)
             distance == OperationDistance(d.coder.repetitions, p)
             x == LzmaApply(d, target, p)
  <1> SUFFICES Within(x, target)
    OBVIOUS
  <1>1. DecoderOK(x)
    BY AppliedOperation DEF Within
  <1>2. RecordsOK(d.out) /\ Len(d.out) \in Nat /\ CoderOK(d.coder) /\ d.start \in 0 .. Len(d.out)
        /\ Len(d.out) < target
    BY DEF Within, DecoderOK, RecordsOK, IsVector
  <1> HIDE DEF c
  <1>3. CASE p.kind = "literal"
    <2>1. x = [d EXCEPT !.coder = c, !.out = Append(@, p.byte)]
      BY <1>3 DEF LzmaApply, c
    <2>2. Len(Append(d.out, p.byte)) = Len(d.out) + 1
      BY <1>2, AppendRecords DEF OperationOK
    <2>3. x.out = Append(d.out, p.byte)
      BY <2>1 DEF Within, DecoderOK
    <2> HIDE DEF x
    <2> QED
      BY <1>1, <1>2, <2>2, <2>3 DEF Within
  <1>4. CASE /\ p.kind # "literal" /\ p.kind # "end"
             /\ ~ (Len(d.out) + p.length > target) /\ ~ (distance > d.dictionary)
             /\ ~ (distance > Len(d.out) - d.start)
    <2>1. x = [d EXCEPT !.coder = c, !.out = CopyMatch(@, distance, p.length)]
      BY <1>4 DEF LzmaApply, c
    <2>2. distance \in Nat \ {0}
      <3>1. p.kind = "match" => distance = p.distance /\ p.distance \in Nat \ {0}
        BY DEF OperationDistance, OperationOK
      <3>2. p.kind = "short" => distance = d.coder.repetitions[1] + 1
        BY DEF OperationDistance
      <3>3. p.kind = "rep" => /\ distance = d.coder.repetitions[p.which] + 1
                              /\ p.which \in 1 .. 4
        BY DEF OperationDistance, OperationOK
      <3>4. p.kind \in {"match", "short", "rep"}
        BY <1>4 DEF OperationOK
      <3>5. \A i \in 1 .. 4 : d.coder.repetitions[i] + 1 \in Nat \ {0}
        BY <1>2, SMTT(40) DEF CoderOK
      <3> QED
        BY <3>1, <3>2, <3>3, <3>4, <3>5
    <2>3. distance <= Len(d.out) /\ p.length \in Nat
      BY <1>2, <1>4, <2>2 DEF OperationOK
    <2> HIDE DEF distance
    <2>4. Len(CopyMatch(d.out, distance, p.length)) = Len(d.out) + p.length
      BY <1>2, <2>2, <2>3, CopiedRecords, Zenon
    <2>5. x.out = CopyMatch(d.out, distance, p.length)
      BY <2>1 DEF Within, DecoderOK
    <2> HIDE DEF x
    <2> QED
      BY <1>1, <1>2, <1>4, <2>3, <2>4, <2>5 DEF Within
  <1>5. CASE /\ p.kind # "literal"
             /\ \/ p.kind = "end" \/ Len(d.out) + p.length > target \/ distance > d.dictionary
                \/ distance > Len(d.out) - d.start
    <2>1. x = [d EXCEPT !.result = "format"]
      BY <1>5 DEF LzmaApply
    <2> QED
      BY <2>1, FailedWithin
  <1> QED
    BY <1>3, <1>4, <1>5

\* Nor does a round of the loop over the operations.
LEMMA StepWithin ==
  ASSUME NEW d, NEW target \in Int, Within(d, target), NEW o, OperationOK(o)
  PROVE  Within(LzmaStep(d, target, o), target)
  BY DecodedOperation, AppliedWithin DEF LzmaStep

\* Nor the loop.
LEMMA OperationsWithin ==
  ASSUME NEW d, NEW target \in Int, Within(d, target),
         NEW s, IsVector(s), \A i \in 1 .. Len(s) : OperationOK(s[i])
  PROVE  Within(OperationsOutcome(d, s, target), target)
  <1> DEFINE n == Len(s)
  <1>1. n \in Nat
    BY DEF IsVector
  <1>0. PICK h : OperationsRow(h, d, s, target)
    BY OperationsFold, Zenon
  <1>2. /\ h[0] = d
        /\ \A i \in 1 .. Len(s) : h[i] = LzmaStep(h[i - 1], target, s[i])
        /\ OperationsOutcome(d, s, target) = h[Len(s)]
    BY <1>0 DEF OperationsRow
  <1> DEFINE N == {m \in Nat : m <= n => Within(h[m], target)}
  <1> HIDE DEF n
  <1>3. 0 \in N
    BY <1>2
  <1>4. ASSUME NEW m \in Nat, m \in N PROVE m + 1 \in N
    <2> SUFFICES ASSUME m + 1 <= n PROVE Within(h[m + 1], target)
      OBVIOUS
    <2>1. m + 1 \in 1 .. n /\ m <= n /\ (m + 1) - 1 = m
      BY <1>1
    <2>2. h[m + 1] = LzmaStep(h[m], target, s[m + 1]) /\ OperationOK(s[m + 1])
      BY <1>2, <2>1 DEF n
    <2>3. Within(h[m], target)
      BY <1>4, <2>1
    <2> QED
      BY <2>2, <2>3, StepWithin
  <1>5. n \in N
    <2> HIDE DEF N
    <2> QED
      BY <1>1, <1>3, <1>4, SetInduction
  <1> QED
    BY <1>1, <1>2, <1>5 DEF n

\* The operations of a chunk stay within the maximum.
LEMMA StreamWithin ==
  ASSUME NEW d, NEW maximum \in Int, Within(d, maximum), NEW chunk, ChunkOK(chunk),
         chunk.size \in Nat
  PROVE  Within(DecodeStream(d, chunk, maximum), maximum)
  <1> DEFINE target == Len(d.out) + chunk.size
             f == OperationsOutcome(d, chunk.operations, target)
  <1>1. target \in Nat /\ Within(d, target)
    BY DEF Within, DecoderOK, RecordsOK, IsVector
  <1>2. /\ IsVector(chunk.operations)
        /\ \A i \in 1 .. Len(chunk.operations) : OperationOK(chunk.operations[i])
    BY VectorIsSeq DEF ChunkOK
  <1>3. DecodeStream(d, chunk, maximum)
          = IF target > maximum THEN [d EXCEPT !.result = "limit"] ELSE Ended(f, target)
    BY DEF DecodeStream, OperationsOutcome, FoldLeft, MapThenFoldSet
  <1> HIDE DEF target
  <1>4. Within(f, target)
    BY <1>1, <1>2, OperationsWithin
  <1> HIDE DEF f
  <1>5. Within(Ended(f, target), target)
    BY <1>4, FailedWithin, Zenon DEF Ended
  <1>6. ASSUME NEW x, Within(x, target), target <= maximum PROVE Within(x, maximum)
    BY <1>1, <1>6 DEF Within, DecoderOK, RecordsOK, IsVector
  <1> QED
    BY <1>1, <1>3, <1>5, <1>6, FailedWithin

\* A chunk stays within it.
LEMMA ChunkWithin ==
  ASSUME NEW d, NEW maximum \in Int, Within(d, maximum), NEW chunk, ChunkOK(chunk)
  PROVE  Within(DecodeChunk(d, chunk, maximum), maximum)
  <1>1. CASE chunk.control \in Compressed
    <2> DEFINE r == [d EXCEPT !.coder = ChunkCoder(d, chunk), !.needsProperties = FALSE]
    <2>1. CoderOK(ChunkCoder(d, chunk))
      BY <1>1, FreshCoder DEF ChunkCoder, Within, DecoderOK, Compressed, NewProperties
    <2>2. /\ DOMAIN r = DOMAIN d /\ r.out = d.out /\ r.start = d.start
          /\ r.coder = ChunkCoder(d, chunk)
      BY DEF Within, DecoderOK
    <2> HIDE DEF r
    <2>3. Within(r, maximum)
      BY <2>1, <2>2 DEF Within, DecoderOK
    <2>4. DecodeChunk(d, chunk, maximum)
            \in {[d EXCEPT !.result = "format"], DecodeStream(r, chunk, maximum)}
      BY <1>1 DEF DecodeChunk, r
    <2>5. chunk.size \in Nat
      BY <1>1 DEF ChunkOK
    <2> QED
      BY <2>3, <2>4, <2>5, FailedWithin, StreamWithin
  <1>2. CASE chunk.control \notin Compressed /\ chunk.control \in Uncompressed
    <2> DEFINE r == [d EXCEPT !.out = @ \o chunk.bytes]
    <2>1. Len(d.out \o chunk.bytes) = Len(d.out) + Len(chunk.bytes)
      BY ConcatRecords DEF Within, DecoderOK, ChunkOK, RecordsOK, IsVector
    <2>2. r.out = d.out \o chunk.bytes
      BY Zenon DEF Within, DecoderOK
    <2> HIDE DEF r
    <2>3. DecodeChunk(d, chunk, maximum)
            = IF Len(d.out) + Len(chunk.bytes) > maximum THEN [d EXCEPT !.result = "limit"]
              ELSE r
      BY <1>2 DEF DecodeChunk, r
    <2>4. DecoderOK(DecodeChunk(d, chunk, maximum))
      BY DecodedChunk DEF Within
    <2>5. Len(d.out) \in Nat /\ Len(chunk.bytes) \in Nat
      BY DEF Within, DecoderOK, ChunkOK, RecordsOK, IsVector
    <2>6. CASE Len(d.out) + Len(chunk.bytes) > maximum
      BY <2>3, <2>6, FailedWithin
    <2>7. CASE ~ (Len(d.out) + Len(chunk.bytes) > maximum)
      <3>1. DecodeChunk(d, chunk, maximum) = r
        BY <2>3, <2>7
      <3>2. Len(r.out) = Len(d.out) + Len(chunk.bytes)
        BY <2>1, <2>2, Zenon
      <3>0. \A a, b \in Nat : ~ (a + b > maximum) => a + b <= maximum
        OBVIOUS
      <3>3. Len(d.out) + Len(chunk.bytes) <= maximum
        BY <2>5, <2>7, <3>0, Zenon
      <3>4. Len(r.out) <= maximum
        BY <3>2, <3>3, Zenon
      <3> QED
        BY <2>4, <3>1, <3>4 DEF Within
    <2> QED
      BY <2>6, <2>7, Zenon
  <1>3. CASE chunk.control \notin Compressed /\ chunk.control \notin Uncompressed
    BY <1>3, FailedWithin DEF DecodeChunk
  <1> QED
    BY <1>1, <1>2, <1>3

\* A chunk with the checks around it does.
LEMMA RoundWithin ==
  ASSUME NEW d, NEW maximum \in Int, Within(d, maximum), NEW chunk, ChunkOK(chunk),
         NEW final \in BOOLEAN, NEW expected
  PROVE  Within(Lzma2Step(d, chunk, final, expected, maximum), maximum)
  <1> DEFINE resets == chunk.control \in DictionaryResets
             s == [d EXCEPT !.start = Len(d.out), !.needsReset = FALSE, !.needsProperties = TRUE]
             r == IF resets THEN s ELSE d
             c == DecodeChunk(r, chunk, maximum)
  <1>1. Within(s, maximum)
    <2>1. /\ DOMAIN s = DOMAIN d /\ s.out = d.out /\ s.start = Len(d.out)
          /\ s.coder = d.coder
      BY DEF Within, DecoderOK
    <2>2. Len(d.out) \in 0 .. Len(d.out)
      BY DEF Within, DecoderOK, RecordsOK, IsVector
    <2> HIDE DEF s
    <2> QED
      BY <2>1, <2>2 DEF Within, DecoderOK
  <1>2. Within(r, maximum)
    BY <1>1
  <1> HIDE DEF r
  <1>3. Within(c, maximum)
    BY <1>2, ChunkWithin
  <1> HIDE DEF c
  <1>4. Within(Bounded(c, expected), maximum)
    BY <1>3, FailedWithin, Zenon DEF Bounded
  <1> DEFINE e == IF final /\ (expected = NoSize \/ Len(d.out) = expected) THEN "ok" ELSE "format"
  <1>5. Lzma2Step(d, chunk, final, expected, maximum)
          \in {d, [d EXCEPT !.result = e], [d EXCEPT !.result = "format"], Bounded(c, expected)}
    <2> HIDE DEF e
    <2> QED
      BY DEF Lzma2Step, c, r, e
  <1> HIDE DEF e
  <1> QED
    BY <1>4, <1>5, FailedWithin

\* The chunks of a stream stay within the maximum.
LEMMA ChunksWithin ==
  ASSUME NEW base, NEW maximum \in Int, Within(base, maximum),
         NEW chunks, IsVector(chunks), \A i \in 1 .. Len(chunks) : ChunkOK(chunks[i]),
         NEW cells, NEW expected
  PROVE  Within(ChunksOutcome(base, [i \in DOMAIN chunks |-> i], chunks, cells, expected,
                              maximum), maximum)
  <1> DEFINE n == Len(chunks)
             s == [i \in DOMAIN chunks |-> i]
  <1>1. n \in Nat /\ DOMAIN chunks = 1 .. n
    BY VectorIsSeq
  <1>2. IsVector(s) /\ Len(s) = n /\ \A i \in 1 .. n : s[i] = i
    <2>1. s = [i \in 1 .. n |-> s[i]] /\ \A i \in 1 .. n : s[i] = i
      BY <1>1
    <2> HIDE DEF s, n
    <2> QED
      BY <1>1, <2>1, FunctionIsVector
  <1> HIDE DEF s
  <1>3. PICK h : ChunksRow(h, base, s, chunks, cells, expected, maximum)
    BY <1>2, ChunksFold, Zenon
  <1>4. /\ h[0] = base
        /\ \A i \in 1 .. n : h[i] = Lzma2Step(h[i - 1], chunks[s[i]],
                                s[i] = Len(chunks) /\ Len(cells) = 1, expected, maximum)
        /\ ChunksOutcome(base, s, chunks, cells, expected, maximum) = h[n]
    BY <1>2, <1>3 DEF ChunksRow
  <1> DEFINE N == {m \in Nat : m <= n => Within(h[m], maximum)}
  <1> HIDE DEF n
  <1>5. 0 \in N
    BY <1>4
  <1>6. ASSUME NEW m \in Nat, m \in N PROVE m + 1 \in N
    <2> SUFFICES ASSUME m + 1 <= n PROVE Within(h[m + 1], maximum)
      OBVIOUS
    <2>1. m + 1 \in 1 .. n /\ m <= n /\ (m + 1) - 1 = m
      BY <1>1
    <2>2. PICK final \in BOOLEAN : final = (s[m + 1] = Len(chunks) /\ Len(cells) = 1)
      BY Zenon
    <2>3. h[m + 1] = Lzma2Step(h[(m + 1) - 1], chunks[s[m + 1]],
                      s[m + 1] = Len(chunks) /\ Len(cells) = 1, expected, maximum)
      BY <1>4, <2>1, Zenon
    <2>4. h[m + 1] = Lzma2Step(h[m], chunks[s[m + 1]], final, expected, maximum)
      BY <2>1, <2>2, <2>3
    <2>5. Within(h[m], maximum)
      BY <1>6, <2>1
    <2>6. ChunkOK(chunks[s[m + 1]])
      BY <1>2, <2>1 DEF n
    <2> QED
      BY <2>4, <2>5, <2>6, RoundWithin
  <1>7. n \in N
    <2> HIDE DEF N
    <2> QED
      BY <1>1, <1>5, <1>6, SetInduction
  <1> QED
    BY <1>1, <1>4, <1>7 DEF s

\* The chunks of the cell that an LZMA2 stream is.
LEMMA StreamChunks ==
  ASSUME NEW cells, CellsOK(cells)
  PROVE  LET chunks == RecordAt(cells, 0, "lzma2", NoLzma2).chunks IN
         IsVector(chunks) /\ \A i \in 1 .. Len(chunks) : ChunkOK(chunks[i])
  <1> DEFINE r == RecordAt(cells, 0, "lzma2", NoLzma2)
  <1>1. r = NoLzma2 \/ (CellOK(r) /\ r.k = "lzma2")
    BY RecordFound
  <1>2. NoLzma2.chunks = << >>
    BY DEF NoLzma2, Lzma2
  <1>3. CASE r = NoLzma2
    BY <1>2, <1>3, NoRecords
  <1>4. CASE CellOK(r) /\ r.k = "lzma2"
    <2>1. IsVector(r.chunks) /\ \A i \in DOMAIN r.chunks : ChunkOK(r.chunks[i])
      BY <1>4 DEF CellOK
    <2> HIDE DEF r
    <2>2. DOMAIN r.chunks = 1 .. Len(r.chunks)
      BY <2>1, VectorIsSeq
    <2> QED
      BY <2>1, <2>2 DEF r
  <1> QED
    BY <1>1, <1>3, <1>4

\* An LZMA2 stream decodes to no more than the maximum.
LEMMA Lzma2Within ==
  ASSUME NEW cells, CellsOK(cells), NEW dictionary, NEW expected, NEW maximum \in Nat
  PROVE  Len(DecodeLzma2(cells, dictionary, expected, maximum).out) <= maximum
  <1> DEFINE chunks == RecordAt(cells, 0, "lzma2", NoLzma2).chunks
             first == [result |-> IF expected > maximum THEN "limit" ELSE "none",
                       out |-> << >>, start |-> 0, dictionary |-> dictionary,
                       needsReset |-> TRUE, needsProperties |-> TRUE,
                       coder |-> LzmaCoder([lp |-> 0, pb |-> 0, valid |-> FALSE])]
             f == ChunksOutcome(first, [i \in DOMAIN chunks |-> i], chunks, cells, expected,
                                maximum)
  <1>1. IsVector(chunks) /\ \A i \in 1 .. Len(chunks) : ChunkOK(chunks[i])
    BY StreamChunks
  <1>2. Within(first, maximum)
    <2>1. CoderOK(first.coder)
      BY FreshCoder
    <2>2. first.out = << >> /\ first.start = 0
      OBVIOUS
    <2>3. {"result", "out", "start", "needsReset", "needsProperties", "coder"} \subseteq DOMAIN first
      OBVIOUS
    <2> HIDE DEF first
    <2> QED
      BY <2>1, <2>2, <2>3, NoRecords DEF DecoderOK, Within
  <1> HIDE DEF first, chunks
  <1>3. Within(f, maximum)
    BY <1>1, <1>2, ChunksWithin
  <1>4. DecodeLzma2(cells, dictionary, expected, maximum) = WithoutEnd(f)
    BY DEF DecodeLzma2, ChunksOutcome, FoldLeft, MapThenFoldSet, first, chunks
  <1> HIDE DEF f
  <1>5. Within(WithoutEnd(f), maximum)
    BY <1>3, FailedWithin DEF WithoutEnd
  <1> QED
    BY <1>4, <1>5 DEF Within
-----------------------------------------------------------------------------
\* Filters keep the number of bytes.
LEMMA FilteredLength ==
  ASSUME NEW s, RecordsOK(s), NEW filters
  PROVE  Len(XzUnfiltered(filters, s)) = Len(s)
  <1>1. ASSUME NEW t, RecordsOK(t), NEW id
        PROVE  RecordsOK(XzUnfilter(id, t)) /\ Len(XzUnfilter(id, t)) = Len(t)
    <2> DEFINE f(i) == IF t[i].k # "byte" THEN t[i]
                       ELSE Byte((IF id = "delta"
                                  THEN MapThenSumSet(LAMBDA j : Value(t[j]), 1 .. i)
                                  ELSE t[i].v + i) % 4)
               u == [i \in 1 .. Len(t) |-> f(i)]
    <2>1. Len(t) \in Nat /\ DOMAIN t = 1 .. Len(t)
      BY <1>1, VectorIsSeq DEF RecordsOK
    <2>2. XzUnfilter(id, t) = u
      BY <2>1 DEF XzUnfilter
    <2>3. u = [i \in 1 .. Len(t) |-> u[i]]
      OBVIOUS
    <2> HIDE DEF u
    <2>4. Len(u) = Len(t)
      BY <2>1, <2>3, FunctionIsVector
    <2>5. \A id2 : RecordsOK(XzUnfiltered(<<[id |-> id2], [id |-> id2]>>, t))
      BY <1>1, FilteredRecords
    <2>6. RecordsOK(XzUnfilter(id, t))
      <3> DEFINE g == <<[id |-> id], [id |-> id]>>
      <3>1. Len(g) = 2 /\ g[1].id = id
        OBVIOUS
      <3>2. XzUnfiltered(g, t) = XzUnfilter(id, t)
        BY <3>1 DEF XzUnfiltered
      <3> QED
        BY <2>5, <3>2
    <2> QED
      BY <2>2, <2>4, <2>6
  <1> QED
    BY <1>1 DEF XzUnfiltered

\* One sequence behind the other: the lengths add up.
LEMMA FlatLength ==
  ASSUME NEW s, IsVector(s), \A i \in 1 .. Len(s) : RecordsOK(s[i]),
         NEW w, \A i \in 1 .. Len(s) : w[i] \in Nat /\ Len(s[i]) <= w[i]
  PROVE  Len(FlattenSeq(s)) <= SumFunctionOnSet(w, 1 .. Len(s))
  <1> DEFINE n == Len(s)
             G(g, m) == g = [i \in 1 .. m |-> IF i = 1 THEN s[i] ELSE g[i - 1] \o s[i]]
             c == CHOOSE g : G(g, n)
  <1>1. n \in Nat
    BY DEF IsVector
  <1>2. CASE n = 0
    <2>1. FlattenSeq(s) = s
      BY <1>2 DEF FlattenSeq
    <2>2. 1 .. Len(s) = {}
      BY <1>2
    <2>3. Len(s) = 0
      BY <1>2
    <2> QED
      BY <2>1, <2>2, <2>3, SumEmpty
  <1>3. CASE n # 0
    <2>1. FlattenSeq(s) = c[n]
      BY <1>3 DEF FlattenSeq
    <2> DEFINE N == {m \in Nat : \E g : G(g, m)}
    <2> HIDE DEF n
    <2>2. 0 \in N
      <3> DEFINE g == [i \in 1 .. 0 |-> s[i]]
      <3>1. \A i \in 1 .. 0 : FALSE
        OBVIOUS
      <3>2. G(g, 0)
        BY <3>1
      <3> QED
        BY <3>2, Zenon
    <2>3. ASSUME NEW m \in Nat, m \in N PROVE m + 1 \in N
      <3>1. PICK g : G(g, m)
        BY <2>3, Zenon
      <3> DEFINE k == [i \in 1 .. m + 1 |->
                         IF i <= m THEN g[i] ELSE IF i = 1 THEN s[i] ELSE g[i - 1] \o s[i]]
                 T(f, i) == IF i = 1 THEN s[i] ELSE f[i - 1] \o s[i]
      <3>2. \A i \in 1 .. m : g[i] = T(g, i)
        BY <3>1, Zenon
      <3>3. \A i \in 1 .. m + 1 :
              /\ i <= m => k[i] = g[i] /\ i \in 1 .. m
              /\ ~ (i <= m) => k[i] = T(g, i)
              /\ i # 1 => i - 1 \in 1 .. m /\ k[i - 1] = g[i - 1]
        OBVIOUS
      <3>4. k = [i \in 1 .. m + 1 |-> k[i]]
        OBVIOUS
      <3> HIDE DEF k
      <3>5. \A i \in 1 .. m + 1 : k[i] = T(k, i)
        <4> TAKE i \in 1 .. m + 1
        <4>1. k[i] = T(g, i)
          BY <3>2, <3>3
        <4>2. CASE i = 1
          BY <4>1, <4>2
        <4>3. CASE i # 1
          BY <3>3, <4>1, <4>3, Zenon
        <4> QED
          BY <4>2, <4>3
      <3>6. G(k, m + 1)
        <4> HIDE DEF T
        <4>1. k = [i \in 1 .. m + 1 |-> T(k, i)]
          BY <3>4, <3>5
        <4> QED
          BY <4>1, Zenon DEF T
      <3>7. \E f : G(f, m + 1)
        <4> HIDE DEF G
        <4> QED
          BY <3>6
      <3> HIDE DEF G
      <3> QED
        BY <3>7
    <2>4. n \in N
      <3> HIDE DEF N
      <3> QED
        BY <1>1, <2>2, <2>3, SetInduction, SMTT(40)
    <2>5. G(c, n)
      BY <2>4, Zenon
    <2> HIDE DEF c
    <2>6. \A i \in 1 .. n : RecordsOK(s[i]) /\ w[i] \in Nat /\ Len(s[i]) <= w[i]
      BY DEF n
    <2> DEFINE Sum(m) == SumFunctionOnSet(w, 1 .. m)
               M == {m \in Nat : m < n => RecordsOK(c[m + 1]) /\ Len(c[m + 1]) <= Sum(m + 1)}
    <2>7. ASSUME NEW m \in Nat, m < n
          PROVE  Sum(m) \in Int /\ Sum(m + 1) = Sum(m) + w[m + 1]
      <3>1. \A i \in 1 .. m + 1 : w[i] \in Int
        BY <1>1, <2>6, <2>7
      <3> QED
        BY <3>1, SumNext
    <2> HIDE DEF Sum
    <2>8. Sum(0) = 0
      <3>1. 1 .. 0 = {}
        OBVIOUS
      <3> QED
        BY <3>1, SumEmpty DEF Sum
    <2>9. 0 \in M
      <3>1. 1 \in 1 .. n /\ 0 + 1 = 1 /\ 0 < n
        BY <1>1, <1>3
      <3>2. c[1] = s[1]
        BY <2>5, <3>1
      <3>3. Sum(1) = 0 + w[1]
        BY <2>7, <2>8, <3>1
      <3> QED
        BY <2>6, <3>1, <3>2, <3>3
    <2>10. ASSUME NEW m \in Nat, m \in M PROVE m + 1 \in M
      <3> SUFFICES ASSUME m + 1 < n
                   PROVE  RecordsOK(c[(m + 1) + 1]) /\ Len(c[(m + 1) + 1]) <= Sum((m + 1) + 1)
        OBVIOUS
      <3>1. (m + 1) + 1 \in 1 .. n /\ (m + 1) + 1 # 1 /\ ((m + 1) + 1) - 1 = m + 1 /\ m < n
        BY <1>1
      <3>2. c[(m + 1) + 1] = c[m + 1] \o s[(m + 1) + 1]
        BY <2>5, <3>1, Zenon
      <3>3. /\ RecordsOK(c[m + 1]) /\ RecordsOK(s[(m + 1) + 1])
            /\ Len(c[m + 1]) <= Sum(m + 1) /\ Len(s[(m + 1) + 1]) <= w[(m + 1) + 1]
            /\ w[(m + 1) + 1] \in Nat
        BY <2>6, <2>10, <3>1
      <3>4. RecordsOK(c[m + 1] \o s[(m + 1) + 1])
            /\ Len(c[m + 1] \o s[(m + 1) + 1]) = Len(c[m + 1]) + Len(s[(m + 1) + 1])
        BY <3>3, ConcatRecords
      <3>5. Sum(m + 1) \in Int /\ Sum((m + 1) + 1) = Sum(m + 1) + w[(m + 1) + 1]
        BY <2>7
      <3>6. Len(c[m + 1]) \in Nat /\ Len(s[(m + 1) + 1]) \in Nat
        BY <3>3 DEF RecordsOK, IsVector
      <3>7. Len(c[(m + 1) + 1]) = Len(c[m + 1]) + Len(s[(m + 1) + 1])
        BY <3>2, <3>4, Zenon
      <3>0. \A a, b, x, y \in Int : a <= x /\ b <= y => a + b <= x + y
        OBVIOUS
      <3>8. Len(c[m + 1]) + Len(s[(m + 1) + 1]) <= Sum(m + 1) + w[(m + 1) + 1]
        <4>1. Len(c[m + 1]) \in Int /\ Len(s[(m + 1) + 1]) \in Int /\ w[(m + 1) + 1] \in Int
          BY <3>3, <3>6
        <4> QED
          BY <3>3, <3>5, <4>1, <3>0, Zenon
      <3>9. Len(c[(m + 1) + 1]) <= Sum((m + 1) + 1)
        BY <3>5, <3>7, <3>8, Zenon
      <3> QED
        BY <3>2, <3>4, <3>9, Zenon
    <2>11. n - 1 \in M /\ n - 1 \in Nat
      <3>1. n - 1 \in Nat
        BY <1>1, <1>3
      <3> HIDE DEF M
      <3> QED
        BY <2>9, <2>10, <3>1, SetInduction, Zenon
    <2>12. n - 1 < n /\ (n - 1) + 1 = n
      BY <1>1
    <2> QED
      BY <2>1, <2>11, <2>12 DEF Sum, n
  <1> QED
    BY <1>2, <1>3

\* The Index of an XZ stream has numbers for the sizes of what it decodes to.
LEMMA IndexSizes ==
  ASSUME NEW cells, CellsOK(cells)
  PROVE  LET records == XzIndexOf(cells).records IN
         \A i \in 1 .. Len(records) : records[i][2] \in Nat
  <1> DEFINE r == XzIndexOf(cells)
  <1>1. r = XzNoIndex \/ (CellOK(r) /\ r.k = "xzindex")
    BY RecordFound DEF XzIndexOf
  <1>2. XzNoIndex.records = << >>
    BY DEF XzNoIndex, XzIndex
  <1> HIDE DEF r
  <1>3. CASE r = XzNoIndex
    <2>1. \A i \in 1 .. Len(r.records) : FALSE
      BY <1>2, <1>3
    <2> QED
      BY <2>1 DEF r
  <1>4. CASE CellOK(r) /\ r.k = "xzindex"
    <2>1. IsVector(r.records) /\ \A i \in DOMAIN r.records : r.records[i][2] \in Nat
      BY <1>4 DEF CellOK
    <2>2. DOMAIN r.records = 1 .. Len(r.records)
      BY <2>1, VectorIsSeq
    <2> QED
      BY <2>1, <2>2 DEF r
  <1> QED
    BY <1>1, <1>3, <1>4

\* A block decodes to no more than its record in the Index says.
LEMMA BlockWithin ==
  ASSUME NEW cells, CellsOK(cells), NEW i \in 1 .. Len(XzIndexOf(cells).records)
  PROVE  Len(XzBlockOutput(cells, i)) <= XzIndexOf(cells).records[i][2]
  <1> DEFINE records == XzIndexOf(cells).records
             check == RecordAt(cells, 0, "xzhead", XzNoHeader).check
             start == XzBlockStart(records, i)
             b == RecordAt(cells, start, "xzblock", XzNoBlock)
             csize == records[i][1] - b.size - XzSizeOf(check)
  <1>1. /\ IsVector(records) /\ Len(records) \in Nat
        /\ \A j \in 1 .. Len(records) : records[j][1] \in Nat
    BY IndexRecords
  <1>11. records[i][2] \in Nat
    BY IndexSizes
  <1> HIDE DEF records
  <1>2. i \in 1 .. Len(records)
    BY DEF records
  <1>3. start \in Nat
    BY <1>1, <1>2, BlockStart, Zenon
  <1> HIDE DEF start
  <1>4. b.size \in Nat
    <2>1. b = XzNoBlock \/ (CellOK(b) /\ b.k = "xzblock")
      BY RecordFound
    <2>2. XzNoBlock.size = 2
      BY DEF XzNoBlock, XzBlock, XzAlign
    <2> HIDE DEF b
    <2>3. CASE CellOK(b) /\ b.k = "xzblock"
      BY <2>3 DEF CellOK, RecordOK, Unsigned
    <2> QED
      BY <2>1, <2>2, <2>3
  <1> HIDE DEF b, check
  <1>5. XzSizeOf(check) \in Nat
    BY DEF XzSizeOf, XzCheckSize, XzAlign
  <1>6. start + b.size \in Nat /\ csize \in Int
    BY <1>1, <1>2, <1>3, <1>4, <1>5
  <1> HIDE DEF csize
  <1> DEFINE data == Slice(cells, start + b.size, csize)
             out == XzBlockDecoded(cells, i, records[i][2]).out
  <1>7. CellsOK(data)
    BY <1>6, SliceCells
  <1> HIDE DEF data
  <1>8. out = DecodeLzma2(data, Last(b.filters).dictionary, records[i][2], records[i][2]).out
    BY DEF XzBlockDecoded, data, csize, b, start, check, records
  <1>9. XzBlockOutput(cells, i) = XzUnfiltered(b.filters, out)
    BY DEF XzBlockOutput, b, start, records
  <1> HIDE DEF out
  <1>10. RecordsOK(out) /\ Len(out) <= records[i][2]
    BY <1>7, <1>8, <1>11, DecodedLzma2, Lzma2Within
  <1>12. Len(XzUnfiltered(b.filters, out)) = Len(out)
    BY <1>10, FilteredLength
  <1> QED
    BY <1>9, <1>10, <1>12 DEF records

\* What the first blocks of a stream decode to.
IsSizeSum(h, records, m) ==
  h = [s \in SUBSET (1 .. m) |->
         IF s = {} THEN 0 ELSE records[Chosen(s)][2] + h[s \ {Chosen(s)}]]

\* The Index adds up the sizes.
LEMMA SizeSum ==
  ASSUME NEW records, NEW m \in Nat
  PROVE  MapThenSumSet(LAMBDA j : records[j][2], 1 .. m)
           = SumFunctionOnSet([j \in 1 .. m |-> records[j][2]], 1 .. m)
  <1> DEFINE S == 1 .. m
             f == [j \in S |-> records[j][2]]
             c == CHOOSE h : IsSizeSum(h, records, m)
  <1>1. MapThenSumSet(LAMBDA j : records[j][2], 1 .. m) = c[S]
    BY DEF MapThenSumSet, MapThenFoldSet, IsSizeSum, Chosen
  <1>2. IsFiniteSet(S)
    BY FS_Interval
  <1>4. ASSUME NEW s \in SUBSET S, s # {}
        PROVE  f[Chosen(s)] = records[Chosen(s)][2]
    <2>1. Chosen(s) \in s
      BY <1>4 DEF Chosen
    <2> QED
      BY <2>1, Zenon
  <1> HIDE DEF f
  <1>5. ASSUME NEW h PROVE IsSum(h, f, S) <=> IsSizeSum(h, records, m)
    <2> DEFINE a(s) == IF s = {} THEN 0 ELSE f[Chosen(s)] + h[s \ {Chosen(s)}]
               b(s) == IF s = {} THEN 0
                       ELSE records[Chosen(s)][2] + h[s \ {Chosen(s)}]
    <2>1. \A s \in SUBSET S : a(s) = b(s)
      BY <1>4
    <2>2. [s \in SUBSET S |-> a(s)] = [s \in SUBSET S |-> b(s)]
      <3> HIDE DEF a, b, S
      <3> QED
        BY <2>1
    <2> QED
      BY <2>2, Zenon DEF IsSum, IsSizeSum
  <1>6. \E h : IsSum(h, f, S)
    <2> HIDE DEF S
    <2> QED
      BY <1>2, SumExists
  <1>7. IsSizeSum(c, records, m)
    <2>1. \E h : IsSizeSum(h, records, m)
      BY <1>5, <1>6
    <2> QED
      BY <2>1
  <1> HIDE DEF c
  <1>8. IsSum(c, f, S)
    BY <1>5, <1>7
  <1>9. SumFunctionOnSet(f, S) = c[S]
    <2> HIDE DEF S
    <2> QED
      BY <1>2, <1>8, SumOfSubset
  <1> QED
    BY <1>1, <1>9 DEF f

\* A result as a check.
LEMMA ResultCheck ==
  ASSUME NEW p, NEW v, p = <<v = "ok", v>>
  PROVE  (p[1] \/ p[2] # "ok") /\ (p[1] => v = "ok")
  <1>1. p[2] = v /\ p[1] = (v = "ok")
    OBVIOUS
  <1>2. CASE v = "ok"
    <2>1. p[1] = TRUE
      BY <1>1, <1>2, Zenon
    <2> QED
      BY <1>2, <2>1, Zenon
  <1>3. CASE v # "ok"
    <2>1. p[1] = FALSE
      BY <1>1, <1>3, Zenon
    <2> QED
      BY <1>1, <1>3, <2>1, Zenon
  <1> QED
    BY <1>2, <1>3

\* The result of a row of results.
LEMMA FirstOfHolds ==
  ASSUME NEW n \in Nat, NEW r, r = [i \in 1 .. n |-> r[i]], FirstOf(r) = "ok"
  PROVE  \A i \in 1 .. n : r[i] = "ok"
  <1> DEFINE s == [i \in DOMAIN r |-> <<r[i] = "ok", r[i]>>]
  <1>1. DOMAIN r = 1 .. n
    OBVIOUS
  <1>2. FirstFailure(s) = "ok"
    BY DEF FirstOf
  <1>3. s = [i \in 1 .. n |-> s[i]] /\ \A i \in 1 .. n : s[i] = <<r[i] = "ok", r[i]>>
    BY <1>1
  <1> HIDE DEF s
  <1>4. IsVector(s) /\ Len(s) = n
    BY <1>3, FunctionIsVector
  <1>5. Checks(s)
    <2>1. \A i \in 1 .. n : s[i][1] \/ s[i][2] # "ok"
      BY <1>3, ResultCheck, Zenon
    <2> QED
      BY <1>4, <2>1 DEF Checks
  <1>6. \A i \in 1 .. n : s[i][1]
    BY <1>2, <1>4, <1>5, AllHold
  <1>7. ASSUME NEW i \in 1 .. n PROVE r[i] = "ok"
    <2>1. s[i] = <<r[i] = "ok", r[i]>>
      BY <1>3
    <2>2. s[i][1]
      BY <1>4, <1>6
    <2>3. s[i][1] => r[i] = "ok"
      BY <2>1, ResultCheck, Zenon
    <2> QED
      BY <2>2, <2>3
  <1> QED
    BY <1>7

\* A Block that passed keeps the output below the maximum.
LEMMA BlockHolds ==
  ASSUME NEW cells, CellsOK(cells), NEW i, NEW maximum, NEW zip,
         FirstFailure(XzBlockChecks(cells, i, maximum, zip)) = "ok"
  PROVE  MapThenSumSet(LAMBDA j : XzIndexOf(cells).records[j][2], 1 .. i) <= maximum
  <1> DEFINE records == XzIndexOf(cells).records
             check == XzSizeOf(RecordAt(cells, 0, "xzhead", XzNoHeader).check)
             start == XzBlockStart(records, i)
             b == RecordAt(cells, start, "xzblock", XzNoBlock)
             csize == records[i][1] - b.size - check
             data == start + b.size
             checkAt == data + XzAlignUp(csize)
             filters == [j \in DOMAIN b.filters |->
                           XzFilterResult(b.filters[j], j = Len(b.filters), zip)]
             s1 == << <<records[i][1] # 0, "format">>,
                      <<b.k = "xzblock", "format">>,
                      <<b.size <= records[i][1], "format">>,
                      <<b.size <= limits.header, "limit">>,
                      <<b.crc, "checksum">>,
                      <<~ b.reserved, "format">>,
                      <<zip => Len(b.filters) <= 2, "unsupported">>,
                      <<Len(b.filters) <= limits.coders, "limit">> >>
             s2 == [j \in DOMAIN filters |-> <<filters[j] = "ok", filters[j]>>]
             sum == MapThenSumSet(LAMBDA j : records[j][2], 1 .. i)
             s3 == << <<b.padding, "format">>,
                      <<csize > 0, "format">>,
                      <<XzBlockAgrees(b, csize, records[i][2]), "format">>,
                      <<data + csize <= Len(cells), "format">>,
                      <<\A p \in data + csize + 1 .. checkAt : p <= Len(cells) /\ cells[p] = Zero, "format">>,
                      <<checkAt + check <= Len(cells), "format">>,
                      <<checkAt + check = XzAlignUp(start + records[i][1]), "format">>,
                      <<XzCoders(cells, records, i) <= limits.totalCoders, "limit">>,
                      <<2 * XzAlign + XzIndexSize(cells) + XzHeaderSizes(cells, records, i)
                         <= limits.header, "limit">>,
                      <<sum <= maximum, "limit">> >>
  <1>1. XzBlockChecks(cells, i, maximum, zip) = s1 \o s2 \o s3
    BY DEF XzBlockChecks
  <1>2. IsVector(b.filters)
    <2>1. b = XzNoBlock \/ (CellOK(b) /\ b.k = "xzblock")
      BY RecordFound
    <2>2. IsVector(XzNoBlock.filters)
      BY DEF XzNoBlock, XzBlock, IsVector
    <2> HIDE DEF b
    <2> QED
      BY <2>1, <2>2 DEF CellOK, RecordOK
  <1>3. Checks(s2)
    <2> HIDE DEF b
    <2>1. DOMAIN b.filters = 1 .. Len(b.filters) /\ Len(b.filters) \in Nat
      BY <1>2, VectorIsSeq
    <2>2. DOMAIN filters = 1 .. Len(b.filters)
      BY <2>1
    <2> HIDE DEF filters
    <2>3. s2 = [j \in 1 .. Len(b.filters) |-> s2[j]]
          /\ \A j \in 1 .. Len(b.filters) : s2[j] = <<filters[j] = "ok", filters[j]>>
      BY <2>2
    <2> HIDE DEF s2
    <2>4. IsVector(s2) /\ Len(s2) = Len(b.filters)
      BY <2>1, <2>3, FunctionIsVector
    <2>5. \A j \in 1 .. Len(b.filters) : s2[j][1] \/ s2[j][2] # "ok"
      BY <2>3, ResultCheck, Zenon
    <2> QED
      BY <2>4, <2>5 DEF Checks
  <1> HIDE DEF b, check, start, csize, data, checkAt, filters, s2, sum
  <1>4. Checks(s1)
    <2>1. IsVector(s1) /\ Len(s1) = 8
      BY DEF IsVector
    <2>2. \A j \in {1, 2, 3, 4, 5, 6, 7, 8} : s1[j][2] # "ok"
      OBVIOUS
    <2>3. \A j \in 1 .. 8 : j \in {1, 2, 3, 4, 5, 6, 7, 8}
      OBVIOUS
    <2> HIDE DEF s1
    <2> QED
      BY <2>1, <2>2, <2>3 DEF Checks
  <1>5. Checks(s3) /\ Len(s3) = 10 /\ s3[10][1] = (sum <= maximum)
    <2>1. IsVector(s3) /\ Len(s3) = 10
      BY DEF IsVector
    <2>2. \A j \in {1, 2, 3, 4, 5, 6, 7, 8, 9, 10} : s3[j][2] # "ok"
      OBVIOUS
    <2>3. \A j \in 1 .. 10 : j \in {1, 2, 3, 4, 5, 6, 7, 8, 9, 10}
      OBVIOUS
    <2>4. s3[10][1] = (sum <= maximum)
      OBVIOUS
    <2> HIDE DEF s3
    <2> QED
      BY <2>1, <2>2, <2>3, <2>4 DEF Checks
  <1> HIDE DEF s1, s3
  <1>6. Checks(s1 \o s2)
    BY <1>3, <1>4, ConcatChecks
  <1>7. s3[10][1]
    <2>1. FirstFailure((s1 \o s2) \o s3) = "ok"
      BY <1>1, Zenon
    <2>2. \A j \in 1 .. Len(s3) : s3[j][1]
      BY <1>5, <1>6, <2>1, ConcatChecks, Zenon
    <2>3. 10 \in 1 .. Len(s3)
      BY <1>5
    <2> QED
      BY <2>2, <2>3, Zenon
  <1> QED
    BY <1>5, <1>7, Zenon DEF sum

\* An XZ stream that is accepted decodes to no more than the maximum.
LEMMA XzWithin ==
  ASSUME NEW cells, CellsOK(cells), NEW maximum \in Nat,
         XzResult(cells, NoSize, maximum, FALSE) = "ok"
  PROVE  Len(XzOutput(cells)) <= maximum
  <1> DEFINE records == XzIndexOf(cells).records
             n == Len(records)
             result(i) == FirstFailure(XzBlockChecks(cells, i, maximum, FALSE))
             row == [i \in DOMAIN records |-> result(i)]
             s == [i \in DOMAIN records |-> XzBlockOutput(cells, i)]
             w == [i \in 1 .. n |-> records[i][2]]
  <1>1. n \in Nat /\ DOMAIN records = 1 .. n /\ \A i \in 1 .. n : records[i][2] \in Nat
    BY IndexRecords, IndexSizes
  <1>2. XzPreflight(cells, NoSize, maximum, FALSE) = "ok"
    BY Zenon DEF XzResult, AndThen
  <1>3. FirstOf(row) = "ok"
    <2>1. ~ (NoSize > maximum)
      BY DEF NoSize
    <2> QED
      BY <1>2, <2>1 DEF XzPreflight, AndThen
  <1>4. XzOutput(cells) = FlattenSeq(s)
    BY DEF XzOutput
  <1>5. s = [i \in 1 .. n |-> s[i]] /\ \A i \in 1 .. n : s[i] = XzBlockOutput(cells, i)
    BY <1>1
  <1>6. row = [i \in 1 .. n |-> row[i]] /\ \A i \in 1 .. n : row[i] = result(i)
    BY <1>1, Zenon
  <1>7. \A i \in 1 .. n : w[i] = records[i][2]
    OBVIOUS
  <1> HIDE DEF s, row, w
  <1>8. IsVector(s) /\ Len(s) = n
    <2> HIDE DEF n
    <2> QED
      BY <1>1, <1>5, FunctionIsVector
  <1>9. \A i \in 1 .. n : RecordsOK(s[i]) /\ Len(s[i]) <= w[i] /\ w[i] \in Nat
    BY <1>1, <1>5, <1>7, BlockRecords, BlockWithin, Zenon
  <1>10. Len(FlattenSeq(s)) <= SumFunctionOnSet(w, 1 .. n)
    BY <1>8, <1>9, FlatLength
  <1>11. SumFunctionOnSet(w, 1 .. n) <= maximum
    <2>1. CASE n = 0
      <3>1. 1 .. n = {}
        BY <2>1
      <3>2. SumFunctionOnSet(w, {}) = 0
        BY SumEmpty
      <3> QED
        BY <3>1, <3>2
    <2>2. CASE n # 0
      <3>1. n \in 1 .. n
        BY <1>1, <2>2
      <3>2. result(n) = "ok"
        <4> HIDE DEF n, result
        <4> QED
          BY <1>1, <1>3, <1>6, <3>1, FirstOfHolds
      <3>3. MapThenSumSet(LAMBDA j : records[j][2], 1 .. n) <= maximum
        BY <3>2, BlockHolds, Zenon
      <3>4. MapThenSumSet(LAMBDA j : records[j][2], 1 .. n) = SumFunctionOnSet(w, 1 .. n)
        BY <1>1, SizeSum, Zenon DEF w
      <3> QED
        BY <3>3, <3>4
    <2> QED
      BY <2>1, <2>2
  <1>12. Len(FlattenSeq(s)) \in Int /\ SumFunctionOnSet(w, 1 .. n) \in Int
    <2>1. RecordsOK(FlattenSeq(s))
      BY <1>8, <1>9, FlatRecords
    <2>2. IsFiniteSet(1 .. n)
      BY FS_Interval, <1>1
    <2>4. \A i \in 1 .. n : w[i] \in Int
      BY <1>9
    <2>3. SumFunctionOnSet(w, 1 .. n) \in Int
      BY <2>2, <2>4, SumCongruence, Zenon
    <2> QED
      BY <2>1, <2>3 DEF RecordsOK, IsVector
  <1> HIDE DEF n
  <1> QED
    BY <1>4, <1>10, <1>11, <1>12
-----------------------------------------------------------------------------
\* The checks of a decoder that runs under a maximum.
LEMMA ReaderHolds ==
  ASSUME NEW cells, NEW expected, NEW maximum
  PROVE  LET s == ReaderChecks(cells, expected, maximum) IN
         /\ Checks(s) /\ Len(s) = 5
         /\ s[3][1] = (Len(StreamOutput(cells)) <= maximum)
  <1> DEFINE s == ReaderChecks(cells, expected, maximum)
  <1>1. IsVector(s) /\ Len(s) = 5
    BY DEF ReaderChecks, IsVector
  <1>2. \A j \in {1, 2, 3, 4, 5} : s[j][2] # "ok"
    BY DEF ReaderChecks
  <1>3. \A j \in 1 .. 5 : j \in {1, 2, 3, 4, 5}
    OBVIOUS
  <1>4. s[3][1] = (Len(StreamOutput(cells)) <= maximum)
    BY DEF ReaderChecks, StreamOutput
  <1> HIDE DEF s
  <1>5. Checks(s)
    BY <1>1, <1>2, <1>3 DEF Checks
  <1> QED
    BY <1>1, <1>4, <1>5 DEF s

\* Checks in front of these and behind them.
LEMMA ReaderBetween ==
  ASSUME NEW cells, NEW expected, NEW maximum, NEW a, Checks(a), NEW b, Checks(b),
         \/ FirstFailure(a \o ReaderChecks(cells, expected, maximum)) = "ok"
         \/ FirstFailure((a \o ReaderChecks(cells, expected, maximum)) \o b) = "ok"
  PROVE  Len(StreamOutput(cells)) <= maximum
  <1> DEFINE s == ReaderChecks(cells, expected, maximum)
  <1>1. Checks(s) /\ Len(s) = 5 /\ s[3][1] = (Len(StreamOutput(cells)) <= maximum)
    BY ReaderHolds
  <1> HIDE DEF s
  <1>2. \A j \in 1 .. Len(s) : s[j][1]
    <2>1. CASE FirstFailure(a \o s) = "ok"
      BY <1>1, <2>1, ConcatChecks, Zenon
    <2>2. CASE FirstFailure((a \o s) \o b) = "ok"
      <3>1. Checks(a \o s)
        BY <1>1, ConcatChecks
      <3>2. \A j \in 1 .. Len(a \o s) : (a \o s)[j][1]
        BY <2>2, <3>1, ConcatChecks, Zenon
      <3>3. FirstFailure(a \o s) = "ok"
        BY <3>1, <3>2, HeldRow, Zenon
      <3> QED
        BY <1>1, <3>3, ConcatChecks, Zenon
    <2> QED
      BY <2>1, <2>2 DEF s
  <1>3. 3 \in 1 .. Len(s)
    BY <1>1
  <1> QED
    BY <1>1, <1>2, <1>3, Zenon

\* The codecs of a container.
LEMMA CodecWithin ==
  ASSUME NEW codec \in {"deflate", "bzip2", "zstd"}, NEW cells, NEW expected, NEW maximum,
         FirstFailure(CodecChecks(codec, cells, expected, maximum)) = "ok"
  PROVE  Len(StreamOutput(cells)) <= maximum
  <1>1. CASE codec = "deflate"
    <2> DEFINE a == << <<1 <= limits.dictionary, "limit">>,
                       <<Stream(cells).codec = "deflate", "format">> >>
               b == << <<Len(cells) = 1, "format">> >>
    <2>1. CodecChecks(codec, cells, expected, maximum)
            = (a \o ReaderChecks(cells, expected, maximum)) \o b
      BY <1>1 DEF CodecChecks, DeflateChecks
    <2>2. Checks(a) /\ Checks(b)
      BY DEF Checks, IsVector
    <2> HIDE DEF a, b
    <2>3. FirstFailure((a \o ReaderChecks(cells, expected, maximum)) \o b) = "ok"
      BY <2>1, Zenon
    <2> QED
      BY <2>2, <2>3, ReaderBetween
  <1>2. CASE codec = "bzip2"
    <2> DEFINE a == << <<Stream(cells).codec = "bzip2", "format">>,
                       <<Stream(cells).window <= limits.dictionary, "limit">> >>
    <2>1. CodecChecks(codec, cells, expected, maximum) = a \o ReaderChecks(cells, expected, maximum)
      BY <1>2 DEF CodecChecks, Bzip2Checks
    <2>2. Checks(a)
      BY DEF Checks, IsVector
    <2> HIDE DEF a
    <2>3. FirstFailure(a \o ReaderChecks(cells, expected, maximum)) = "ok"
      BY <2>1, Zenon
    <2> QED
      BY <2>2, <2>3, ReaderBetween
  <1>3. CASE codec = "zstd"
    <2> DEFINE s == Stream(cells)
               a == << <<s.codec = "zstd", "format">>,
                       <<s.dictionary = 0, "unsupported">>,
                       <<s.declared # NoSize /\ expected # NoSize => s.declared = expected, "format">>,
                       <<(IF s.window = NoSize THEN s.declared ELSE s.window) <= limits.dictionary,
                         "limit">> >>
    <2>1. CodecChecks(codec, cells, expected, maximum) = a \o ReaderChecks(cells, expected, maximum)
      BY <1>3 DEF CodecChecks, ZstdChecks
    <2> HIDE DEF s
    <2>2. Checks(a)
      <3>1. IsVector(a) /\ Len(a) = 4
        BY DEF IsVector
      <3>2. \A j \in {1, 2, 3, 4} : a[j][2] # "ok"
        OBVIOUS
      <3>3. \A j \in 1 .. 4 : j \in {1, 2, 3, 4}
        OBVIOUS
      <3> HIDE DEF a
      <3> QED
        BY <3>1, <3>2, <3>3 DEF Checks
    <2> HIDE DEF a
    <2>3. FirstFailure(a \o ReaderChecks(cells, expected, maximum)) = "ok"
      BY <2>1, Zenon
    <2> QED
      BY <2>2, <2>3, ReaderBetween
  <1> QED
    BY <1>1, <1>2, <1>3

\* The file format of the old LZMA tools.
LEMMA LegacyWithin ==
  ASSUME NEW cells, NEW maximum, FirstFailure(LzmaChecks(cells, maximum)) = "ok"
  PROVE  Len(StreamOutput(cells)) <= maximum
  <1> DEFINE a == << <<Len(cells) >= 1, "format">>,
                     <<Stream(cells).window <= limits.dictionary, "limit">>,
                     <<Stream(cells).codec = "lzma", "format">> >>
  <1>1. LzmaChecks(cells, maximum) = a \o ReaderChecks(cells, NoSize, maximum)
    BY DEF LzmaChecks
  <1>2. Checks(a)
    BY DEF Checks, IsVector
  <1> HIDE DEF a
  <1>3. FirstFailure(a \o ReaderChecks(cells, NoSize, maximum)) = "ok"
    BY <1>1, Zenon
  <1> QED
    BY <1>2, <1>3, ReaderBetween

\* gzip.
LEMMA GzipWithin ==
  ASSUME NEW cells, NEW maximum, FirstFailure(GzipChecks(cells, maximum)) = "ok"
  PROVE  Len(GzipOutput(cells)) <= maximum
  <1> DEFINE h == RecordAt(cells, 0, "gzip", GzipNoHeader)
             p == GzipPlaces(cells)
             stream == GzipStream(cells)
             trailer == RecordAt(cells, Len(cells) - 1, "gzend", GzipNoTrailer)
             a == << <<h.valid, "format">>,
                     <<p.extra <= Len(cells) /\ p.name <= Len(cells) /\ p.comment <= Len(cells), "format">>,
                     <<p.comment <= limits.header, "limit">>,
                     <<h.crc => p.comment < Len(cells), "format">>,
                     <<h.crc => RecordAt(cells, p.comment, "digest", Zero)
                                  = Digest(Slice(cells, 0, p.comment)), "checksum">>,
                     <<p.data <= limits.header, "limit">>,
                     <<p.data < Len(cells), "format">> >>
             b == DeflateChecks(stream, NoSize, maximum)
             c == << <<trailer.of = StreamOutput(stream)
                         /\ trailer.size = Len(StreamOutput(stream)) % GzipMod, "checksum">> >>
             b1 == << <<1 <= limits.dictionary, "limit">>,
                      <<Stream(stream).codec = "deflate", "format">> >>
             b3 == << <<Len(stream) = 1, "format">> >>
  <1>1. GzipChecks(cells, maximum) = (a \o b) \o c
    BY DEF GzipChecks, GzipChecksAt
  <1>2. b = (b1 \o ReaderChecks(stream, NoSize, maximum)) \o b3
    BY DEF DeflateChecks
  <1>0. GzipOutput(cells) = StreamOutput(stream)
    BY DEF GzipOutput
  <1> HIDE DEF h, p, stream, trailer, b
  <1>3. Checks(a)
    <2>1. IsVector(a) /\ Len(a) = 7
      BY DEF IsVector
    <2>2. \A j \in {1, 2, 3, 4, 5, 6, 7} : a[j][2] # "ok"
      OBVIOUS
    <2>3. \A j \in 1 .. 7 : j \in {1, 2, 3, 4, 5, 6, 7}
      OBVIOUS
    <2> HIDE DEF a
    <2> QED
      BY <2>1, <2>2, <2>3 DEF Checks
  <1>4. Checks(b1) /\ Checks(b3) /\ Checks(c)
    BY DEF Checks, IsVector
  <1> HIDE DEF a, b1, b3, c
  <1>5. Checks(b)
    BY <1>2, <1>4, ReaderHolds, ConcatChecks
  <1>6. Checks(a \o b)
    BY <1>3, <1>5, ConcatChecks
  <1>7. FirstFailure((a \o b) \o c) = "ok"
    BY <1>1, Zenon
  <1>8. \A j \in 1 .. Len(a \o b) : (a \o b)[j][1]
    BY <1>4, <1>6, <1>7, ConcatChecks, Zenon
  <1>9. FirstFailure(a \o b) = "ok"
    BY <1>6, <1>8, HeldRow, Zenon
  <1>10. \A j \in 1 .. Len(b) : b[j][1]
    BY <1>3, <1>5, <1>9, ConcatChecks
  <1>11. FirstFailure(b) = "ok"
    BY <1>5, <1>10, HeldRow
  <1>12. FirstFailure((b1 \o ReaderChecks(stream, NoSize, maximum)) \o b3) = "ok"
    BY <1>2, <1>11, Zenon
  <1> QED
    BY <1>0, <1>4, <1>12, ReaderBetween

\* No container decodes to more than the maximum.
LEMMA ContainerWithin ==
  ASSUME NEW codec \in Containers, NEW cells, CellsOK(cells), NEW maximum \in Nat,
         ContainerResult(codec, cells, maximum) = "ok"
  PROVE  Len(ContainerOutput(codec, cells)) <= maximum
  <1>1. CASE codec = "none"
    BY <1>1 DEF ContainerResult, ContainerOutput, CopyUncompressed
  <1>2. CASE codec = "gzip"
    BY <1>2, GzipWithin DEF ContainerResult, ContainerOutput
  <1>3. CASE codec = "xz"
    BY <1>3, XzWithin, Zenon DEF ContainerResult, ContainerOutput
  <1>4. CASE codec = "lzma"
    BY <1>4, LegacyWithin DEF ContainerResult, ContainerOutput
  <1>5. CASE codec \in {"bzip2", "zstd"}
    BY <1>5, CodecWithin, Zenon DEF ContainerResult, ContainerOutput
  <1> QED
    BY <1>1, <1>2, <1>3, <1>4, <1>5 DEF Containers
-----------------------------------------------------------------------------
(***************************************************************************)
(* The limits: the invariant.  The listing, what open keeps decoded and     *)
(* what was written are counted against what was charged for them; in a     *)
(* package that is decoded while it is opened, what verify and extraction   *)
(* charge for the first entries is never more than the bytes they reach.    *)
(***************************************************************************)
\* What a listed entry may declare.
EntryWithin(e) ==
  /\ e.size \in Nat /\ e.size <= limits.entry
  /\ EncodedName(e) \in Nat
  /\ input.format \in {"cpio", "rpm", "deb"} => e.end = e.start + e.size

\* The bytes of all names of the listing.
NamesTotal == SumFunction([i \in DOMAIN entries |-> EncodedName(entries[i])])

\* What the Debian parser keeps: two tars within one limit, and names.
DebParserWithin ==
  /\ Len(acc.control) + Len(acc.data) <= limits.total
  /\ Len(acc.members) \in Nat
  /\ IsVector(acc.longName)
  /\ IsVector(acc.global.path)
  /\ acc.local = << >> \/ IsVector(acc.local[1].path)

\* The listing within its limits, and what was charged for its names.
ListWithin ==
  /\ \A i \in 1 .. Len(entries) : EntryWithin(entries[i])
  /\ Len(entries) <= limits.files
  /\ acc.names \in Nat
  /\ NamesTotal <= limits.names /\ NamesTotal <= acc.names

\* What each parser keeps between its rounds.
ParserWithin ==
  /\ Is("rpm") =>
       /\ op = "open" /\ acc.format = "none" /\ offset > 0 => RpmCompression \in Containers
       /\ acc.format # "none" => Len(acc.payload) <= limits.total
       /\ opened = "ok" => acc.format # "none"
  /\ Is("arj") => (acc.format # "none" => IsVector(acc.h.name))
  /\ Is("deb") =>
       /\ acc.format \in {"control", "data"} => DebParserWithin
       /\ \A i, j \in 1 .. Len(entries) :
            i < j /\ entries[i].section = "data" => entries[j].section = "data"
       /\ opened = "ok" => acc.format = "data"

\* How far the first n entries reach in what was decoded.
Reached(n) ==
  IF n = 0 THEN 0
  ELSE entries[n].end + (IF Is("deb") /\ entries[n].section = "data" THEN Len(acc.control) ELSE 0)

\* Where each operation starts from.
ReadWithin ==
  /\ op \in {"stat", "start"} => offset = 0
  /\ op = "read" => offset <= limits.input
  /\ op \in {"stat", "read", "start", "open"} => at = 1 /\ total = 0
  /\ op \in {"stat", "read", "start", "open", "verify"} => got = << >>
  /\ op # "done" => extracted = "none"
  /\ op \in {"verify", "extract", "chunks"} => opened = "ok"
  /\ total \in Nat

\* What open has charged for is not charged again.
ChargedOnce ==
  Is("rpm") \/ Is("deb") =>
    /\ op = "verify" \/ (op = "extract" /\ sink) =>
         at - 1 <= Len(entries) /\ total <= Reached(at - 1)
    /\ op = "chunks" /\ sink => at <= Len(entries) /\ total <= Reached(at)
    /\ verified # "limit"
    /\ sink => extracted # "limit"

\* The bytes that reached the caller.
Written == SumFunction([i \in DOMAIN got |-> Len(got[i])])

\* The bytes of the entry under way that did not.
Missing == IF op = "chunks" THEN Len(content) - cursor ELSE 0

\* What was written is what was charged for, and no more.
GotWithin ==
  /\ IsVector(got)
  /\ \A i \in 1 .. Len(got) : IsVector(got[i]) /\ Len(got[i]) <= limits.entry
  /\ op \in {"extract", "chunks"} => Len(got) = Len(entries)
  /\ op = "extract" => \A i \in 1 .. Len(got) : (sink => i >= at) => got[i] = << >>
  /\ op = "chunks" =>
       /\ at <= Len(got) /\ Len(got[at]) = cursor /\ Len(content) <= limits.entry
       /\ \A i \in 1 .. Len(got) : (IF sink THEN i > at ELSE i # at) => got[i] = << >>
  /\ op \in {"extract", "chunks"} /\ sink => Written + Missing <= total /\ total <= limits.total
  /\ sink \/ input.format \in {"zip", "rpm", "deb"} => Written + Missing <= limits.total

\* The inductive invariant of the limits, beside Inv.
Limited == ListWithin /\ ParserWithin /\ ReadWithin /\ ChargedOnce /\ GotWithin

-----------------------------------------------------------------------------
\* The listing is a sequence, whatever the format.
LEMMA EntriesVector ==
  ASSUME Inv
  PROVE  IsVector(entries) /\ Len(entries) \in Nat /\ DOMAIN entries = 1 .. Len(entries)
  <1>1. IsVector(entries)
    <2>1. input.format \in {"cpio", "zip", "rpm", "deb", "arj"}
      BY DEF Inv, ControlOK
    <2>2. CASE Is("rpm")
      <3>1. CASE acc.format = "none"
        BY <2>2, <3>1, NoRecords DEF Inv, FormatOK, RpmOK
      <3>2. CASE acc.format # "none"
        BY <2>2, <3>2 DEF Inv, FormatOK, RpmOK, CpioOK, EntriesOK
      <3> QED
        BY <3>1, <3>2
    <2>3. CASE Is("cpio")
      BY <2>3 DEF Inv, FormatOK, CpioOK, EntriesOK
    <2>4. CASE Is("zip")
      BY <2>4 DEF Inv, FormatOK, ZipOK, EntriesOK
    <2>5. CASE Is("deb")
      BY <2>5 DEF Inv, FormatOK, DebOK, EntriesOK
    <2>6. CASE Is("arj")
      BY <2>6 DEF Inv, FormatOK, ArjOK, EntriesOK
    <2> QED
      BY <2>1, <2>2, <2>3, <2>4, <2>5, <2>6 DEF Is
  <1> QED
    BY <1>1, VectorIsSeq

\* Nothing was written.
LEMMA NothingWritten ==
  ASSUME IsVector(got), \A i \in 1 .. Len(got) : got[i] = << >>
  PROVE  Written = 0
  <1> DEFINE f == [i \in DOMAIN got |-> Len(got[i])]
  <1>1. DOMAIN got = 1 .. Len(got) /\ Len(got) \in Nat
    BY VectorIsSeq
  <1>2. DOMAIN f = 1 .. Len(got) /\ \A i \in 1 .. Len(got) : f[i] = 0
    <2>1. Len(<< >>) = 0
      OBVIOUS
    <2> QED
      BY <1>1, <2>1
  <1>3. Written = SumFunctionOnSet(f, DOMAIN f)
    BY DEF Written, SumFunction
  <1> HIDE DEF f
  <1>4. IsFiniteSet(1 .. Len(got))
    BY <1>1, FS_Interval
  <1>5. SumFunctionOnSet(f, 1 .. Len(got)) = 0
    BY <1>2, <1>4, SumZero
  <1> QED
    BY <1>2, <1>3, <1>5

\* The same as an implication, for the state behind a step.
NothingGot == IsVector(got) /\ \A i \in 1 .. Len(got) : got[i] = << >>

\* ... which holds in every state,
LEMMA NothingWrites == NothingGot => Written = 0
  BY NothingWritten DEF NothingGot

\* ... the next one included.
LEMMA NothingWrittenNext == NothingGot' => (Written = 0)'
  BY NothingWrites, PTL

\* What was written is a number.
LEMMA WrittenNumber ==
  ASSUME IsVector(got), \A i \in 1 .. Len(got) : IsVector(got[i])
  PROVE  Written \in Int
  <1> DEFINE f == [i \in DOMAIN got |-> Len(got[i])]
  <1>1. DOMAIN got = 1 .. Len(got) /\ Len(got) \in Nat
    BY VectorIsSeq
  <1>2. DOMAIN f = 1 .. Len(got) /\ \A i \in 1 .. Len(got) : f[i] \in Int
    BY <1>1 DEF IsVector
  <1>3. Written = SumFunctionOnSet(f, DOMAIN f)
    BY DEF Written, SumFunction
  <1> HIDE DEF f
  <1>4. IsFiniteSet(1 .. Len(got))
    BY <1>1, FS_Interval
  <1>5. SumFunctionOnSet(f, 1 .. Len(got)) \in Int
    BY <1>2, <1>4, SumCongruence
  <1> QED
    BY <1>2, <1>3, <1>5

\* The same as an implication, for the state behind a step.
VectorsGot == IsVector(got) /\ \A i \in 1 .. Len(got) : IsVector(got[i])

\* ... which holds in every state,
LEMMA WrittenIsNumber == VectorsGot => Written \in Int
  BY WrittenNumber DEF VectorsGot

\* ... the next one included.
LEMMA WrittenNumberNext == VectorsGot' => (Written \in Int)'
  BY WrittenIsNumber, PTL

\* One entry has more bytes than before.
LEMMA WrittenMore ==
  ASSUME IsVector(got), \A i \in 1 .. Len(got) : IsVector(got[i]),
         NEW a \in 1 .. Len(got), NEW x, IsVector(x), got' = [got EXCEPT ![a] = x]
  PROVE  /\ IsVector(got') /\ Len(got') = Len(got) /\ got'[a] = x
         /\ \A i \in 1 .. Len(got) : i # a => got'[i] = got[i]
         /\ Written' = Written + (Len(x) - Len(got[a]))
  <1> DEFINE n == Len(got)
             f == [i \in DOMAIN got |-> Len(got[i])]
             g == [i \in DOMAIN got' |-> Len(got'[i])]
  <1>1. DOMAIN got = 1 .. n /\ n \in Nat
    BY VectorIsSeq
  <1>2. got' = [i \in 1 .. n |-> got'[i]] /\ got'[a] = x
        /\ \A i \in 1 .. n : i # a => got'[i] = got[i]
    BY <1>1, Zenon
  <1> HIDE DEF n
  <1>3. IsVector(got') /\ Len(got') = n /\ DOMAIN got' = 1 .. n
    BY <1>1, <1>2, FunctionIsVector
  <1>4. DOMAIN f = 1 .. n /\ \A i \in 1 .. n : f[i] = Len(got[i])
    BY <1>1
  <1>5. DOMAIN g = 1 .. n /\ \A i \in 1 .. n : g[i] = Len(got'[i])
    BY <1>3
  <1>6. Written = SumFunctionOnSet(f, DOMAIN f) /\ Written' = SumFunctionOnSet(g, DOMAIN g)
    BY DEF Written, SumFunction
  <1> HIDE DEF f, g
  <1>7. \A i \in 1 .. n : f[i] \in Int /\ g[i] \in Int
    <2>1. \A i \in 1 .. n : Len(got[i]) \in Nat
      BY DEF n, IsVector
    <2>2. Len(x) \in Nat
      BY DEF IsVector
    <2> QED
      BY <1>2, <1>4, <1>5, <2>1, <2>2
  <1>8. \A i \in (1 .. n) \ {a} : g[i] = f[i]
    BY <1>2, <1>4, <1>5
  <1>9. IsFiniteSet(1 .. n) /\ a \in 1 .. n
    BY <1>1, FS_Interval DEF n
  <1>10. SumFunctionOnSet(g, 1 .. n) = SumFunctionOnSet(f, 1 .. n) + (g[a] - f[a])
    BY <1>7, <1>8, <1>9, SumChange, Zenon
  <1>11. Written' = Written + (Len(x) - Len(got[a]))
    BY <1>2, <1>4, <1>5, <1>6, <1>9, <1>10
  <1> QED
    BY <1>2, <1>3, <1>11 DEF n
-----------------------------------------------------------------------------
\* What open leaves as it is.
LEMMA ListStays ==
  ASSUME ListWithin, ParserWithin, UNCHANGED <<input, limits, acc, entries>>,
         op' = "open" /\ offset' > 0 => op = "open" /\ offset' = offset,
         opened' = "ok" =>
           opened = "ok" \/ ((Is("rpm") => acc.format # "none") /\ (Is("deb") => acc.format = "data"))
  PROVE  ListWithin' /\ ParserWithin'
  <1>1. ListWithin'
    <2>1. \A i \in 1 .. Len(entries) : EncodedName(entries[i])' = EncodedName(entries[i])
      BY DEF EncodedName
    <2>2. NamesTotal' = NamesTotal
      BY DEF NamesTotal, EncodedName
    <2> QED
      BY <2>1, <2>2 DEF ListWithin, EntryWithin
  <1>2. RpmCompression' = RpmCompression
    BY DEF RpmCompression, RpmMain, Cells
  <1>3. ParserWithin'
    BY <1>2, Zenon DEF ParserWithin, DebParserWithin, Is
  <1> QED
    BY <1>1, <1>3

\* A step of open leaves the loops of the later operations alone.
LEMMA OpeningStep ==
  ASSUME Inv, Inv', Limited, op \in {"stat", "read", "start", "open"},
         UNCHANGED <<input, limits, verified, extracted, loopVars>>,
         op' \in {"read", "start", "open", "verify", "done"},
         op' = "verify" => opened' = "ok",
         op' = "start" => offset' = 0,
         op' = "read" => offset' <= limits.input,
         ListWithin', ParserWithin'
  PROVE  Limited'
  <1>1. at = 1 /\ total = 0 /\ got = << >> /\ extracted = "none"
    BY DEF Limited, ReadWithin
  <1>2. at' = 1 /\ total' = 0 /\ got' = << >> /\ extracted' = "none" /\ sink' = sink
    BY <1>1 DEF loopVars
  <1>3. ReadWithin'
    BY <1>2 DEF ReadWithin
  <1>4. ChargedOnce'
    <2>1. Len(entries') \in Nat
      BY EntriesVector DEF Inv, Limited
    <2>2. Reached(at - 1)' = 0 /\ at' - 1 = 0
      BY <1>2 DEF Reached
    <2>3. Is("rpm") \/ Is("deb") => verified # "limit"
      BY DEF Limited, ChargedOnce
    <2>4. op' # "extract" /\ op' # "chunks" /\ 0 <= 0
      OBVIOUS
    <2>5. at' - 1 <= Len(entries') /\ total' <= Reached(at - 1)'
      BY <1>2, <2>1, <2>2
    <2> QED
      BY <1>2, <2>3, <2>4, <2>5 DEF ChargedOnce, Is
  <1>5. GotWithin'
    <2>1. IsVector(got') /\ Len(got') = 0 /\ \A i \in 1 .. Len(got') : FALSE
      BY <1>2, NoRecords
    <2>2. Written' = 0
      BY <2>1, NothingWrittenNext DEF NothingGot
    <2>3. Missing' = 0 /\ limits'.total \in Nat
      BY DEF Missing, Inv, ControlOK, LimitsOK
    <2> QED
      BY <1>2, <2>1, <2>2, <2>3 DEF GotWithin
  <1> QED
    BY <1>3, <1>4, <1>5 DEF Limited
-----------------------------------------------------------------------------
(***************************************************************************)
(* The limits: reading, verify and the calls of the sink                    *)
(***************************************************************************)
\* open fails.
LEMMA FailsWithin ==
  ASSUME Inv, Inv', Limited, op \in {"stat", "read", "start", "open"}, NEW r, r # "ok",
         OpenReturns(r), UNCHANGED parseVars
  PROVE  Limited'
  <1>1. /\ UNCHANGED <<input, limits, verified, extracted, loopVars, acc, entries>>
        /\ op' = "done" /\ opened' # "ok"
    BY DEF OpenReturns, parseVars
  <1>2. ListWithin' /\ ParserWithin'
    BY <1>1, ListStays DEF Limited
  <1> QED
    BY <1>1, <1>2, OpeningStep

\* The size of the file is read.
LEMMA StatWithin ==
  ASSUME Inv, Inv', Limited, StatPath
  PROVE  Limited'
  <1>1. op = "stat" /\ offset = 0
    BY DEF StatPath, Limited, ReadWithin
  <1>2. CASE OpenReturns("limit") /\ UNCHANGED parseVars
    BY <1>1, <1>2, FailsWithin
  <1>3. CASE OpenReturns("io") /\ UNCHANGED parseVars
    BY <1>1, <1>3, FailsWithin
  <1>4. CASE /\ op' = "read"
             /\ UNCHANGED <<input, limits, opened, verified, extracted, parseVars, loopVars>>
    <2>1. offset' <= limits.input
      BY <1>1, <1>4 DEF parseVars, Inv, ControlOK, LimitsOK
    <2>2. opened' # "ok" /\ UNCHANGED <<acc, entries>>
      BY <1>1, <1>4 DEF Inv, ControlOK, parseVars
    <2>3. ListWithin' /\ ParserWithin'
      BY <1>4, <2>2, ListStays DEF Limited
    <2> QED
      BY <1>1, <1>4, <2>1, <2>3, OpeningStep
  <1> QED
    BY <1>2, <1>3, <1>4 DEF StatPath

\* A chunk of the file is read.
LEMMA ReadPathWithin ==
  ASSUME Inv, Inv', Limited, ReadPath
  PROVE  Limited'
  <1>1. op = "read"
    BY DEF ReadPath
  <1>2. CASE OpenReturns("limit") /\ UNCHANGED parseVars
    BY <1>1, <1>2, FailsWithin
  <1>3. CASE OpenReturns("io") /\ UNCHANGED parseVars
    BY <1>1, <1>3, FailsWithin
  <1>4. CASE /\ offset' = Smaller(offset + IoChunk, Len(Cells))
             /\ Smaller(offset + IoChunk, Len(Cells)) <= limits.input
             /\ UNCHANGED <<input, limits, op, opened, verified, extracted, acc, entries, loopVars>>
    <2>1. opened' # "ok" /\ op' = "read" /\ offset' <= limits.input
      BY <1>1, <1>4 DEF Inv, ControlOK
    <2>2. ListWithin' /\ ParserWithin'
      BY <1>4, <2>1, ListStays DEF Limited
    <2> QED
      BY <1>1, <1>4, <2>1, <2>2, OpeningStep
  <1>5. CASE /\ op' = "start" /\ offset' = 0
             /\ UNCHANGED <<input, limits, opened, verified, extracted, acc, entries, loopVars>>
    <2>1. opened' # "ok"
      BY <1>1, <1>5 DEF Inv, ControlOK
    <2>2. ListWithin' /\ ParserWithin'
      BY <1>5, <2>1, ListStays DEF Limited
    <2> QED
      BY <1>1, <1>5, <2>1, <2>2, OpeningStep
  <1> QED
    BY <1>2, <1>3, <1>4, <1>5 DEF ReadPath

\* The parser is started.
LEMMA StartWithin ==
  ASSUME Inv, Inv', Limited, StartOpen
  PROVE  Limited'
  <1>1. op = "start" /\ offset = 0
    BY DEF StartOpen, Limited, ReadWithin
  <1>2. CASE OpenReturns("limit") /\ UNCHANGED parseVars
    BY <1>1, <1>2, FailsWithin
  <1>3. CASE /\ op' = "open"
             /\ UNCHANGED <<input, limits, opened, verified, extracted, parseVars, loopVars>>
    <2>1. opened' # "ok" /\ UNCHANGED <<acc, entries>> /\ ~ (offset' > 0)
      BY <1>1, <1>3 DEF Inv, ControlOK, parseVars
    <2>2. ListWithin' /\ ParserWithin'
      BY <1>3, <2>1, ListStays DEF Limited
    <2> QED
      BY <1>1, <1>3, <2>1, <2>2, OpeningStep
  <1> QED
    BY <1>2, <1>3 DEF StartOpen
-----------------------------------------------------------------------------
\* The formats whose content is charged for while it is decoded.
Charged == Is("rpm") \/ Is("deb")

\* The archive is not touched by the loops behind open.
LEMMA ArchiveWithin ==
  ASSUME Inv, Limited, op \in {"verify", "extract", "chunks"},
         UNCHANGED <<input, limits, opened, parseVars>>, op' \in {"verify", "extract", "chunks", "done"}
  PROVE  /\ ListWithin' /\ ParserWithin'
         /\ opened' = "ok"
         /\ Charged' = Charged
         /\ \A n \in Nat : Reached(n)' = Reached(n)
         /\ IsVector(entries) /\ DOMAIN entries = 1 .. Len(entries) /\ Len(entries) \in Nat
         /\ limits' = limits /\ entries' = entries /\ input' = input
         /\ \A f \in {"entry", "total"} : limits[f] \in Nat
  <1>1. opened = "ok" /\ UNCHANGED <<acc, entries>>
    BY DEF Limited, ReadWithin, parseVars
  <1>2. ListWithin' /\ ParserWithin'
    BY <1>1, ListStays DEF Limited
  <1>3. Charged' = Charged /\ \A n \in Nat : Reached(n)' = Reached(n)
    BY <1>1 DEF Charged, Is, Reached
  <1> QED
    BY <1>1, <1>2, <1>3, EntriesVector DEF Inv, ControlOK, LimitsOK

\* verify returns.
LEMMA VerifyReturnsWithin ==
  ASSUME Inv, Inv', Limited, op = "verify", NEW r, Charged => r # "limit", VerifyReturns(r)
  PROVE  Limited'
  <1>1. /\ UNCHANGED <<input, limits, opened, parseVars>> /\ op' = "extract" /\ extracted' = extracted
        /\ at' = 1 /\ total' = 0 /\ verified' = r
        /\ got' = [i \in DOMAIN entries |-> << >>]
    BY DEF VerifyReturns
  <1>2. /\ ListWithin' /\ ParserWithin' /\ opened' = "ok" /\ Charged' = Charged
        /\ DOMAIN entries = 1 .. Len(entries) /\ Len(entries) \in Nat
        /\ limits' = limits /\ entries' = entries /\ input' = input
        /\ limits.entry \in Nat /\ limits.total \in Nat
    BY <1>1, ArchiveWithin
  <1>3. extracted = "none"
    BY DEF Limited, ReadWithin
  <1>4. ReadWithin'
    BY <1>1, <1>2, <1>3 DEF ReadWithin
  <1>5. ChargedOnce'
    <2>1. Reached(at - 1)' = 0 /\ at' - 1 = 0
      BY <1>1 DEF Reached
    <2>2. at' - 1 <= Len(entries') /\ total' <= Reached(at - 1)'
      BY <1>1, <1>2, <2>1
    <2> QED
      BY <1>1, <1>2, <1>3, <2>2 DEF ChargedOnce, Charged
  <1>6. GotWithin'
    <2>1. got' = [i \in 1 .. Len(entries) |-> got'[i]] /\ \A i \in 1 .. Len(entries) : got'[i] = << >>
      BY <1>1, <1>2
    <2>2. IsVector(got') /\ Len(got') = Len(entries)
      BY <1>2, <2>1, FunctionIsVector
    <2>3. Written' = 0
      BY <2>1, <2>2, NothingWrittenNext DEF NothingGot
    <2>4. Missing' = 0
      BY <1>1 DEF Missing
    <2>5. IsVector(<< >>) /\ Len(<< >>) = 0
      BY NoRecords
    <2>6. \A i \in 1 .. Len(got') : IsVector(got'[i]) /\ Len(got'[i]) <= limits'.entry
      BY <1>2, <2>1, <2>2, <2>5
    <2>7. Written' + Missing' <= total' /\ total' <= limits'.total /\ Written' + Missing' <= limits'.total
      BY <1>1, <1>2, <2>3, <2>4
    <2> QED
      BY <1>1, <1>2, <2>1, <2>2, <2>6, <2>7 DEF GotWithin
  <1> QED
    BY <1>2, <1>4, <1>5, <1>6 DEF Limited

\* verify has judged an entry.
LEMMA VerifyEntryWithin ==
  ASSUME Inv, Inv', Limited, NEW result, NEW size, VerifyEntry(result, size),
         result = "ok" => size \in Nat,
         Charged => result # "limit" /\ (result = "ok" => total + size <= Reached(at))
  PROVE  Limited'
  <1>1. op = "verify" /\ at \in DOMAIN entries
    BY DEF VerifyEntry
  <1>2. CASE VerifyReturns(result)
    BY <1>1, <1>2, VerifyReturnsWithin
  <1>3. CASE /\ result = "ok" /\ at' = at + 1 /\ total' = total + size
             /\ UNCHANGED <<input, limits, op, opened, verified, extracted, parseVars,
                            content, cursor, sink, begun, got, finished>>
    <2>1. /\ ListWithin' /\ ParserWithin' /\ opened' = "ok" /\ Charged' = Charged
          /\ DOMAIN entries = 1 .. Len(entries) /\ Len(entries) \in Nat
          /\ limits' = limits /\ entries' = entries /\ input' = input
          /\ limits.entry \in Nat /\ limits.total \in Nat
          /\ \A n \in Nat : Reached(n)' = Reached(n)
      BY <1>1, <1>3, ArchiveWithin
    <2>2. extracted = "none" /\ got = << >> /\ total \in Nat
      BY <1>1 DEF Limited, ReadWithin
    <2>3. ReadWithin'
      BY <1>1, <1>3, <2>1, <2>2 DEF ReadWithin
    <2>4. ChargedOnce'
      <3>1. at' - 1 = at /\ at \in 1 .. Len(entries)
        BY <1>1, <1>3, <2>1
      <3>2. Reached(at - 1)' = Reached(at)
        BY <1>3, <2>1, <3>1 DEF Reached, parseVars, Is
      <3>3. Charged => at' - 1 <= Len(entries') /\ total' <= Reached(at - 1)'
        BY <1>3, <2>1, <3>1, <3>2
      <3>4. Charged => verified' # "limit"
        BY <1>3 DEF Limited, ChargedOnce, Charged
      <3> QED
        BY <1>1, <1>3, <2>1, <2>2, <3>3, <3>4 DEF ChargedOnce, Charged
    <2>5. GotWithin'
      <3>1. IsVector(got') /\ Len(got') = 0 /\ \A i \in 1 .. Len(got') : FALSE
        BY <1>3, <2>2, NoRecords
      <3>2. Written' = 0
        BY <3>1, NothingWrittenNext DEF NothingGot
      <3>3. Missing' = 0
        BY <1>1, <1>3 DEF Missing
      <3> QED
        BY <1>1, <1>3, <2>1, <3>1, <3>2, <3>3 DEF GotWithin
    <2> QED
      BY <2>1, <2>3, <2>4, <2>5 DEF Limited
  <1> QED
    BY <1>2, <1>3 DEF VerifyEntry

\* ... and all of them.
LEMMA VerifyDoneWithin ==
  ASSUME Inv, Inv', Limited, VerifyDone
  PROVE  Limited'
  BY VerifyReturnsWithin DEF VerifyDone

\* What was written is within the limits once the extraction returned.
LEMMA ReturnsWithin ==
  ASSUME Inv, Inv', Limited, op \in {"extract", "chunks"}, NEW r, ExtractReturns(r),
         Charged /\ sink => r # "limit", sink' = sink,
         IsVector(got'), \A i \in 1 .. Len(got') : IsVector(got'[i]) /\ Len(got'[i]) <= limits.entry,
         sink \/ input.format \in {"zip", "rpm", "deb"} => Written' <= limits.total,
         at' \in Nat, total' \in Nat
  PROVE  Limited'
  <1>1. /\ UNCHANGED <<input, limits, opened, verified, parseVars>> /\ op' = "done" /\ extracted' = r
    BY DEF ExtractReturns
  <1>2. /\ ListWithin' /\ ParserWithin' /\ opened' = "ok" /\ Charged' = Charged
        /\ limits' = limits /\ input' = input
    BY <1>1, ArchiveWithin
  <1>3. ReadWithin'
    BY <1>1, <1>2 DEF ReadWithin
  <1>4. ChargedOnce'
    <2>1. Charged => verified' # "limit"
      BY <1>1 DEF Limited, ChargedOnce, Charged
    <2> QED
      BY <1>1, <1>2, <2>1 DEF ChargedOnce, Charged
  <1>5. GotWithin'
    <2>1. Missing' = 0
      BY <1>1 DEF Missing
    <2>2. Written' \in Int
      <3>1. (IsVector(got) /\ \A i \in 1 .. Len(got) : IsVector(got[i]))'
        OBVIOUS
      <3> QED
        BY <3>1, WrittenNumberNext DEF VectorsGot
    <2>3. sink' \/ input'.format \in {"zip", "rpm", "deb"} => Written' + Missing' <= limits'.total
      BY <1>2, <2>1, <2>2
    <2> QED
      BY <1>1, <1>2, <2>3 DEF GotWithin
  <1> QED
    BY <1>2, <1>3, <1>4, <1>5 DEF Limited

\* The same where nothing more was written.
LEMMA EndsWithin ==
  ASSUME Inv, Inv', Limited, op \in {"extract", "chunks"}, NEW r, ExtractReturns(r),
         Charged /\ sink => r # "limit", UNCHANGED <<at, total, sink, got>>
  PROVE  Limited'
  <1>1. /\ IsVector(got) /\ \A i \in 1 .. Len(got) : IsVector(got[i]) /\ Len(got[i]) <= limits.entry
        /\ total \in Nat /\ at \in Nat
        /\ (sink \/ input.format \in {"zip", "rpm", "deb"} => Written + Missing <= limits.total)
    BY DEF Limited, GotWithin, ReadWithin, Inv, ControlOK
  <1>2. Missing \in Nat
    <2>1. op = "chunks" => Len(content) \in Nat /\ cursor \in 0 .. Len(content)
      BY DEF Inv, ControlOK, IsVector
    <2> QED
      BY <2>1 DEF Missing
  <1>3. Written \in Int
    BY <1>1, WrittenNumber
  <1>4. limits.total \in Nat
    BY DEF Inv, ControlOK, LimitsOK
  <1>5. \A a, b, c \in Int : b >= 0 /\ a + b <= c => a <= c
    OBVIOUS
  <1>6. sink \/ input.format \in {"zip", "rpm", "deb"} => Written <= limits.total
    BY <1>1, <1>2, <1>3, <1>4, <1>5
  <1>7. Written' = Written
    BY DEF Written
  <1> QED
    BY <1>1, <1>6, <1>7, ReturnsWithin

\* An entry is begun.
LEMMA BeginWithin ==
  ASSUME Inv, Inv', Limited, NEW result, NEW size, NEW data, BeginEntry(result, size, data),
         result = "ok" => /\ IsVector(data) /\ size \in Nat /\ Len(data) <= size
                          /\ Len(data) <= limits.entry /\ total + size <= limits.total,
         Charged => result # "limit" /\ (result = "ok" => total + size <= Reached(at))
  PROVE  Limited'
  <1>1. op = "extract" /\ sink /\ at \in DOMAIN entries
    BY DEF BeginEntry
  <1>2. CASE ExtractReturns("sink") /\ UNCHANGED <<at, total, content, cursor, sink, got, finished>>
    BY <1>1, <1>2, EndsWithin
  <1>3. CASE ExtractReturns(result) /\ UNCHANGED loopVars
    BY <1>1, <1>3, EndsWithin DEF loopVars
  <1>4. CASE /\ result = "ok" /\ total' = total + size /\ content' = data /\ cursor' = 0 /\ op' = "chunks"
             /\ UNCHANGED <<input, limits, opened, verified, extracted, parseVars, at, sink,
                            got, finished>>
    <2>1. /\ ListWithin' /\ ParserWithin' /\ opened' = "ok" /\ Charged' = Charged
          /\ DOMAIN entries = 1 .. Len(entries) /\ Len(entries) \in Nat
          /\ limits' = limits /\ entries' = entries /\ input' = input
          /\ limits.entry \in Nat /\ limits.total \in Nat
          /\ \A n \in Nat : Reached(n)' = Reached(n)
      BY <1>1, <1>4, ArchiveWithin
    <2>2. extracted = "none" /\ total \in Nat
      BY <1>1 DEF Limited, ReadWithin
    <2>3. ReadWithin'
      BY <1>1, <1>4, <2>1, <2>2 DEF ReadWithin
    <2>4. at \in 1 .. Len(entries)
      BY <1>1, <2>1
    <2>5. ChargedOnce'
      <3>1. Reached(at)' = Reached(at)
        BY <1>4, <2>1, <2>4 DEF Reached, parseVars, Is
      <3>2. Charged => at' <= Len(entries') /\ total' <= Reached(at)'
        BY <1>4, <2>1, <2>4, <3>1
      <3>3. Charged => verified' # "limit"
        BY <1>4 DEF Limited, ChargedOnce, Charged
      <3> QED
        BY <1>1, <1>4, <2>1, <2>2, <3>2, <3>3 DEF ChargedOnce, Charged
    <2>6. GotWithin'
      <3>1. /\ IsVector(got) /\ Len(got) = Len(entries)
            /\ \A i \in 1 .. Len(got) : IsVector(got[i]) /\ Len(got[i]) <= limits.entry
            /\ \A i \in 1 .. Len(got) : i >= at => got[i] = << >>
            /\ Written + Missing <= total
        BY <1>1 DEF Limited, GotWithin
      <3>2. Missing = 0 /\ Missing' = Len(data) - 0
        BY <1>1, <1>4 DEF Missing
      <3>3. Written \in Int /\ Len(data) \in Nat
        BY <1>4, <3>1, WrittenNumber DEF IsVector
      <3>4. Written' = Written
        BY <1>4 DEF Written
      <3>5. Written' + Missing' <= total' /\ total' <= limits'.total /\ Written' + Missing' <= limits'.total
        <4>1. \A w \in Int, d, t, s, l \in Nat :
                w + 0 <= t /\ d <= s /\ t + s <= l =>
                  w + (d - 0) <= t + s /\ w + (d - 0) <= l
          OBVIOUS
        <4> QED
          BY <1>4, <2>1, <2>2, <3>1, <3>2, <3>3, <3>4, <4>1
      <3>6. at <= Len(got) /\ got[at] = << >> /\ Len(<< >>) = 0
        BY <2>4, <3>1, NoRecords
      <3>7. \A i \in 1 .. Len(got) : i > at => got[i] = << >>
        BY <2>4, <3>1
      <3> QED
        BY <1>1, <1>4, <2>1, <3>1, <3>5, <3>6, <3>7 DEF GotWithin
    <2> QED
      BY <2>1, <2>3, <2>5, <2>6 DEF Limited
  <1> QED
    BY <1>2, <1>3, <1>4, Zenon DEF BeginEntry

\* extract_entries_to is done.
LEMMA DoneWithin ==
  ASSUME Inv, Inv', Limited, ExtractDone
  PROVE  Limited'
  BY EndsWithin DEF ExtractDone, loopVars

\* An entry is extracted alone.
LEMMA AloneWithin ==
  ASSUME Inv, Inv', Limited, NEW i, NEW result, NEW data, BeginAlone(i, result, data),
         result = "ok" => /\ i \in 1 .. Len(entries) /\ IsVector(data)
                          /\ Len(data) <= limits.entry
                          /\ input.format \in {"zip", "rpm", "deb"} => Len(data) <= limits.total
  PROVE  Limited'
  <1>1. op = "extract" /\ ~ sink
    BY DEF BeginAlone
  <1>2. CASE ExtractReturns(result) /\ UNCHANGED loopVars
    BY <1>1, <1>2, EndsWithin DEF loopVars
  <1>3. CASE /\ result = "ok" /\ at' = i /\ content' = data /\ cursor' = 0 /\ op' = "chunks"
             /\ UNCHANGED <<input, limits, opened, verified, extracted, parseVars, total, sink,
                            begun, got, finished>>
    <2>1. /\ ListWithin' /\ ParserWithin' /\ opened' = "ok" /\ Charged' = Charged
          /\ DOMAIN entries = 1 .. Len(entries) /\ Len(entries) \in Nat
          /\ limits' = limits /\ entries' = entries /\ input' = input
          /\ limits.entry \in Nat /\ limits.total \in Nat
      BY <1>1, <1>3, ArchiveWithin
    <2>2. extracted = "none" /\ total \in Nat
      BY <1>1 DEF Limited, ReadWithin
    <2>3. ReadWithin'
      BY <1>1, <1>3, <2>1, <2>2 DEF ReadWithin
    <2>4. ChargedOnce'
      <3>1. Charged => verified' # "limit"
        BY <1>3 DEF Limited, ChargedOnce, Charged
      <3> QED
        BY <1>1, <1>3, <2>1, <2>2, <3>1 DEF ChargedOnce, Charged
    <2>5. GotWithin'
      <3>1. /\ IsVector(got) /\ Len(got) = Len(entries)
            /\ \A j \in 1 .. Len(got) : got[j] = << >>
        BY <1>1 DEF Limited, GotWithin
      <3>2. Missing' = Len(data) - 0 /\ Len(data) \in Nat
        BY <1>3 DEF Missing, IsVector
      <3>3. Written' = 0
        BY <1>3, <3>1, NothingWrittenNext DEF NothingGot
      <3>4. Len(<< >>) = 0 /\ IsVector(<< >>)
        BY NoRecords
      <3>5. \A j \in 1 .. Len(got') : IsVector(got'[j]) /\ Len(got'[j]) <= limits'.entry
        BY <1>3, <2>1, <3>1, <3>4
      <3>6. at' \in 1 .. Len(entries) /\ at' <= Len(got') /\ Len(got'[at']) = cursor'
        BY <1>3, <2>1, <3>1, <3>4
      <3>7. input'.format \in {"zip", "rpm", "deb"} => Written' + Missing' <= limits'.total
        BY <1>3, <2>1, <3>2, <3>3
      <3> QED
        BY <1>1, <1>3, <2>1, <3>1, <3>5, <3>6, <3>7 DEF GotWithin
    <2> QED
      BY <2>1, <2>3, <2>4, <2>5 DEF Limited
  <1> QED
    BY <1>2, <1>3 DEF BeginAlone

\* A chunk is written.
LEMMA ChunkWrittenWithin ==
  ASSUME Inv, Inv', Limited, WriteChunk
  PROVE  Limited'
  <1> DEFINE end == Smaller(cursor + IoChunk, Len(content))
             part == SubSeq(content, cursor + 1, end)
             x == got[at] \o part
  <1>1. /\ op = "chunks" /\ cursor < Len(content)
        /\ UNCHANGED <<at, total, content, sink, begun, finished>>
        /\ got' = [got EXCEPT ![at] = @ \o part]
    BY DEF WriteChunk
  <1>2. /\ IsVector(content) /\ cursor \in 0 .. Len(content) /\ Len(content) \in Nat
        /\ at \in Nat \ {0} /\ limits.total \in Nat
    BY <1>1 DEF Inv, ControlOK, IsVector, LimitsOK
  <1>3. end \in Nat /\ cursor < end /\ end <= Len(content)
    BY <1>1, <1>2, CasesAssumption DEF Smaller
  <1>4. /\ IsVector(got) /\ Len(got) = Len(entries)
        /\ \A i \in 1 .. Len(got) : IsVector(got[i]) /\ Len(got[i]) <= limits.entry
        /\ at <= Len(got) /\ Len(got[at]) = cursor /\ Len(content) <= limits.entry
        /\ \A i \in 1 .. Len(got) : (IF sink THEN i > at ELSE i # at) => got[i] = << >>
        /\ (sink => Written + Missing <= total /\ total <= limits.total)
        /\ (sink \/ input.format \in {"zip", "rpm", "deb"} => Written + Missing <= limits.total)
        /\ total \in Nat
    BY <1>1 DEF Limited, GotWithin, ReadWithin
  <1>5. at \in 1 .. Len(got)
    BY <1>2, <1>4 DEF IsVector
  <1>6. IsVector(part) /\ Len(part) = end - cursor
    <2> HIDE DEF end
    <2>1. IsVector(part) /\ Len(part) = IF cursor + 1 <= end THEN end - (cursor + 1) + 1 ELSE 0
      BY <1>2, <1>3, SubVector
    <2> QED
      BY <1>2, <1>3, <2>1
  <1> HIDE DEF end, part
  <1>7. IsVector(x) /\ Len(x) = end
    <2>1. IsVector(x) /\ Len(x) = Len(got[at]) + Len(part)
      BY <1>4, <1>5, <1>6, ConcatVector
    <2> QED
      BY <1>2, <1>3, <1>4, <1>6, <2>1
  <1>8. got' = [got EXCEPT ![at] = x]
    BY <1>1
  <1> HIDE DEF x
  <1>9. /\ IsVector(got') /\ Len(got') = Len(got) /\ got'[at] = x
        /\ \A i \in 1 .. Len(got) : i # at => got'[i] = got[i]
        /\ Written' = Written + (Len(x) - Len(got[at]))
    BY <1>4, <1>5, <1>7, <1>8, WrittenMore, Zenon
  <1>10. \A i \in 1 .. Len(got') : IsVector(got'[i]) /\ Len(got'[i]) <= limits.entry
    <2>1. end <= limits.entry
      BY <1>2, <1>3, <1>4 DEF Inv, ControlOK, LimitsOK
    <2> QED
      BY <1>4, <1>7, <1>9, <2>1, Zenon
  <1>11. Written \in Int /\ Written' = Written + (end - cursor) /\ Missing = Len(content) - cursor
    BY <1>1, <1>4, <1>7, <1>9, WrittenNumber DEF Missing
  <1>12. CASE ExtractReturns("sink")
    <2>1. \A w \in Int, c, e, l, m \in Nat : e <= l /\ w + (l - c) <= m => w + (e - c) <= m
      OBVIOUS
    <2>2. sink \/ input.format \in {"zip", "rpm", "deb"} => Written' <= limits.total
      BY <1>2, <1>3, <1>4, <1>11, <2>1
    <2> QED
      BY <1>1, <1>2, <1>4, <1>9, <1>10, <1>12, <2>2, ReturnsWithin, Zenon
  <1>13. CASE /\ cursor' = end
              /\ UNCHANGED <<input, limits, op, opened, verified, extracted, parseVars>>
    <2>1. /\ ListWithin' /\ ParserWithin' /\ opened' = "ok" /\ Charged' = Charged
          /\ limits' = limits /\ entries' = entries /\ input' = input
          /\ \A n \in Nat : Reached(n)' = Reached(n)
      BY <1>1, <1>13, ArchiveWithin
    <2>2. extracted = "none" /\ total \in Nat
      BY <1>1 DEF Limited, ReadWithin
    <2>3. ReadWithin'
      BY <1>1, <1>13, <2>1, <2>2 DEF ReadWithin
    <2>4. ChargedOnce'
      <3>1. Charged => verified' # "limit" /\ (sink => at <= Len(entries) /\ total <= Reached(at))
        BY <1>1, <1>13 DEF Limited, ChargedOnce, Charged
      <3>2. Reached(at)' = Reached(at)
        BY <1>1, <1>13 DEF Reached, parseVars, Is
      <3>3. Charged => (sink => at' <= Len(entries') /\ total' <= Reached(at)')
        BY <1>1, <2>1, <3>1, <3>2
      <3> QED
        BY <1>1, <1>13, <2>1, <2>2, <3>1, <3>3 DEF ChargedOnce, Charged
    <2>5. GotWithin'
      <3>1. Missing' = Len(content) - end
        BY <1>1, <1>13 DEF Missing
      <3>2. \A w \in Int, c, e, l \in Nat : (w + (e - c)) + (l - e) = w + (l - c)
        OBVIOUS
      <3>3. Written' + Missing' = Written + Missing
        BY <1>2, <1>3, <1>11, <3>1, <3>2
      <3>4. at' <= Len(got') /\ Len(got'[at']) = cursor' /\ Len(content') <= limits'.entry
        BY <1>1, <1>4, <1>7, <1>9, <1>13, <2>1
      <3>5. \A i \in 1 .. Len(got') : (IF sink' THEN i > at' ELSE i # at') => got'[i] = << >>
        BY <1>1, <1>2, <1>4, <1>9
      <3> QED
        BY <1>1, <1>4, <1>9, <1>10, <1>13, <2>1, <3>3, <3>4, <3>5 DEF GotWithin
    <2> QED
      BY <2>1, <2>3, <2>4, <2>5 DEF Limited
  <1> QED
    BY <1>12, <1>13 DEF WriteChunk, end

\* An entry is finished.
LEMMA FinishWithin ==
  ASSUME Inv, Inv', Limited, FinishEntry
  PROVE  Limited'
  <1>1. /\ op = "chunks" /\ cursor = Len(content)
        /\ UNCHANGED <<total, content, cursor, sink, begun, got>>
    BY DEF FinishEntry, Delivered
  <1>2. CASE ExtractReturns("sink") /\ UNCHANGED <<at, finished>>
    BY <1>1, <1>2, EndsWithin
  <1>3. CASE ExtractReturns("ok") /\ UNCHANGED <<at, finished>>
    BY <1>1, <1>3, EndsWithin
  <1>4. CASE /\ sink /\ finished' = Append(finished, at) /\ at' = at + 1 /\ op' = "extract"
             /\ UNCHANGED <<input, limits, opened, verified, extracted, parseVars>>
    <2>1. /\ ListWithin' /\ ParserWithin' /\ opened' = "ok" /\ Charged' = Charged
          /\ limits' = limits /\ entries' = entries /\ input' = input
      BY <1>1, <1>4, ArchiveWithin
    <2>2. extracted = "none" /\ total \in Nat
      BY <1>1 DEF Limited, ReadWithin
    <2>3. ReadWithin'
      BY <1>1, <1>4, <2>1, <2>2 DEF ReadWithin
    <2>4. at \in Nat \ {0} /\ at' - 1 = at
      BY <1>4 DEF Inv, ControlOK
    <2>5. ChargedOnce'
      <3>1. Charged => verified' # "limit" /\ at <= Len(entries) /\ total <= Reached(at)
        BY <1>1, <1>4 DEF Limited, ChargedOnce, Charged
      <3>2. Reached(at - 1)' = Reached(at)
        BY <1>4, <2>4 DEF Reached, parseVars, Is
      <3>3. Charged => at' - 1 <= Len(entries') /\ total' <= Reached(at - 1)'
        BY <1>1, <2>1, <2>4, <3>1, <3>2
      <3> QED
        BY <1>1, <1>4, <2>1, <2>2, <3>1, <3>3 DEF ChargedOnce, Charged
    <2>6. GotWithin'
      <3>1. /\ IsVector(got) /\ Len(got) = Len(entries)
            /\ \A i \in 1 .. Len(got) : IsVector(got[i]) /\ Len(got[i]) <= limits.entry
            /\ \A i \in 1 .. Len(got) : i > at => got[i] = << >>
            /\ Written + Missing <= total /\ total <= limits.total
            /\ Written + Missing <= limits.total
        BY <1>1, <1>4, Zenon DEF Limited, GotWithin
      <3>2. Missing = 0 /\ Missing' = 0 /\ Written' = Written
        <4>1. Len(content) \in Nat
          BY <1>1 DEF Inv, ControlOK, IsVector
        <4> QED
          BY <1>1, <1>4, <4>1 DEF Missing, Written
      <3>3. \A i \in 1 .. Len(got') : (sink' => i >= at') => got'[i] = << >>
        BY <1>1, <1>4, <2>4, <3>1 DEF IsVector
      <3> QED
        BY <1>1, <1>4, <2>1, <3>1, <3>2, <3>3 DEF GotWithin
    <2> QED
      BY <2>1, <2>3, <2>5, <2>6 DEF Limited
  <1> QED
    BY <1>1, <1>2, <1>3, <1>4 DEF FinishEntry

\* A checkpoint interrupts the operation.
LEMMA InterruptWithin ==
  ASSUME Inv, Inv', Limited, Interrupt
  PROVE  Limited'
  <1>1. CASE op \in {"read", "open"} /\ OpenReturns("interrupted") /\ UNCHANGED parseVars
    BY <1>1, FailsWithin
  <1>2. CASE op = "verify" /\ VerifyReturns("interrupted")
    BY <1>2, VerifyReturnsWithin
  <1>3. CASE op \in {"extract", "chunks"} /\ ExtractReturns("interrupted") /\ UNCHANGED loopVars
    BY <1>3, EndsWithin DEF loopVars
  <1> QED
    BY <1>1, <1>2, <1>3 DEF Interrupt
-----------------------------------------------------------------------------
(***************************************************************************)
(* The limits: the loops of each reader                                     *)
(***************************************************************************)
\* Rows of checks none of which fails for a limit.
Clear(s) == IsVector(s) /\ \A i \in 1 .. Len(s) : s[i][1] \/ s[i][2] # "limit"

\* No limit is the first failure then.
LEMMA ClearResult ==
  ASSUME NEW s, Clear(s)
  PROVE  FirstFailure(s) # "limit"
  <1> DEFINE bad == {i \in DOMAIN s : ~ s[i][1]}
  <1>1. Len(s) \in Nat /\ DOMAIN s = 1 .. Len(s)
    BY VectorIsSeq DEF Clear
  <1>2. CASE bad = {}
    BY <1>2 DEF FirstFailure
  <1>3. CASE bad # {}
    <2>1. FirstFailure(s) = s[Min(bad)][2]
      BY <1>3 DEF FirstFailure
    <2>2. bad \in SUBSET Nat
      BY <1>1
    <2>3. \A i \in bad : i \in 1 .. Len(s) /\ ~ s[i][1]
      BY <1>1
    <2> HIDE DEF bad
    <2>4. \E x \in bad : \A y \in bad : x <= y
      BY <1>3, <2>2, LeastElement
    <2>5. Min(bad) \in bad
      BY <2>4 DEF Min
    <2> QED
      BY <2>1, <2>3, <2>5 DEF Clear
  <1> QED
    BY <1>2, <1>3

\* ... and of one row behind another.
LEMMA ClearConcat ==
  ASSUME NEW s, Clear(s), NEW t, Clear(t)
  PROVE  Clear(s \o t)
  <1> DEFINE n == Len(s)
             m == Len(t)
             r == s \o t
  <1>1. n \in Nat /\ m \in Nat /\ IsVector(s) /\ IsVector(t)
    BY DEF Clear, IsVector
  <1>2. /\ IsVector(r) /\ Len(r) = n + m
        /\ \A i \in 1 .. Len(r) : r[i] = IF i <= n THEN s[i] ELSE t[i - n]
    BY <1>1, ConcatVector
  <1> HIDE DEF r
  <1>3. \A i \in 1 .. n + m : (i <= n => i \in 1 .. n) /\ (~ (i <= n) => i - n \in 1 .. m)
    BY <1>1
  <1>4. ASSUME NEW i \in 1 .. n + m PROVE r[i][1] \/ r[i][2] # "limit"
    <2>1. CASE i <= n
      BY <1>2, <1>3, <2>1 DEF Clear
    <2>2. CASE ~ (i <= n)
      BY <1>2, <1>3, <2>2 DEF Clear
    <2> QED
      BY <2>1, <2>2
  <1>5. Clear(r)
    BY <1>2, <1>4 DEF Clear
  <1> QED
    BY <1>5 DEF r

\* The limits of the output hold where the checks passed.
LEMMA OutputHolds ==
  ASSUME NEW size, NEW t, Checks(t),
         FirstFailure(WithinOutput(size) \o t) = "ok" \/ FirstFailure(WithinOutput(size)) = "ok"
  PROVE  size <= limits.entry /\ total + size <= limits.total
  <1> DEFINE s == WithinOutput(size)
  <1>1. Checks(s) /\ Len(s) = 2 /\ s[1][1] = (size <= limits.entry)
        /\ s[2][1] = (total + size <= limits.total)
    BY DEF WithinOutput, Checks, IsVector
  <1>2. FirstFailure(s \o t) = "ok" \/ FirstFailure(s) = "ok"
    OBVIOUS
  <1> HIDE DEF s
  <1>3. \A i \in 1 .. Len(s) : s[i][1]
    BY <1>1, <1>2, AllHold, ConcatChecks
  <1>4. s[1][1] /\ s[2][1]
    BY <1>1, <1>3
  <1> QED
    BY <1>1, <1>4, Zenon

\* They are no limit to what they admit.
LEMMA OutputClear ==
  ASSUME NEW size, size <= limits.entry, total + size <= limits.total
  PROVE  Clear(WithinOutput(size))
  <1> DEFINE s == WithinOutput(size)
  <1>1. IsVector(s) /\ Len(s) = 2 /\ s[1][1] = (size <= limits.entry)
        /\ s[2][1] = (total + size <= limits.total)
    BY DEF WithinOutput, IsVector
  <1> HIDE DEF s
  <1>2. s[1][1] /\ s[2][1]
    BY <1>1, Zenon
  <1>3. \A i \in 1 .. 2 : i = 1 \/ i = 2
    OBVIOUS
  <1>4. \A i \in 1 .. Len(s) : s[i][1]
    BY <1>1, <1>2, <1>3, Zenon
  <1>5. Clear(s)
    BY <1>1, <1>4 DEF Clear
  <1> QED
    BY <1>5 DEF s
-----------------------------------------------------------------------------
\* What the entries of a package reach is within what open charged for.
LEMMA ReachedGrows ==
  ASSUME Inv, Limited, Charged, opened = "ok", NEW n \in 1 .. Len(entries)
  PROVE  /\ entries[n].size \in Nat /\ entries[n].size <= limits.entry
         /\ entries[n].start \in Nat /\ entries[n].end = entries[n].start + entries[n].size
         /\ Reached(n) \in Nat /\ Reached(n - 1) \in Nat
         /\ Reached(n - 1) + entries[n].size <= Reached(n)
         /\ Reached(n) <= limits.total
  <1>1. n \in Nat \ {0} /\ Len(entries) \in Nat
    BY EntriesVector
  <1>2. /\ \A i \in 1 .. Len(entries) : EntryWithin(entries[i])
        /\ limits.total \in Nat /\ limits.entry \in Nat
    BY DEF Limited, ListWithin, Inv, ControlOK, LimitsOK
  <1>3. \A i \in 1 .. Len(entries) : /\ entries[i].size \in Nat /\ entries[i].size <= limits.entry
                                     /\ entries[i].end = entries[i].start + entries[i].size
    BY <1>2 DEF EntryWithin, Charged, Is
  <1>4. n - 1 = 0 \/ n - 1 \in 1 .. Len(entries)
    BY <1>1
  <1>5. CASE Is("rpm")
    <2>1. acc.format # "none" /\ Len(acc.payload) <= limits.total
      BY <1>5 DEF Limited, ParserWithin
    <2>2. CpioOK(acc.payload) /\ RecordsOK(acc.payload)
      BY <1>5, <2>1 DEF Inv, FormatOK, RpmOK
    <2>3. /\ \A i \in 1 .. Len(entries) : entries[i].start \in Nat /\ entries[i].end \in Nat
          /\ \A i \in 1 .. Len(entries) : entries[i].end <= Len(acc.payload)
          /\ \A i, j \in 1 .. Len(entries) : i < j => entries[i].end <= entries[j].start
          /\ Len(acc.payload) \in Nat
      BY <2>2 DEF CpioOK, EntriesOK, EntryOK, BehindEachOther, RecordsOK, IsVector
    <2>4. \A i \in 1 .. Len(entries) : Reached(i) = entries[i].end
      <3>1. ~ Is("deb")
        BY <1>5, OneFormat
      <3> QED
        BY <2>3, <3>1 DEF Reached
    <2>5. Reached(n - 1) \in Nat /\ Reached(n - 1) <= entries[n].start
      <3>1. CASE n - 1 = 0
        BY <2>3, <3>1 DEF Reached
      <3>2. CASE n - 1 \in 1 .. Len(entries)
        <4>1. n - 1 < n
          BY <1>1
        <4> QED
          BY <2>3, <2>4, <3>2, <4>1, Zenon
      <3> QED
        BY <1>4, <3>1, <3>2
    <2>6. Reached(n) = entries[n].end /\ entries[n].end <= limits.total
      BY <1>2, <2>1, <2>3, <2>4
    <2> QED
      BY <1>3, <2>3, <2>5, <2>6
  <1>6. CASE Is("deb")
    <2> DEFINE base(e) == IF e.section = "data" THEN Len(acc.control) ELSE 0
    <2>1. acc.format = "data" /\ Len(acc.control) + Len(acc.data) <= limits.total
      BY <1>6, Zenon DEF Limited, ParserWithin, DebParserWithin
    <2>2. DebOK
      BY <1>6 DEF Inv, FormatOK
    <2>3. Len(acc.control) \in Nat /\ Len(acc.data) \in Nat
      BY <2>1, <2>2 DEF DebOK, DebParserOK, RecordsOK, IsVector
    <2>4. /\ \A i \in 1 .. Len(entries) : entries[i].start \in Nat /\ entries[i].end \in Nat
          /\ \A i \in 1 .. Len(entries) : entries[i].section \in {"control", "data"}
          /\ \A i \in 1 .. Len(entries) : entries[i].end <= Len(DebSection(entries[i]))
          /\ \A i, j \in 1 .. Len(entries) :
               i < j /\ entries[i].section = entries[j].section => entries[i].end <= entries[j].start
      BY <2>2 DEF DebOK, EntriesOK, EntryOK, DebEntryOK
    <2>5. \A i, j \in 1 .. Len(entries) :
            i < j /\ entries[i].section = "data" => entries[j].section = "data"
      BY <1>6 DEF Limited, ParserWithin
    <2>6. \A i \in 1 .. Len(entries) : Reached(i) = entries[i].end + base(entries[i])
      BY <1>6 DEF Reached
    <2>7. \A i \in 1 .. Len(entries) :
            /\ base(entries[i]) \in Nat
            /\ entries[i].section = "data" => base(entries[i]) = Len(acc.control)
                                              /\ entries[i].end <= Len(acc.data)
            /\ entries[i].section # "data" => base(entries[i]) = 0
                                              /\ entries[i].end <= Len(acc.control)
      BY <2>3, <2>4 DEF DebSection
    <2> HIDE DEF base
    <2>8. Reached(n - 1) \in Nat /\ Reached(n - 1) <= entries[n].start + base(entries[n])
      <3>1. CASE n - 1 = 0
        BY <2>4, <2>7, <3>1 DEF Reached
      <3>2. CASE n - 1 \in 1 .. Len(entries)
        <4> DEFINE p == n - 1
        <4>1. p < n /\ p \in 1 .. Len(entries)
          BY <1>1, <3>2
        <4> HIDE DEF p
        <4>2. Reached(p) = entries[p].end + base(entries[p])
          BY <2>6, <4>1
        <4>3. CASE entries[p].section = entries[n].section
          <5>1. entries[p].end <= entries[n].start
            BY <2>4, <4>1, <4>3, Zenon
          <5>2. base(entries[p]) = base(entries[n])
            BY <4>3 DEF base
          <5>3. entries[p].end \in Nat /\ entries[n].start \in Nat
            BY <2>4, <4>1
          <5>4. base(entries[n]) \in Nat
            BY <2>7
          <5>5. Reached(p) = entries[p].end + base(entries[n])
            BY <4>2, <5>2
          <5> QED
            BY <5>1, <5>3, <5>4, <5>5 DEF p
        <4>4. CASE entries[p].section # entries[n].section
          <5>1. entries[p].section = "control" /\ entries[n].section = "data"
            BY <2>4, <2>5, <4>1, <4>4
          <5>2. /\ base(entries[p]) = 0 /\ entries[p].end <= Len(acc.control)
                /\ base(entries[n]) = Len(acc.control)
            BY <2>7, <4>1, <5>1
          <5>3. entries[p].end \in Nat /\ entries[n].start \in Nat
            BY <2>4, <4>1
          <5>4. Reached(p) = entries[p].end + 0
            BY <4>2, <5>2
          <5> QED
            BY <2>3, <5>2, <5>3, <5>4 DEF p
        <4> QED
          BY <4>3, <4>4
      <3> QED
        BY <1>4, <3>1, <3>2
    <2>9. Reached(n) = entries[n].end + base(entries[n]) /\ Reached(n) \in Nat /\ Reached(n) <= limits.total
      <3>1. entries[n].end \in Nat /\ base(entries[n]) \in Nat
            /\ Reached(n) = entries[n].end + base(entries[n])
        BY <2>4, <2>6, <2>7
      <3>2. entries[n].end + base(entries[n]) <= Len(acc.control) + Len(acc.data)
        <4>0. \A e, b, c, d \in Nat : (b = c /\ e <= d) \/ (b = 0 /\ e <= c) => e + b <= c + d
          OBVIOUS
        <4>1. CASE entries[n].section = "data"
          <5>1. base(entries[n]) = Len(acc.control) /\ entries[n].end <= Len(acc.data)
            BY <2>7, <4>1
          <5> QED
            BY <2>3, <3>1, <4>0, <5>1, Zenon
        <4>2. CASE entries[n].section # "data"
          <5>1. base(entries[n]) = 0 /\ entries[n].end <= Len(acc.control)
            BY <2>7, <4>2
          <5> QED
            BY <2>3, <3>1, <4>0, <5>1, Zenon
        <4> QED
          BY <4>1, <4>2, Zenon
      <3> DEFINE u == entries[n].end + base(entries[n])
                 v == Len(acc.control) + Len(acc.data)
      <3>3. u \in Nat /\ v \in Nat
        <4>1. \A a, b \in Nat : a + b \in Nat
          OBVIOUS
        <4> QED
          BY <2>3, <3>1, <4>1, Zenon
      <3>4. u <= v /\ v <= limits.total /\ limits.total \in Nat
        BY <1>2, <2>1, <3>2, Zenon
      <3> HIDE DEF v
      <3>5. u <= limits.total
        <4> HIDE DEF u
        <4> QED
          BY <3>3, <3>4
      <3> QED
        BY <3>1, <3>3, <3>5, Zenon
    <2>10. \A a, s, z, b, e, r \in Nat : a <= s + b /\ e = s + z /\ r = e + b => a + z <= r
      OBVIOUS
    <2>11. Reached(n - 1) + entries[n].size <= Reached(n)
      BY <1>3, <2>4, <2>7, <2>8, <2>9, <2>10, Zenon
    <2> QED
      BY <1>3, <2>4, <2>8, <2>9, <2>11
  <1> QED
    BY <1>5, <1>6 DEF Charged

\* Where verify or extraction is at an entry of a package, the entry is
\* within what open charged for.
LEMMA ChargedEntry ==
  ASSUME Inv, Limited, Charged, op = "verify" \/ (op = "extract" /\ sink), at \in DOMAIN entries
  PROVE  /\ at \in 1 .. Len(entries)
         /\ entries[at].size \in Nat /\ entries[at].size <= limits.entry
         /\ total + entries[at].size <= Reached(at)
         /\ total + entries[at].size <= limits.total
         /\ Clear(WithinOutput(entries[at].size))
  <1>1. at \in 1 .. Len(entries)
    BY EntriesVector
  <1>2. opened = "ok" /\ total \in Nat /\ total <= Reached(at - 1) /\ limits.total \in Nat
    BY DEF Limited, ReadWithin, ChargedOnce, Charged, Inv, ControlOK, LimitsOK
  <1>3. /\ entries[at].size \in Nat /\ entries[at].size <= limits.entry
        /\ Reached(at) \in Nat /\ Reached(at - 1) \in Nat
        /\ Reached(at - 1) + entries[at].size <= Reached(at)
        /\ Reached(at) <= limits.total
    BY <1>1, <1>2, ReachedGrows
  <1>4. \A t, p, z, r, l \in Nat : t <= p /\ p + z <= r /\ r <= l => t + z <= r /\ t + z <= l
    OBVIOUS
  <1>5. total + entries[at].size <= Reached(at) /\ total + entries[at].size <= limits.total
    BY <1>2, <1>3, <1>4
  <1> QED
    BY <1>1, <1>3, <1>5, OutputClear

\* What CPIO, RPM and Debian readers hand out of an entry is a slice as long as
\* the entry.
LEMMA SliceOfEntry ==
  ASSUME NEW s, IsVector(s), NEW e, e.start \in Nat, e.size \in Nat, e.end = e.start + e.size
  PROVE  IsVector(Slice(s, e.start, e.end - e.start)) /\ Len(Slice(s, e.start, e.end - e.start)) <= e.size
  <1>1. e.end - e.start = e.size /\ e.size \in Int /\ e.size >= 0
    OBVIOUS
  <1> QED
    BY <1>1, SliceLemma, Zenon

\* Two checks behind the limits of the output.
LEMMA TwoChecks ==
  ASSUME NEW a, NEW b, NEW x, x # "ok", NEW y, y # "ok"
  PROVE  Checks(<< <<a, x>>, <<b, y>> >>)
  BY DEF Checks, IsVector

\* One check is a row of checks.
LEMMA OneCheck ==
  ASSUME NEW a, NEW x, x # "ok"
  PROVE  Checks(<< <<a, x>> >>)
  BY DEF Checks, IsVector

\* Two checks that no limit can fail.
LEMMA TwoClear ==
  ASSUME NEW a, NEW b, NEW x, x # "limit", NEW y, y # "limit"
  PROVE  Clear(<< <<a, x>>, <<b, y>> >>)
  BY DEF Clear, IsVector

\* One check that no limit can fail.
LEMMA OneClear ==
  ASSUME NEW a, NEW x, x # "limit"
  PROVE  Clear(<< <<a, x>> >>)
  BY DEF Clear, IsVector

\* The entry the loops are at.
LEMMA EntryAt ==
  ASSUME Inv, Limited, NEW i \in DOMAIN entries
  PROVE  /\ i \in 1 .. Len(entries)
         /\ entries[i].size \in Nat /\ entries[i].size <= limits.entry
         /\ (input.format \in {"cpio", "rpm", "deb"} => entries[i].end = entries[i].start + entries[i].size)
         /\ limits.entry \in Nat /\ limits.total \in Nat
  <1>1. i \in 1 .. Len(entries)
    BY EntriesVector
  <1>2. EntryWithin(entries[i])
    BY <1>1 DEF Limited, ListWithin
  <1> QED
    BY <1>1, <1>2 DEF EntryWithin, Inv, ControlOK, LimitsOK

\* CPIO: what is verified, and extracted, is within the limits.
LEMMA CpioLoopsWithin ==
  ASSUME Inv, Inv', Limited, CpioVerify \/ CpioExtractEntries \/ CpioExtractEntry
  PROVE  Limited'
  <1>1. Is("cpio") /\ ~ Charged /\ input.format = "cpio"
    BY OneFormat DEF CpioVerify, CpioExtractEntries, CpioExtractEntry, Charged, Is
  <1>2. EntriesOK /\ IsVector(Cells)
    BY <1>1 DEF Inv, ControlOK, FormatOK, CpioOK, CellsOK
  <1>3. ASSUME NEW i \in DOMAIN entries
        PROVE  /\ IsVector(CpioData(entries[i])) /\ Len(CpioData(entries[i])) <= entries[i].size
               /\ Len(CpioData(entries[i])) <= limits.entry
               /\ entries[i].size \in Nat
               /\ Checks(CpioVerified(entries[i]))
    <2>1. /\ entries[i].size \in Nat /\ entries[i].size <= limits.entry
          /\ entries[i].end = entries[i].start + entries[i].size
          /\ limits.entry \in Nat
      BY <1>1, EntryAt
    <2>2. entries[i].start \in Nat
      BY <1>2, EntryThere
    <2>3. IsVector(CpioData(entries[i])) /\ Len(CpioData(entries[i])) <= entries[i].size
      BY <1>2, <2>1, <2>2, SliceOfEntry DEF CpioData
    <2>4. Len(CpioData(entries[i])) <= limits.entry
      BY <2>1, <2>3 DEF IsVector
    <2>5. Checks(CpioVerified(entries[i]))
      BY TwoChecks, Zenon DEF CpioVerified
    <2> QED
      BY <2>1, <2>3, <2>4, <2>5
  <1>4. ASSUME at \in DOMAIN entries,
               FirstFailure(WithinOutput(entries[at].size) \o CpioVerified(entries[at])) = "ok"
        PROVE  total + entries[at].size <= limits.total
    BY <1>3, <1>4, OutputHolds
  <1>5. CASE CpioVerify
    <2>1. CASE VerifyDone
      BY <2>1, VerifyDoneWithin
    <2>2. CASE at \in DOMAIN entries
      BY <1>1, <1>3, <1>5, <2>2, VerifyEntryWithin, VerifyDoneWithin DEF CpioVerify
    <2> QED
      BY <1>5, <2>1, <2>2 DEF CpioVerify
  <1>6. CASE CpioExtractEntries
    <2>1. CASE ExtractDone
      BY <2>1, DoneWithin
    <2>2. CASE at \in DOMAIN entries
      BY <1>1, <1>3, <1>4, <1>6, <2>2, BeginWithin, DoneWithin DEF CpioExtractEntries
    <2> QED
      BY <1>6, <2>1, <2>2 DEF CpioExtractEntries
  <1>7. CASE CpioExtractEntry
    <2>1. PICK i \in 1 .. Len(entries) + 1 :
            BeginAlone(i, CpioAlone(i), IF i \in DOMAIN entries THEN CpioData(entries[i]) ELSE << >>)
      BY <1>7 DEF CpioExtractEntry
    <2>2. CpioAlone(i) = "ok" => i \in DOMAIN entries /\ i \in 1 .. Len(entries)
      BY EntryAt DEF CpioAlone
    <2> QED
      BY <1>1, <1>3, <2>1, <2>2, AloneWithin
  <1> QED
    BY <1>5, <1>6, <1>7

\* RPM.
LEMMA RpmLoopsWithin ==
  ASSUME Inv, Inv', Limited, RpmVerify \/ RpmExtractEntries \/ RpmExtractEntry
  PROVE  Limited'
  <1>1. Is("rpm") /\ Charged /\ input.format = "rpm"
    BY DEF RpmVerify, RpmExtractEntries, RpmExtractEntry, Charged, Is
  <1>2. opened = "ok" /\ op \in {"verify", "extract"}
    BY DEF RpmVerify, RpmExtractEntries, RpmExtractEntry, VerifyEntry, VerifyDone, BeginEntry,
           ExtractDone, BeginAlone, Limited, ReadWithin
  <1>3. EntriesOK /\ IsVector(acc.payload)
    BY <1>1, <1>2 DEF Inv, FormatOK, RpmOK, CpioOK, RecordsOK, Limited, ParserWithin
  <1>4. ASSUME NEW i \in DOMAIN entries
        PROVE  /\ IsVector(RpmData(entries[i])) /\ Len(RpmData(entries[i])) <= entries[i].size
               /\ Len(RpmData(entries[i])) <= limits.entry
               /\ Len(RpmData(entries[i])) <= limits.total
               /\ entries[i].size \in Nat
               /\ Clear(RpmVerified(entries[i]))
    <2>1. i \in 1 .. Len(entries) /\ limits.entry \in Nat /\ limits.total \in Nat
      BY EntryAt
    <2>2. /\ entries[i].size \in Nat /\ entries[i].size <= limits.entry
          /\ entries[i].start \in Nat /\ entries[i].end = entries[i].start + entries[i].size
          /\ Reached(i) \in Nat /\ Reached(i - 1) \in Nat
          /\ Reached(i - 1) + entries[i].size <= Reached(i)
          /\ Reached(i) <= limits.total
      BY <1>1, <1>2, <2>1, ReachedGrows, Zenon
    <2>3. IsVector(RpmData(entries[i])) /\ Len(RpmData(entries[i])) <= entries[i].size
      BY <1>3, <2>2, SliceOfEntry DEF RpmData
    <2>4. Len(RpmData(entries[i])) \in Nat
      BY <2>3 DEF IsVector
    <2>5. \A d, z, e, l, p, r \in Nat : d <= z /\ z <= e /\ p + z <= r /\ r <= l => d <= e /\ d <= l
      OBVIOUS
    <2>6. Len(RpmData(entries[i])) <= limits.entry /\ Len(RpmData(entries[i])) <= limits.total
      BY <2>1, <2>2, <2>3, <2>4, <2>5
    <2>7. Clear(RpmVerified(entries[i]))
      BY TwoClear, Zenon DEF RpmVerified
    <2> QED
      BY <2>2, <2>3, <2>6, <2>7
  <1>5. CASE RpmVerify
    <2>1. CASE VerifyDone
      BY <2>1, VerifyDoneWithin
    <2>2. CASE at \in DOMAIN entries /\ ~ VerifyDone
      <3> DEFINE check == << <<total + entries[at].size <= limits.total, "limit">> >>
                 result == FirstFailure(check \o RpmVerified(entries[at]))
      <3>1. VerifyEntry(result, entries[at].size)
        BY <1>5, <2>2 DEF RpmVerify
      <3>2. op = "verify"
        BY <3>1 DEF VerifyEntry
      <3>3. entries[at].size \in Nat /\ total + entries[at].size <= Reached(at)
            /\ total + entries[at].size <= limits.total
        BY <1>1, <2>2, <3>2, ChargedEntry
      <3>4. Clear(check)
        <4>1. IsVector(check) /\ Len(check) = 1 /\ check[1][1] = (total + entries[at].size <= limits.total)
          BY DEF IsVector
        <4> HIDE DEF check
        <4>2. check[1][1]
          BY <3>3, <4>1, Zenon
        <4>3. \A i \in 1 .. 1 : i = 1
          OBVIOUS
        <4> QED
          BY <4>1, <4>2, <4>3 DEF Clear
      <3>5. result # "limit"
        BY <1>4, <2>2, <3>4, ClearConcat, ClearResult
      <3> HIDE DEF result
      <3> QED
        BY <3>1, <3>3, <3>5, VerifyEntryWithin
    <2> QED
      BY <1>5, <2>1, <2>2 DEF RpmVerify
  <1>6. CASE RpmExtractEntries
    <2>1. CASE ExtractDone
      BY <2>1, DoneWithin
    <2>2. CASE at \in DOMAIN entries /\ ~ ExtractDone
      <3> DEFINE result == FirstFailure(WithinOutput(entries[at].size) \o RpmVerified(entries[at]))
      <3>1. BeginEntry(result, entries[at].size, RpmData(entries[at]))
        BY <1>6, <2>2 DEF RpmExtractEntries
      <3>2. op = "extract" /\ sink
        BY <3>1 DEF BeginEntry
      <3>3. entries[at].size \in Nat /\ total + entries[at].size <= Reached(at)
            /\ total + entries[at].size <= limits.total /\ Clear(WithinOutput(entries[at].size))
        BY <1>1, <2>2, <3>2, ChargedEntry
      <3>4. result # "limit"
        BY <1>4, <2>2, <3>3, ClearConcat, ClearResult
      <3> HIDE DEF result
      <3> QED
        BY <1>4, <2>2, <3>1, <3>3, <3>4, BeginWithin
    <2> QED
      BY <1>6, <2>1, <2>2 DEF RpmExtractEntries
  <1>7. CASE RpmExtractEntry
    <2>1. PICK i \in 1 .. Len(entries) + 1 :
            BeginAlone(i, RpmAlone(i), IF i \in DOMAIN entries THEN RpmData(entries[i]) ELSE << >>)
      BY <1>7 DEF RpmExtractEntry
    <2>2. RpmAlone(i) = "ok" => i \in DOMAIN entries /\ i \in 1 .. Len(entries)
      BY EntryAt DEF RpmAlone
    <2> QED
      BY <1>1, <1>4, <2>1, <2>2, AloneWithin
  <1> QED
    BY <1>5, <1>6, <1>7

\* Debian.
LEMMA DebLoopsWithin ==
  ASSUME Inv, Inv', Limited,
         DebVerify \/ DebExtractEntries \/ DebExtractEntry \/ DebExtractMember
  PROVE  Limited'
  <1>1. Is("deb") /\ Charged /\ input.format = "deb"
    BY DEF DebVerify, DebExtractEntries, DebExtractEntry, DebExtractMember, Charged, Is
  <1>2. opened = "ok" /\ op \in {"verify", "extract"}
    BY DEF DebVerify, DebExtractEntries, DebExtractEntry, DebExtractMember, VerifyEntry, VerifyDone,
           BeginEntry, ExtractDone, BeginAlone, Limited, ReadWithin
  <1>3. EntriesOK /\ IsVector(acc.control) /\ IsVector(acc.data)
    BY <1>1, <1>2 DEF Inv, FormatOK, DebOK, DebParserOK, RecordsOK, Limited, ParserWithin
  <1>4. ASSUME NEW i \in DOMAIN entries
        PROVE  /\ IsVector(DebEntryData(entries[i])) /\ Len(DebEntryData(entries[i])) <= entries[i].size
               /\ Len(DebEntryData(entries[i])) <= limits.entry
               /\ Len(DebEntryData(entries[i])) <= limits.total
               /\ entries[i].size \in Nat
               /\ Clear(DebInRange(entries[i]))
    <2>1. i \in 1 .. Len(entries) /\ limits.entry \in Nat /\ limits.total \in Nat
      BY EntryAt
    <2>2. /\ entries[i].size \in Nat /\ entries[i].size <= limits.entry
          /\ entries[i].start \in Nat /\ entries[i].end = entries[i].start + entries[i].size
          /\ Reached(i) \in Nat /\ Reached(i - 1) \in Nat
          /\ Reached(i - 1) + entries[i].size <= Reached(i)
          /\ Reached(i) <= limits.total
      BY <1>1, <1>2, <2>1, ReachedGrows, Zenon
    <2>3. IsVector(DebEntryData(entries[i])) /\ Len(DebEntryData(entries[i])) <= entries[i].size
      BY <1>3, <2>2, SliceOfEntry, Zenon DEF DebEntryData, DebSection
    <2>4. Len(DebEntryData(entries[i])) \in Nat
      BY <2>3 DEF IsVector
    <2> DEFINE d == Len(DebEntryData(entries[i]))
               z == entries[i].size
    <2>5. d \in Nat /\ z \in Nat /\ d <= z /\ z <= limits.entry
      BY <2>2, <2>3, <2>4
    <2>6. d <= limits.entry /\ d <= limits.total
      <3> HIDE DEF d, z
      <3>1. Reached(i - 1) + z <= Reached(i) /\ Reached(i) <= limits.total
        BY <2>2, Zenon DEF z
      <3>2. Reached(i) \in Nat /\ Reached(i - 1) \in Nat /\ limits.entry \in Nat /\ limits.total \in Nat
        BY <2>1, <2>2, Zenon
      <3> QED
        BY <2>5, <3>1, <3>2
    <2>7. Clear(DebInRange(entries[i]))
      BY OneClear DEF DebInRange
    <2> QED
      BY <2>2, <2>3, <2>6, <2>7
  <1>5. CASE DebVerify
    <2>1. CASE VerifyDone
      BY <2>1, VerifyDoneWithin
    <2>2. CASE at \in DOMAIN entries /\ ~ VerifyDone
      <3> DEFINE result == FirstFailure(WithinOutput(entries[at].size) \o DebInRange(entries[at]))
      <3>1. VerifyEntry(result, entries[at].size)
        BY <1>5, <2>2 DEF DebVerify
      <3>2. op = "verify"
        BY <3>1 DEF VerifyEntry
      <3>3. entries[at].size \in Nat /\ total + entries[at].size <= Reached(at)
            /\ Clear(WithinOutput(entries[at].size))
        BY <1>1, <2>2, <3>2, ChargedEntry
      <3>4. result # "limit"
        BY <1>4, <2>2, <3>3, ClearConcat, ClearResult
      <3> HIDE DEF result
      <3> QED
        BY <3>1, <3>3, <3>4, VerifyEntryWithin
    <2> QED
      BY <1>5, <2>1, <2>2 DEF DebVerify
  <1>6. CASE DebExtractEntries
    <2>1. CASE ExtractDone
      BY <2>1, DoneWithin
    <2>2. CASE at \in DOMAIN entries /\ ~ ExtractDone
      <3> DEFINE result == FirstFailure(WithinOutput(entries[at].size) \o DebInRange(entries[at]))
      <3>1. BeginEntry(result, entries[at].size, DebEntryData(entries[at]))
        BY <1>6, <2>2 DEF DebExtractEntries
      <3>2. op = "extract" /\ sink
        BY <3>1 DEF BeginEntry
      <3>3. entries[at].size \in Nat /\ total + entries[at].size <= Reached(at)
            /\ total + entries[at].size <= limits.total /\ Clear(WithinOutput(entries[at].size))
        BY <1>1, <2>2, <3>2, ChargedEntry
      <3>4. result # "limit"
        BY <1>4, <2>2, <3>3, ClearConcat, ClearResult
      <3> HIDE DEF result
      <3> QED
        BY <1>4, <2>2, <3>1, <3>3, <3>4, BeginWithin
    <2> QED
      BY <1>6, <2>1, <2>2 DEF DebExtractEntries
  <1>7. CASE DebExtractEntry
    <2>1. PICK i \in 1 .. Len(entries) + 1 :
            BeginAlone(i, DebAlone(i), IF i \in DOMAIN entries THEN DebEntryData(entries[i]) ELSE << >>)
      BY <1>7 DEF DebExtractEntry
    <2>2. DebAlone(i) = "ok" => i \in DOMAIN entries /\ i \in 1 .. Len(entries)
      BY EntryAt DEF DebAlone
    <2> QED
      BY <1>1, <1>4, <2>1, <2>2, AloneWithin
  <1>8. CASE DebExtractMember
    <2>1. /\ op = "extract" /\ ~ sink /\ UNCHANGED <<at, total, sink, got>>
          /\ \E r : ExtractReturns(r)
      BY <1>8 DEF DebExtractMember, loopVars
    <2> QED
      BY <2>1, EndsWithin
  <1> QED
    BY <1>5, <1>6, <1>7, <1>8

\* What an ARJ entry decodes to is no longer than the entry.
LEMMA ArjOutputWithin ==
  ASSUME CellsOK(Cells), NEW e, e.start \in Nat, e.end \in Nat, e.size \in Nat,
         ArjVerified(e) = "ok"
  PROVE  IsVector(ArjOutput(e)) /\ Len(ArjOutput(e)) <= e.size
  <1> DEFINE a == << <<~ e.encrypted, "passwordRequired">> >>
             s == ArjDecodeChecks(e)
             b == << <<e.checked => ArjOutput(e) = e.of, "checksum">> >>
  <1>1. FirstFailure((a \o s) \o b) = "ok"
    BY DEF ArjVerified
  <1>2. Checks(a) /\ Checks(b)
    BY OneCheck
  <1>3. /\ Checks(s) /\ Len(s) = 8
        /\ s[2][1] = (e.method \in {"stored", "lzh", "fastest", "noData", "noDataNoCrc"})
        /\ s[3][1] = (e.method = "stored" => Len(ArjData(e)) = e.size)
        /\ s[7][1] = (e.method = "fastest" => ArjFastest(e).good /\ Len(ArjFastest(e).out) = e.size)
    BY DEF ArjDecodeChecks, Checks, IsVector
  <1> HIDE DEF a, b, s
  <1>4. Checks(a \o s)
    BY <1>2, <1>3, ConcatChecks
  <1>5. FirstFailure((a \o s) \o b) = "ok" => \A i \in 1 .. Len(a \o s) : (a \o s)[i][1]
    BY <1>2, <1>4, ConcatChecks, Zenon
  <1>6. FirstFailure(a \o s) = "ok"
    BY <1>1, <1>4, <1>5, HeldRow, Zenon
  <1>7. \A i \in 1 .. Len(s) : s[i][1]
    BY <1>2, <1>3, <1>6, ConcatChecks, Zenon
  <1>8. s[2][1] /\ s[3][1] /\ s[7][1]
    BY <1>3, <1>7
  <1>14. /\ e.method \in {"stored", "lzh", "fastest", "noData", "noDataNoCrc"}
         /\ e.method = "stored" => Len(ArjData(e)) = e.size
         /\ e.method = "fastest" => Len(ArjFastest(e).out) = e.size
    BY <1>3, <1>8, Zenon
  <1>9. IsVector(ArjOutput(e))
    BY ArjContent
  <1>10. CASE e.method = "stored"
    <2>1. ArjOutput(e) = ArjData(e)
      BY <1>10 DEF ArjOutput
    <2>2. Len(ArjOutput(e)) = e.size
      BY <1>10, <1>14, <2>1
    <2> QED
      BY <1>9, <2>2
  <1>11. CASE e.method = "lzh"
    <2>1. IsVector(StreamOutput(ArjData(e)))
      <3>1. CellsOK(ArjData(e))
        BY SliceCells DEF ArjData
      <3> QED
        BY <3>1, StreamRecords DEF RecordsOK
    <2>2. ArjOutput(e) = Slice(StreamOutput(ArjData(e)), 0, e.size)
      BY <1>11 DEF ArjOutput
    <2>3. 0 \in Nat /\ e.size \in Int /\ e.size >= 0
      OBVIOUS
    <2> QED
      BY <1>9, <2>1, <2>2, <2>3, SliceLemma, Zenon
  <1>12. CASE e.method = "fastest"
    <2>1. ArjOutput(e) = ArjFastest(e).out
      BY <1>12 DEF ArjOutput
    <2>2. Len(ArjOutput(e)) = e.size
      BY <1>12, <1>14, <2>1
    <2> QED
      BY <1>9, <2>2
  <1>13. CASE e.method \in {"noData", "noDataNoCrc"}
    BY <1>9, <1>13, NoRecords DEF ArjOutput
  <1> QED
    BY <1>10, <1>11, <1>12, <1>13, <1>14

\* ARJ.
LEMMA ArjLoopsWithin ==
  ASSUME Inv, Inv', Limited, ArjVerify \/ ArjExtractEntries \/ ArjExtractEntry
  PROVE  Limited'
  <1>1. Is("arj") /\ ~ Charged /\ input.format = "arj"
    BY OneFormat DEF ArjVerify, ArjExtractEntries, ArjExtractEntry, Charged, Is
  <1>2. EntriesOK /\ CellsOK(Cells)
    BY <1>1 DEF Inv, ControlOK, FormatOK, ArjOK
  <1>3. ASSUME NEW i \in DOMAIN entries, ArjVerified(entries[i]) = "ok"
        PROVE  /\ IsVector(ArjOutput(entries[i])) /\ Len(ArjOutput(entries[i])) <= entries[i].size
               /\ Len(ArjOutput(entries[i])) <= limits.entry
    <2>1. entries[i].size \in Nat /\ entries[i].size <= limits.entry /\ limits.entry \in Nat
      BY EntryAt
    <2>2. entries[i].start \in Nat /\ entries[i].end \in Nat
      BY <1>2, EntryThere
    <2>3. IsVector(ArjOutput(entries[i])) /\ Len(ArjOutput(entries[i])) <= entries[i].size
      BY <1>2, <1>3, <2>1, <2>2, ArjOutputWithin
    <2>4. Len(ArjOutput(entries[i])) \in Nat
      BY <2>3 DEF IsVector
    <2>5. \A d, z, e \in Nat : d <= z /\ z <= e => d <= e
      OBVIOUS
    <2> QED
      BY <2>1, <2>3, <2>4, <2>5
  <1>4. ASSUME at \in DOMAIN entries, ArjAdmit(entries[at]) = "ok"
        PROVE  /\ ArjVerified(entries[at]) = "ok"
               /\ total + entries[at].size <= limits.total
    <2>1. FirstFailure(WithinOutput(entries[at].size)) = "ok" /\ ArjVerified(entries[at]) = "ok"
      BY <1>4 DEF ArjAdmit
    <2>2. Checks(<< <<TRUE, "x">> >>)
      BY OneCheck
    <2> QED
      BY <2>1, <2>2, OutputHolds
  <1>5. CASE ArjVerify
    <2>1. CASE VerifyDone
      BY <2>1, VerifyDoneWithin
    <2>2. CASE at \in DOMAIN entries
      <3>1. entries[at].size \in Nat
        BY <2>2, EntryAt
      <3> QED
        BY <1>1, <1>5, <2>2, <3>1, VerifyEntryWithin, VerifyDoneWithin DEF ArjVerify
    <2> QED
      BY <1>5, <2>1, <2>2 DEF ArjVerify
  <1>6. CASE ArjExtractEntries
    <2>1. CASE ExtractDone
      BY <2>1, DoneWithin
    <2>2. CASE at \in DOMAIN entries
      <3>1. entries[at].size \in Nat
        BY <2>2, EntryAt
      <3> QED
        BY <1>1, <1>3, <1>4, <1>6, <2>2, <3>1, BeginWithin, DoneWithin DEF ArjExtractEntries
    <2> QED
      BY <1>6, <2>1, <2>2 DEF ArjExtractEntries
  <1>7. CASE ArjExtractEntry
    <2>1. PICK i \in 1 .. Len(entries) + 1 :
            BeginAlone(i, ArjAlone(i), IF i \in DOMAIN entries THEN ArjOutput(entries[i]) ELSE << >>)
      BY <1>7 DEF ArjExtractEntry
    <2>2. ArjAlone(i) = "ok" =>
            i \in DOMAIN entries /\ i \in 1 .. Len(entries) /\ ArjVerified(entries[i]) = "ok"
      BY EntryAt DEF ArjAlone
    <2> QED
      BY <1>1, <1>3, <2>1, <2>2, AloneWithin
  <1> QED
    BY <1>5, <1>6, <1>7
-----------------------------------------------------------------------------
\* Results one behind the other.
LEMMA AndThenOk ==
  ASSUME NEW a, NEW b, AndThen(a, b) = "ok"
  PROVE  a = "ok" /\ b = "ok"
  BY DEF AndThen

\* What a ZIP entry decodes to is as long as the entry.
LEMMA ZipDecodeWithin ==
  ASSUME NEW e, NEW maximum, ZipDecode(e, maximum) = "ok"
  PROVE  Len(ZipOutput(e)) = e.size /\ e.size <= limits.entry /\ e.size <= maximum
  <1> DEFINE a == << <<e.size <= limits.entry, "limit">>,
                     <<e.size <= maximum, "limit">>,
                     <<{"patched", "enhanced"} \cap e.flags = {}, "unsupported">>,
                     <<e.enc # "strong", "unsupported">>,
                     <<e.method \in ZipSupported, "unsupported">> >>
             b == ZipCryptChecks(e)
             c == ZipIntegrity(e, ZipOutput(e))
  <1>1. FirstFailure(a \o b) = "ok" /\ ZipBlame(e, FirstFailure(c)) = "ok"
    BY AndThenOk DEF ZipDecode
  <1>2. FirstFailure(c) = "ok"
    BY <1>1 DEF ZipBlame
  <1>3. Checks(a) /\ Len(a) = 5 /\ a[1][1] = (e.size <= limits.entry) /\ a[2][1] = (e.size <= maximum)
    BY DEF Checks, IsVector
  <1>4. Checks(b)
    <2>1. /\ IsVector(b) /\ Len(b) = 7
          /\ b[1][2] = "passwordRequired" /\ b[2][2] = "format" /\ b[3][2] = "format" /\ b[4][2] = "limit"
          /\ b[5][2] = "wrongPassword" /\ b[6][2] = "wrongPassword" /\ b[7][2] = "wrongPassword"
      BY DEF ZipCryptChecks, IsVector
    <2> HIDE DEF b
    <2> QED
      BY <2>1 DEF Checks
  <1>5. Checks(c) /\ Len(c) = 2 /\ c[1][1] = (Len(ZipOutput(e)) = e.size)
    BY DEF ZipIntegrity, Checks, IsVector
  <1> HIDE DEF a, b, c
  <1>6. a[1][1] /\ a[2][1]
    <2>1. \A i \in 1 .. Len(a) : a[i][1]
      BY <1>1, <1>3, <1>4, ConcatChecks, Zenon
    <2> QED
      BY <1>3, <2>1
  <1>7. c[1][1]
    <2>1. \A i \in 1 .. Len(c) : c[i][1]
      BY <1>2, <1>5, AllHold, Zenon
    <2> QED
      BY <1>5, <2>1
  <1> QED
    BY <1>3, <1>5, <1>6, <1>7, Zenon

\* ZIP.
LEMMA ZipLoopsWithin ==
  ASSUME Inv, Inv', Limited, ZipVerify \/ ZipExtractEntries \/ ZipExtractEntry
  PROVE  Limited'
  <1>1. Is("zip") /\ ~ Charged /\ input.format = "zip"
    BY OneFormat DEF ZipVerify, ZipExtractEntries, ZipExtractEntry, Charged, Is
  <1>2. EntriesOK /\ CellsOK(Cells)
    BY <1>1 DEF Inv, ControlOK, FormatOK, ZipOK
  <1>3. ASSUME NEW i \in DOMAIN entries
        PROVE  IsVector(ZipOutput(entries[i])) /\ entries[i].size \in Nat
    <2>1. entries[i].start \in Nat /\ entries[i].end \in Nat
      BY <1>2, EntryThere
    <2> QED
      BY <1>2, <2>1, ZipContent, EntryAt
  <1>4. ASSUME at \in DOMAIN entries, ZipAdmit(entries[at]) = "ok"
        PROVE  /\ Len(ZipOutput(entries[at])) <= entries[at].size
               /\ Len(ZipOutput(entries[at])) <= limits.entry
               /\ total + entries[at].size <= limits.total
    <2> DEFINE m == Smaller(limits.total - total, limits.entry)
               t == IF total + entries[at].size > limits.total THEN "limit" ELSE "ok"
    <2>1. ZipDecode(entries[at], m) = "ok" /\ t = "ok"
      BY <1>4, AndThenOk DEF ZipAdmit
    <2>2. entries[at].size \in Nat /\ total \in Nat /\ limits.total \in Nat
      BY <1>3, <1>4, EntryAt DEF Limited, ReadWithin
    <2>3. total + entries[at].size <= limits.total
      BY <2>1, <2>2
    <2> HIDE DEF m, t
    <2>4. Len(ZipOutput(entries[at])) = entries[at].size /\ entries[at].size <= limits.entry
      BY <2>1, ZipDecodeWithin
    <2> QED
      BY <2>2, <2>3, <2>4
  <1>5. CASE ZipVerify
    <2>1. CASE VerifyDone
      BY <2>1, VerifyDoneWithin
    <2>2. CASE at \in DOMAIN entries
      BY <1>1, <1>3, <1>5, <2>2, VerifyEntryWithin, VerifyDoneWithin DEF ZipVerify
    <2> QED
      BY <1>5, <2>1, <2>2 DEF ZipVerify
  <1>6. CASE ZipExtractEntries
    <2>1. CASE ExtractDone
      BY <2>1, DoneWithin
    <2>2. CASE at \in DOMAIN entries
      BY <1>1, <1>3, <1>4, <1>6, <2>2, BeginWithin, DoneWithin DEF ZipExtractEntries
    <2> QED
      BY <1>6, <2>1, <2>2 DEF ZipExtractEntries
  <1>7. CASE ZipExtractEntry
    <2>1. PICK i \in 1 .. Len(entries) + 1 :
            BeginAlone(i, ZipAlone(i), IF i \in DOMAIN entries THEN ZipOutput(entries[i]) ELSE << >>)
      BY <1>7 DEF ZipExtractEntry
    <2>2. ZipAlone(i) = "ok" =>
            /\ i \in DOMAIN entries /\ i \in 1 .. Len(entries)
            /\ ZipDecode(entries[i], Smaller(limits.entry, limits.total)) = "ok"
      BY EntryAt DEF ZipAlone
    <2>3. ASSUME ZipAlone(i) = "ok"
          PROVE  Len(ZipOutput(entries[i])) <= limits.entry /\ Len(ZipOutput(entries[i])) <= limits.total
      <3> DEFINE m == Smaller(limits.entry, limits.total)
      <3>1. i \in DOMAIN entries /\ entries[i].size \in Nat /\ limits.entry \in Nat /\ limits.total \in Nat
        BY <1>3, <2>2, <2>3, EntryAt
      <3>2. m <= limits.total
        BY <3>1 DEF Smaller
      <3>3. m \in Nat
        BY <3>1 DEF Smaller
      <3> HIDE DEF m
      <3>4. Len(ZipOutput(entries[i])) = entries[i].size /\ entries[i].size <= limits.entry
            /\ entries[i].size <= m
        BY <2>2, <2>3, ZipDecodeWithin DEF m
      <3> QED
        BY <3>1, <3>2, <3>3, <3>4
    <2> QED
      BY <1>1, <1>3, <2>1, <2>2, <2>3, AloneWithin
  <1> QED
    BY <1>5, <1>6, <1>7
-----------------------------------------------------------------------------
(***************************************************************************)
(* The limits: the parsers                                                  *)
(***************************************************************************)
\* The names of a listing are counted by a number.
LEMMA NamesNumber ==
  ASSUME IsVector(entries), \A i \in 1 .. Len(entries) : EncodedName(entries[i]) \in Nat
  PROVE  NamesTotal \in Nat /\ (entries = << >> => NamesTotal = 0)
  <1> DEFINE f == [i \in DOMAIN entries |-> EncodedName(entries[i])]
  <1>1. DOMAIN entries = 1 .. Len(entries) /\ Len(entries) \in Nat
    BY VectorIsSeq
  <1>2. DOMAIN f = 1 .. Len(entries) /\ \A i \in 1 .. Len(entries) : f[i] \in Nat
    BY <1>1
  <1>3. NamesTotal = SumFunctionOnSet(f, DOMAIN f)
    BY DEF NamesTotal, SumFunction
  <1> HIDE DEF f
  <1>4. IsFiniteSet(1 .. Len(entries)) /\ 1 .. Len(entries) \in SUBSET (1 .. Len(entries))
    BY <1>1, FS_Interval
  <1>5. SumFunctionOnSet(f, 1 .. Len(entries)) \in Nat
    BY <1>2, <1>4, SumNatural
  <1>6. ASSUME entries = << >> PROVE NamesTotal = 0
    <2>1. Len(entries) = 0 /\ 1 .. 0 = {}
      BY <1>6, NoRecords
    <2> QED
      BY <1>2, <1>3, <2>1, SumEmpty
  <1> QED
    BY <1>2, <1>3, <1>5, <1>6

\* A round that lists nothing.
LEMMA ListKeeps ==
  ASSUME ListWithin, UNCHANGED <<input, limits, entries>>,
         acc'.names \in Nat, NamesTotal <= acc'.names
  PROVE  ListWithin'
  <1>1. \A i \in 1 .. Len(entries) : EncodedName(entries[i])' = EncodedName(entries[i])
    BY DEF EncodedName
  <1>2. NamesTotal' = NamesTotal
    BY DEF NamesTotal, EncodedName
  <1> QED
    BY <1>1, <1>2 DEF ListWithin, EntryWithin

\* A round that lists one more entry.
LEMMA ListGrows ==
  ASSUME ListWithin, IsVector(entries), UNCHANGED <<input, limits>>,
         NEW e, entries' = Append(entries, e), EntryWithin(e),
         Len(entries) < limits.files, limits.files \in Nat, limits.names \in Nat,
         acc.names + EncodedName(e) <= limits.names,
         acc'.names = acc.names + EncodedName(e)
  PROVE  ListWithin'
  <1> DEFINE n == Len(entries)
             f == [i \in DOMAIN entries |-> EncodedName(entries[i])]
             g == [i \in DOMAIN entries' |-> EncodedName(entries[i])']
  <1>1. n \in Nat /\ DOMAIN entries = 1 .. n
    BY VectorIsSeq
  <1>2. /\ IsVector(entries') /\ Len(entries') = n + 1
        /\ \A i \in 1 .. n : entries'[i] = entries[i]
        /\ entries'[n + 1] = e
    BY AppendVector
  <1>3. DOMAIN entries' = 1 .. n + 1
    BY <1>2, VectorIsSeq
  <1> HIDE DEF n
  <1>4. \A i \in 1 .. n + 1 : i \in 1 .. n \/ i = n + 1
    BY <1>1
  <1>5. \A d : EncodedName(d)' = EncodedName(d) /\ EntryWithin(d)' = EntryWithin(d)
    BY DEF EncodedName, EntryWithin
  <1>6. \A i \in 1 .. n : EntryWithin(entries[i])
    BY DEF ListWithin, n
  <1>7. \A i \in 1 .. n + 1 : EntryWithin(entries[i])'
    <2>1. ASSUME NEW i \in 1 .. n PROVE EntryWithin(entries[i])'
      BY <1>2, <1>6, <2>1, Zenon DEF EntryWithin, EncodedName
    <2>2. ASSUME NEW i, i = n + 1 PROVE EntryWithin(entries[i])'
      <3>1. entries'[i] = e
        BY <1>2, <2>2
      <3> QED
        BY <3>1 DEF EntryWithin, EncodedName
    <2> QED
      BY <1>4, <2>1, <2>2, Zenon
  <1>8. NamesTotal' = NamesTotal + EncodedName(e) /\ NamesTotal \in Int
    <2>1. NamesTotal = SumFunctionOnSet(f, DOMAIN f) /\ DOMAIN f = 1 .. n
      BY <1>1 DEF NamesTotal, SumFunction
    <2>2. NamesTotal' = SumFunctionOnSet(g, DOMAIN g) /\ DOMAIN g = 1 .. n + 1
      BY <1>3 DEF NamesTotal, SumFunction
    <2>3. \A i \in 1 .. n : f[i] = EncodedName(entries[i])
      BY <1>1
    <2>4. \A i \in 1 .. n : g[i] = EncodedName(entries[i])
      <3>1. ASSUME NEW i \in 1 .. n PROVE g[i] = EncodedName(entries[i])
        <4>1. i \in DOMAIN entries'
          BY <1>1, <1>3
        <4> QED
          BY <1>2, <4>1 DEF EncodedName
      <3> QED
        BY <3>1, Zenon
    <2>5. g[n + 1] = EncodedName(e)
      <3>1. n + 1 \in DOMAIN entries'
        BY <1>1, <1>3
      <3> QED
        BY <1>2, <3>1 DEF EncodedName
    <2> HIDE DEF f, g
    <2>6. \A i \in 1 .. n : g[i] = f[i] /\ g[i] \in Int
      BY <1>6, <2>3, <2>4 DEF EntryWithin
    <2>7. \A i \in 1 .. n + 1 : g[i] \in Int
      BY <1>4, <2>5, <2>6 DEF EntryWithin
    <2>8. SumFunctionOnSet(g, 1 .. n + 1) = SumFunctionOnSet(g, 1 .. n) + g[n + 1]
      BY <1>1, <2>7, SumNext
    <2>9. IsFiniteSet(1 .. n)
      BY <1>1, FS_Interval
    <2>10. SumFunctionOnSet(g, 1 .. n) = SumFunctionOnSet(f, 1 .. n) /\ SumFunctionOnSet(g, 1 .. n) \in Int
      BY <2>6, <2>9, SumCongruence, Zenon
    <2> QED
      BY <2>1, <2>2, <2>5, <2>8, <2>10
  <1>9. EncodedName(e) \in Nat /\ acc.names \in Nat /\ NamesTotal <= acc.names
    BY DEF ListWithin, EntryWithin
  <1>10. NamesTotal' <= limits.names /\ NamesTotal' <= acc'.names /\ acc'.names \in Nat
    <2>1. \A t \in Int, a, m, l \in Nat : t <= a /\ a + m <= l => t + m <= l /\ t + m <= a + m /\ a + m \in Nat
      OBVIOUS
    <2> QED
      BY <1>8, <1>9, <2>1, Zenon
  <1>11. Len(entries') <= limits'.files
    BY <1>1, <1>2 DEF n
  <1> QED
    BY <1>2, <1>7, <1>10, <1>11 DEF ListWithin

\* A parser's round that goes on or ends keeps all limits once it keeps those
\* of the listing and of the parser.
LEMMA RoundStays ==
  ASSUME Inv, Inv', Limited, op = "open",
         ParseGoesOn \/ (\E r : OpenReturns(r)), ListWithin', ParserWithin'
  PROVE  Limited'
  <1>1. /\ UNCHANGED <<input, limits, verified, extracted, loopVars>>
        /\ op' \in {"open", "verify", "done"} /\ (op' = "verify" => opened' = "ok")
    BY DEF ParseGoesOn, OpenReturns
  <1> QED
    BY <1>1, OpeningStep

\* A round that fails.
LEMMA ParseFailsWithin ==
  ASSUME Inv, Inv', Limited, op = "open", \E r : r # "ok" /\ ParseFails(r)
  PROVE  Limited'
  BY FailsWithin DEF ParseFails

\* What passed of a CPIO record is within the limits of the listing.
LEMMA CpioRecordAdmits ==
  ASSUME NEW cells, NEW h, NEW x, NEW count, NEW a,
         FirstFailure(CpioRecordChecks(cells, h, x, count, a)) = "ok", x.name # Trailer
  PROVE  /\ count < limits.files /\ a.names + Len(x.name) <= limits.names
         /\ h.size <= limits.entry
  <1> DEFINE s == CpioRecordChecks(cells, h, x, count, a)
  <1>1. IsVector(s) /\ Len(s) = 14
    BY Fourteen DEF CpioRecordChecks
  <1>2. /\ s[1][2] = "limit" /\ s[2][2] = "format" /\ s[3][2] = "format" /\ s[4][2] = "format"
        /\ s[5][2] = "format" /\ s[6][2] = "format" /\ s[7][2] = "format" /\ s[8][2] = "format"
        /\ s[9][2] = "format" /\ s[10][2] = "limit" /\ s[11][2] = "limit" /\ s[12][2] = "limit"
        /\ s[13][2] = "limit" /\ s[14][2] = "checksum"
    BY DEF CpioRecordChecks
  <1>3. /\ s[10][1] = (x.name # Trailer => count < limits.files)
        /\ s[12][1] = (x.name # Trailer => a.names + Len(x.name) <= limits.names)
        /\ s[13][1] = (x.name # Trailer => h.size <= limits.entry)
    BY DEF CpioRecordChecks
  <1>4. FirstFailure(s) = "ok"
    OBVIOUS
  <1> HIDE DEF s
  <1>5. Checks(s)
    BY <1>1, <1>2, FourteenChecks
  <1>6. \A i \in 1 .. 14 : s[i][1]
    BY <1>1, <1>4, <1>5, AllHold, Zenon
  <1>7. 10 \in 1 .. 14 /\ 12 \in 1 .. 14 /\ 13 \in 1 .. 14
    OBVIOUS
  <1>8. s[10][1] /\ s[12][1] /\ s[13][1]
    BY <1>6, <1>7, Zenon
  <1> QED
    BY <1>3, <1>8, Zenon

\* Its name has a length.
LEMMA CpioNameLength ==
  ASSUME NEW cells, IsVector(cells), NEW o \in Nat, NEW h, h.name \in Nat,
         h.magic \in DOMAIN CpioLayout
  PROVE  Len(CpioExtent(cells, o, h).name) \in Nat
  <1> DEFINE width == CpioLayout[h.magic].width
             s == Slice(cells, o + width, h.name - 1)
             v == [i \in 1 .. Len(s) |-> Value(s[i])]
  <1>1. width \in Nat
    BY DEF CpioLayout, CpioNewc, CpioOdc, CpioBinary
  <1>2. CpioExtent(cells, o, h).name = v
    BY DEF CpioExtent
  <1> HIDE DEF width
  <1>3. o + width \in Nat /\ h.name - 1 \in Int
    BY <1>1
  <1>4. IsVector(s)
    BY <1>3, SliceLemma, Zenon
  <1>5. Len(s) \in Nat
    BY <1>4 DEF IsVector
  <1> HIDE DEF s
  <1>6. v = [i \in 1 .. Len(s) |-> v[i]]
    OBVIOUS
  <1> HIDE DEF v
  <1>7. Len(v) = Len(s)
    BY <1>5, <1>6, FunctionIsVector
  <1> QED
    BY <1>2, <1>5, <1>7

\* A round of the CPIO parser keeps the limits.
LEMMA CpioRoundWithin ==
  ASSUME Inv, Inv', Limited, op = "open", NEW cells, CpioRound(cells), CpioOK(cells), RecordsOK(cells),
         Is("cpio") \/ (Is("rpm") /\ acc.format # "none" /\ "payload" \in DOMAIN acc)
  PROVE  Limited'
  <1> DEFINE h == RecordAt(cells, offset, "cpio", CpioNoHeader)
             x == CpioExtent(cells, offset, h)
             header == FirstFailure(CpioHeaderChecks(cells, offset, h))
             record == IF header # "ok" THEN header
                       ELSE FirstFailure(CpioRecordChecks(cells, h, x, Len(entries), acc))
  <1>1. \/ ParseFails("format")
        \/ /\ record # "ok"
           /\ ParseFails(record)
        \/ /\ record = "ok"
           /\ acc' = [acc EXCEPT !.format = CpioMerge(@, h.magic)]
           /\ UNCHANGED entries
           /\ OpenReturns(IF AllZero(cells, x.end, Len(cells)) THEN "ok" ELSE "format")
        \/ /\ record = "ok"
           /\ x.name # Trailer
           /\ acc' = [acc EXCEPT !.format = CpioMerge(@, h.magic),
                                 !.header = @ + (x.nameEnd - offset),
                                 !.names = @ + Len(x.name)]
           /\ entries' = Append(entries, CpioEntry(h, x))
           /\ ParseGoesOn
    BY DEF CpioRound
  <1>2. h.name \in Nat /\ h.size \in Nat
    BY CpioNumbers
  <1>3. CASE record # "ok"
    BY <1>1, <1>3, ParseFailsWithin
  <1>4. CASE ParseFails("format")
    BY <1>4, ParseFailsWithin
  <1>5. CASE record = "ok" /\ ~ ParseFails("format")
    <2>1. /\ header = "ok"
          /\ FirstFailure(CpioRecordChecks(cells, h, x, Len(entries), acc)) = "ok"
      BY <1>5
    <2>2. h.magic \in DOMAIN CpioLayout
      BY <2>1, CpioHeaderHolds
    <2>3. /\ {"header", "names", "format"} \subseteq DOMAIN acc /\ acc.format \in CpioFormats
          /\ offset \in Nat /\ IsVector(entries)
      BY DEF CpioOK, BehindEachOther, EntriesOK
    <2>4. x.dataEnd = x.start + h.size
      BY <1>2, <2>2, <2>3, CpioExtents
    <2>5. Len(x.name) \in Nat
      BY <1>2, <2>2, <2>3, CpioNameLength DEF RecordsOK
    <2>6. x.name # Trailer =>
            /\ Len(entries) < limits.files /\ acc.names + Len(x.name) <= limits.names
            /\ h.size <= limits.entry
      <3> HIDE DEF x, h
      <3> QED
        BY <2>1, CpioRecordAdmits
    <2>7. ListWithin /\ ParserWithin /\ acc.names \in Nat /\ NamesTotal <= acc.names
      BY DEF Limited, ListWithin
    <2> HIDE DEF x, h, record, header
    <2>8. ASSUME UNCHANGED <<input, limits>>,
                 \/ acc' = [acc EXCEPT !.format = CpioMerge(@, h.magic)]
                 \/ acc' = [acc EXCEPT !.format = CpioMerge(@, h.magic),
                                       !.header = @ + (x.nameEnd - offset),
                                       !.names = @ + Len(x.name)]
          PROVE  ParserWithin'
      <3> DEFINE v == CpioMerge(acc.format, h.magic)
      <3>1. v \in CpioFormats \ {"none", "start"}
        BY <2>2, <2>3, MergedFormat
      <3> HIDE DEF v
      <3>2. acc'.format = v /\ acc'.payload = acc.payload
        <4> DEFINE p == acc.header + (x.nameEnd - offset)
                   q == acc.names + Len(x.name)
        <4>1. \/ acc' = [acc EXCEPT !.format = v]
              \/ acc' = [acc EXCEPT !.format = v, !.header = p, !.names = q]
          BY <2>8 DEF v
        <4> HIDE DEF p, q, v
        <4>2. CASE acc' = [acc EXCEPT !.format = v]
          BY <2>3, <4>2
        <4>3. CASE acc' = [acc EXCEPT !.format = v, !.header = p, !.names = q]
          BY <2>3, <4>3
        <4> QED
          BY <4>1, <4>2, <4>3
      <3>3. acc'.format # "none"
        BY <3>1, <3>2
      <3>4. ~ Is("deb")' /\ ~ Is("arj")'
        BY <2>8 DEF Is
      <3>5. Is("rpm") => Len(acc.payload) <= limits.total
        <4>1. Is("rpm") => acc.format # "none"
          BY DEF Is
        <4> QED
          BY <2>7, <4>1 DEF ParserWithin
      <3> QED
        BY <2>8, <3>2, <3>3, <3>4, <3>5 DEF ParserWithin, Is
    <2>9. CASE /\ acc' = [acc EXCEPT !.format = CpioMerge(@, h.magic)]
               /\ UNCHANGED entries
               /\ OpenReturns(IF AllZero(cells, x.end, Len(cells)) THEN "ok" ELSE "format")
      <3>1. UNCHANGED <<input, limits>> /\ \E r : OpenReturns(r)
        BY <2>9 DEF OpenReturns
      <3>2. acc'.names = acc.names
        BY <2>3, <2>9
      <3>3. ListWithin'
        BY <2>7, <2>9, <3>1, <3>2, ListKeeps
      <3> QED
        BY <2>8, <2>9, <3>1, <3>3, RoundStays
    <2>10. CASE /\ x.name # Trailer
                /\ acc' = [acc EXCEPT !.format = CpioMerge(@, h.magic),
                                      !.header = @ + (x.nameEnd - offset),
                                      !.names = @ + Len(x.name)]
                /\ entries' = Append(entries, CpioEntry(h, x))
                /\ ParseGoesOn
      <3>1. UNCHANGED <<input, limits>>
        BY <2>10 DEF ParseGoesOn
      <3> DEFINE e == CpioEntry(h, x)
      <3>2. e.name = x.name /\ e.size = h.size /\ e.start = x.start /\ e.end = x.dataEnd
        BY DEF CpioEntry
      <3>3. EncodedName(e) = Len(x.name)
        <4>1. input.format # "zip"
          BY DEF Is
        <4> QED
          BY <3>2, <4>1 DEF EncodedName
      <3> HIDE DEF e
      <3>4. EntryWithin(e)
        BY <1>2, <2>4, <2>5, <2>6, <2>10, <3>2, <3>3 DEF EntryWithin
      <3>5. acc'.names = acc.names + Len(x.name)
        <4> DEFINE p == acc.header + (x.nameEnd - offset)
                   q == acc.names + Len(x.name)
                   v == CpioMerge(acc.format, h.magic)
        <4>1. acc' = [acc EXCEPT !.format = v, !.header = p, !.names = q]
          BY <2>10
        <4> HIDE DEF p, q, v
        <4>2. acc'.names = q
          BY <2>3, <4>1
        <4> QED
          BY <4>2 DEF q
      <3>6. entries' = Append(entries, e)
        BY <2>10 DEF e
      <3>7. limits.files \in Nat /\ limits.names \in Nat
        BY DEF Inv, ControlOK, LimitsOK
      <3>8. ListWithin'
        BY <2>3, <2>6, <2>7, <2>10, <3>1, <3>3, <3>4, <3>5, <3>6, <3>7, ListGrows
      <3> QED
        BY <2>8, <2>10, <3>1, <3>8, RoundStays
    <2> QED
      BY <1>1, <1>5, <2>9, <2>10
  <1> QED
    BY <1>3, <1>4, <1>5

\* A round over a CPIO archive.
LEMMA CpioParseWithin ==
  ASSUME Inv, Inv', Limited, CpioParse
  PROVE  Limited'
  <1>1. Is("cpio") /\ op = "open" /\ CpioRound(Cells)
    BY DEF CpioParse
  <1>2. CpioOK(Cells) /\ RecordsOK(Cells)
    BY <1>1, OneFormat, CellsAreRecords DEF Inv, ControlOK
  <1> QED
    BY <1>1, <1>2, CpioRoundWithin

\* A round over the decoded payload of an RPM package.
LEMMA RpmParsePayloadWithin ==
  ASSUME Inv, Inv', Limited, RpmParsePayload
  PROVE  Limited'
  <1>1. Is("rpm") /\ op = "open" /\ acc.format # "none" /\ CpioRound(acc.payload)
    BY DEF RpmParsePayload
  <1>2. CpioOK(acc.payload) /\ RecordsOK(acc.payload) /\ "payload" \in DOMAIN acc
    BY <1>1, OneFormat DEF Inv, RpmOK
  <1> QED
    BY <1>1, <1>2, CpioRoundWithin
-----------------------------------------------------------------------------
\* Nothing is listed yet.
LEMMA NothingListed ==
  ASSUME Limited, entries = << >>, UNCHANGED <<input, limits, entries>>, acc'.names \in Nat
  PROVE  ListWithin'
  <1>1. NamesTotal = 0
    BY NamesNumber, NoRecords
  <1> QED
    BY <1>1, ListKeeps DEF Limited

\* The headers name a container.
LEMMA RpmFeaturesHold ==
  ASSUME NEW s, Checks(s), FirstFailure(s \o RpmFeatures) = "ok"
  PROVE  RpmCompression \in Containers
  <1> DEFINE t == RpmFeatures
  <1>1. Checks(t) /\ Len(t) = 5 /\ t[2][1] = (RpmCompression \in Containers)
    BY DEF RpmFeatures, Checks, IsVector
  <1>2. FirstFailure(s \o t) = "ok"
    OBVIOUS
  <1> HIDE DEF t
  <1>3. \A i \in 1 .. Len(t) : t[i][1]
    BY <1>1, <1>2, ConcatChecks, Zenon
  <1>4. t[2][1]
    BY <1>1, <1>3
  <1> QED
    BY <1>1, <1>4, Zenon

\* The headers of an RPM package are read.
LEMMA RpmHeadersWithin ==
  ASSUME Inv, Inv', Limited, RpmHeaders
  PROVE  Limited'
  <1> DEFINE parsed == RpmParse
             digests == RpmHeaderDigests \o RpmAlgorithm
             result == IF parsed # "ok" THEN parsed ELSE FirstFailure(digests \o RpmFeatures)
  <1>1. Is("rpm") /\ op = "open" /\ acc.format = "none"
        /\ (\/ result # "ok" /\ ParseFails(result)
            \/ result = "ok" /\ UNCHANGED <<acc, entries>> /\ ParseGoesOn)
    BY DEF RpmHeaders
  <1>2. CASE result # "ok"
    BY <1>1, <1>2, ParseFailsWithin
  <1>3. CASE result = "ok"
    <2>1. FirstFailure(digests \o RpmFeatures) = "ok"
      BY <1>3
    <2>2. Checks(RpmHeaderDigest("sha256")) /\ Checks(RpmHeaderDigest("sha1")) /\ Checks(RpmAlgorithm)
      BY TwoChecks, Zenon DEF RpmHeaderDigest, RpmAlgorithm
    <2>3. Checks(RpmHeaderDigests)
      <3> DEFINE a == << <<~ RpmHas(RpmSignature, "sha3"), "unsupported">> >>
      <3>1. Checks(a)
        BY OneCheck
      <3> HIDE DEF a
      <3>2. Checks((a \o RpmHeaderDigest("sha256")) \o RpmHeaderDigest("sha1"))
        BY <2>2, <3>1, ConcatChecks
      <3> QED
        BY <3>2 DEF RpmHeaderDigests, a
    <2>4. Checks(digests)
      BY <2>2, <2>3, ConcatChecks
    <2> HIDE DEF digests
    <2>5. RpmCompression \in Containers
      BY <2>1, <2>4, RpmFeaturesHold
    <2> HIDE DEF result, parsed
    <2>6. UNCHANGED <<input, limits, opened, acc, entries>> /\ ParseGoesOn
      BY <1>1, <1>3 DEF ParseGoesOn
    <2>7. ListWithin'
      BY <2>6, ListKeeps DEF Limited, ListWithin
    <2>8. RpmCompression' = RpmCompression
      BY <2>6 DEF RpmCompression, RpmMain, Cells
    <2>9. ~ Is("deb") /\ ~ Is("arj") /\ opened # "ok"
      BY <1>1, OneFormat DEF Inv, ControlOK
    <2>10. ParserWithin'
      BY <1>1, <2>5, <2>6, <2>8, <2>9 DEF ParserWithin, Is
    <2> QED
      BY <1>1, <2>6, <2>7, <2>10, RoundStays
  <1> QED
    BY <1>2, <1>3

\* The payload is decoded under the limit of the output.
LEMMA RpmPayloadWithin ==
  ASSUME Inv, Inv', Limited, RpmPayload
  PROVE  Limited'
  <1> DEFINE compressed == Slice(Cells, offset, Len(Cells))
             payload == ContainerOutput(RpmCompression, compressed)
             result == RpmDecoded(compressed, payload)
  <1>1. Is("rpm") /\ op = "open" /\ acc.format = "none" /\ offset > 0
        /\ (\/ result # "ok" /\ ParseFails(result)
            \/ /\ result = "ok"
               /\ acc' = [header |-> 0, names |-> 0, format |-> "start", payload |-> payload]
               /\ UNCHANGED entries
               /\ ParseGoesOn)
    BY DEF RpmPayload, RpmPayloadWith
  <1>2. CASE result # "ok"
    BY <1>1, <1>2, ParseFailsWithin
  <1>3. CASE result = "ok"
    <2>1. ContainerResult(RpmCompression, compressed, limits.total) = "ok"
      <3> DEFINE a == FirstFailure(RpmPayloadDigest("payload", compressed))
                 b == ContainerResult(RpmCompression, compressed, limits.total)
                 c == FirstFailure(RpmPayloadDigest("payloadAlt", payload))
      <3>1. result = AndThen(a, AndThen(b, c))
        BY DEF RpmDecoded
      <3> HIDE DEF a, b, c, result
      <3>2. b = "ok"
        BY <1>3, <3>1, AndThenOk
      <3> QED
        BY <3>2 DEF b
    <2>2. CellsOK(compressed) /\ limits.total \in Nat /\ entries = << >>
      <3>1. CellsOK(Cells) /\ Len(Cells) \in Int /\ limits.total \in Nat
        BY DEF Inv, ControlOK, CellsOK, IsVector, LimitsOK
      <3>2. entries = << >> /\ offset \in Nat
        BY <1>1, OneFormat DEF Inv, RpmOK
      <3> QED
        BY <3>1, <3>2, SliceCells
    <2>3. RpmCompression \in Containers
      BY <1>1 DEF Limited, ParserWithin
    <2> HIDE DEF compressed
    <2>4. Len(payload) <= limits.total
      BY <2>1, <2>2, <2>3, ContainerWithin
    <2> HIDE DEF payload, result
    <2>5. /\ UNCHANGED <<input, limits, opened, entries>> /\ ParseGoesOn
          /\ acc'.format = "start" /\ acc'.payload = payload /\ acc'.names = 0
      BY <1>1, <1>3 DEF ParseGoesOn
    <2>6. ListWithin'
      BY <2>2, <2>5, NothingListed
    <2>7. ~ Is("deb") /\ ~ Is("arj")
      BY <1>1, OneFormat
    <2>8. ParserWithin'
      BY <1>1, <2>4, <2>5, <2>7 DEF ParserWithin, Is
    <2> QED
      BY <1>1, <2>5, <2>6, <2>8, RoundStays
  <1> QED
    BY <1>2, <1>3

\* The main header of an ARJ archive counts for its own name.
LEMMA ArjFindMainWithin ==
  ASSUME Inv, Inv', Limited, ArjFindMain
  PROVE  Limited'
  <1> DEFINE p == Min({q \in ArjCandidates : ArjStops(q)})
             m == Cells[p + 1]
             result == IF ArjScan = "ok" THEN FirstFailure(ArjMainChecks(m)) ELSE ArjScan
  <1>1. Is("arj") /\ op = "open" /\ acc.format = "none" /\ CellsOK(Cells)
        /\ LimitsOK(limits) /\ ~ Is("rpm") /\ ~ Is("deb")
    BY OneFormat DEF ArjFindMain, Inv, ControlOK
  <1>2. entries = << >>
    BY <1>1, OneFormat DEF Inv, ArjOK
  <1>3. \/ result # "ok" /\ ParseFails(result)
        \/ /\ result = "ok"
           /\ acc' = [format |-> "main", header |-> m.size + ArjFraming, properties |-> 0,
                      names |-> Len(m.name), h |-> m]
           /\ UNCHANGED entries /\ ParseGoesOn
    BY DEF ArjFindMain
  <1>4. result = "ok" => IsVector(m.name)
    <2>1. result = "ok" => ArjScan = "ok"
      OBVIOUS
    <2> QED
      BY <1>1, <2>1, ArjMainThere
  <1> HIDE DEF p, m, result
  <1>5. CASE result # "ok" /\ ParseFails(result)
    BY <1>1, <1>5, ParseFailsWithin
  <1>6. CASE /\ result = "ok"
             /\ acc' = [format |-> "main", header |-> m.size + ArjFraming, properties |-> 0,
                        names |-> Len(m.name), h |-> m]
             /\ UNCHANGED entries /\ ParseGoesOn
    <2>1. acc'.h = m /\ acc'.names = Len(m.name) /\ UNCHANGED <<input, limits, entries>>
      BY <1>6 DEF ParseGoesOn
    <2>2. acc'.names \in Nat /\ IsVector(acc'.h.name)
      BY <1>4, <1>6, <2>1 DEF IsVector
    <2>3. ListWithin'
      BY <1>2, <2>1, <2>2, NothingListed
    <2>4. ParserWithin'
      BY <1>1, <2>1, <2>2 DEF ParserWithin, Is
    <2> QED
      BY <1>1, <1>6, <2>3, <2>4, RoundStays
  <1> QED
    BY <1>3, <1>5, <1>6

\* A member that passed is within the limits of the listing.
LEMMA ArjMemberAdmits ==
  ASSUME NEW h, NEW start, FirstFailure(ArjMemberChecks(h, start)) = "ok"
  PROVE  /\ Len(entries) < limits.files /\ acc.names + Len(h.name) <= limits.names
         /\ h.usize <= limits.entry
  <1> DEFINE s == ArjMemberChecks(h, start)
  <1>1. Checks(s) /\ Len(s) = 4
    BY DEF ArjMemberChecks, Checks, IsVector
  <1>2. s[2][1] /\ s[3][1] /\ s[4][1]
    BY <1>1, AllHold
  <1> QED
    BY <1>2, Zenon DEF ArjMemberChecks

\* A header more was read: nothing is listed.
LEMMA ArjHeaderWithin ==
  ASSUME Inv, Inv', Limited, Is("arj"), op = "open",
         acc'.names = acc.names, IsVector(acc'.h.name), UNCHANGED entries, ParseGoesOn
  PROVE  Limited'
  <1>1. UNCHANGED <<input, limits>> /\ ~ Is("rpm") /\ ~ Is("deb")
    BY OneFormat DEF ParseGoesOn
  <1>2. ListWithin'
    BY <1>1, ListKeeps DEF Limited, ListWithin
  <1>3. ParserWithin'
    BY <1>1 DEF ParserWithin, Is
  <1> QED
    BY <1>2, <1>3, RoundStays

\* The extended headers of an ARJ header are read.
LEMMA ArjExtensionsWithin ==
  ASSUME Inv, Inv', Limited, ArjExtensions
  PROVE  Limited'
  <1> DEFINE x == RecordAt(Cells, offset, "arjext", ArjNoExtended)
             end == FirstFailure(IF acc.format = "main" THEN ArjVolumeChecks(acc.h)
                                 ELSE ArjMemberChecks(acc.h, offset + 1))
             own == FirstFailure(ArjExtendedChecks(x))
             result == IF own # "ok" \/ x.size # 0 THEN own ELSE end
  <1>1. Is("arj") /\ op = "open" /\ acc.format \in {"main", "member"}
        /\ ~ Is("rpm") /\ ~ Is("deb") /\ ~ Is("cpio") /\ ~ Is("zip")
    BY OneFormat DEF ArjExtensions
  <1>2. /\ {"format", "header", "properties", "names", "h"} \subseteq DOMAIN acc
        /\ acc.h.usize \in Nat /\ IsVector(acc.h.name) /\ IsVector(entries)
    BY <1>1, OneFormat, EntriesVector DEF Inv, ArjOK, Limited, ParserWithin
  <1>3. \/ result # "ok" /\ ParseFails(result)
        \/ /\ acc' = [acc EXCEPT !.header = @ + ArjFraming + x.size, !.properties = @ + 1]
           /\ UNCHANGED entries /\ ParseGoesOn
        \/ /\ acc' = [acc EXCEPT !.header = @ + 1, !.format = "headers"]
           /\ UNCHANGED entries /\ ParseGoesOn
        \/ /\ result = "ok" /\ x.size = 0 /\ acc.format = "member"
           /\ acc' = [acc EXCEPT !.header = @ + 1, !.format = "headers",
                                 !.names = @ + Len(acc.h.name)]
           /\ entries' = Append(entries, ArjEntry(acc.h, offset + 1))
           /\ ParseGoesOn
    BY DEF ArjExtensions
  <1>4. result = "ok" /\ x.size = 0 /\ acc.format = "member"
        => /\ Len(entries) < limits.files /\ acc.names + Len(acc.h.name) <= limits.names
           /\ acc.h.usize <= limits.entry
    BY ArjMemberAdmits
  <1> HIDE DEF x, end, own, result
  <1>5. CASE result # "ok" /\ ParseFails(result)
    BY <1>1, <1>5, ParseFailsWithin
  <1>6. CASE /\ acc' = [acc EXCEPT !.header = @ + ArjFraming + x.size, !.properties = @ + 1]
             /\ UNCHANGED entries /\ ParseGoesOn
    <2>1. acc'.names = acc.names /\ acc'.h = acc.h
      BY <1>2, <1>6
    <2> QED
      BY <1>1, <1>2, <1>6, <2>1, ArjHeaderWithin
  <1>7. CASE /\ acc' = [acc EXCEPT !.header = @ + 1, !.format = "headers"]
             /\ UNCHANGED entries /\ ParseGoesOn
    <2>1. acc'.names = acc.names /\ acc'.h = acc.h
      BY <1>2, <1>7
    <2> QED
      BY <1>1, <1>2, <1>7, <2>1, ArjHeaderWithin
  <1>8. CASE /\ result = "ok" /\ x.size = 0 /\ acc.format = "member"
             /\ acc' = [acc EXCEPT !.header = @ + 1, !.format = "headers",
                                   !.names = @ + Len(acc.h.name)]
             /\ entries' = Append(entries, ArjEntry(acc.h, offset + 1))
             /\ ParseGoesOn
    <2> DEFINE e == ArjEntry(acc.h, offset + 1)
               m == Len(acc.h.name)
               w == acc.names + m
               g == acc.header + 1
    <2>1. e.name = acc.h.name /\ e.size = acc.h.usize
      BY DEF ArjEntry
    <2>2. entries' = Append(entries, e)
      BY <1>8
    <2>3. acc' = [acc EXCEPT !.header = g, !.format = "headers", !.names = w]
      BY <1>8
    <2>4. m \in Nat
      BY <1>2 DEF IsVector
    <2>5. EncodedName(e) = m
      BY <1>1, <2>1 DEF EncodedName, Is
    <2> HIDE DEF e, w, g
    <2>6. acc'.names = w /\ acc'.h = acc.h
      BY <1>2, <2>3
    <2>7. UNCHANGED <<input, limits>> /\ limits.files \in Nat /\ limits.names \in Nat
      BY <1>8 DEF ParseGoesOn, Inv, ControlOK, LimitsOK
    <2>8. Len(entries) < limits.files /\ acc.names + m <= limits.names
          /\ acc.h.usize <= limits.entry
      BY <1>4, <1>8
    <2>9. EntryWithin(e)
      BY <1>1, <1>2, <2>1, <2>4, <2>5, <2>8 DEF EntryWithin, Is
    <2>10. acc'.names = acc.names + EncodedName(e)
           /\ acc.names + EncodedName(e) <= limits.names
      BY <2>5, <2>6, <2>8 DEF w
    <2> HIDE DEF m
    <2>11. ListWithin'
      BY <1>2, <2>2, <2>7, <2>8, <2>9, <2>10, ListGrows DEF Limited
    <2>12. ParserWithin'
      BY <1>1, <1>2, <2>6, <2>7 DEF ParserWithin, Is
    <2> QED
      BY <1>1, <1>8, <2>11, <2>12, RoundStays
  <1> QED
    BY <1>3, <1>5, <1>6, <1>7, <1>8

\* A local header, or the end of an ARJ archive.
LEMMA ArjLocalWithin ==
  ASSUME Inv, Inv', Limited, ArjLocal
  PROVE  Limited'
  <1> DEFINE h == RecordAt(Cells, offset, "arj", ArjNone)
             result == FirstFailure(ArjLocalChecks(h))
  <1>1. Is("arj") /\ op = "open" /\ acc.format = "headers" /\ CellsOK(Cells)
        /\ ~ Is("rpm") /\ ~ Is("deb")
    BY OneFormat DEF ArjLocal, Inv, ControlOK
  <1>2. {"format", "header", "properties", "names", "h"} \subseteq DOMAIN acc
    BY <1>1, OneFormat DEF Inv, ArjOK
  <1>3. \/ OpenReturns("ok") /\ UNCHANGED parseVars
        \/ result # "ok" /\ ParseFails(result)
        \/ /\ result = "ok"
           /\ acc' = [acc EXCEPT !.format = "member", !.header = @ + h.size + ArjFraming, !.h = h]
           /\ UNCHANGED entries /\ ParseGoesOn
    BY DEF ArjLocal
  <1>4. CASE OpenReturns("ok") /\ UNCHANGED parseVars
    <2>1. UNCHANGED <<input, limits, acc, entries>> /\ op' # "open"
      BY <1>4 DEF OpenReturns, parseVars
    <2>2. ListWithin' /\ ParserWithin'
      BY <1>1, <2>1, ListStays DEF Limited
    <2> QED
      BY <1>1, <1>4, <2>2, RoundStays
  <1>5. CASE result # "ok" /\ ParseFails(result)
    BY <1>1, <1>5, ParseFailsWithin
  <1>6. CASE /\ result = "ok"
             /\ acc' = [acc EXCEPT !.format = "member", !.header = @ + h.size + ArjFraming, !.h = h]
             /\ UNCHANGED entries /\ ParseGoesOn
    <2>1. h.k = "arj"
      BY <1>6, ArjLocalHolds
    <2>2. ArjNone.k = "none"
      BY DEF ArjNone, ArjMain, ArjHeader
    <2>3. RecordOK(h)
      BY <1>1, <2>1, <2>2, RecordFound DEF CellOK
    <2> HIDE DEF h, result
    <2>4. IsVector(h.name)
      BY <2>1, <2>3 DEF RecordOK
    <2>5. acc'.names = acc.names /\ acc'.h = h
      <3> DEFINE g == acc.header + h.size + ArjFraming
      <3>1. acc' = [acc EXCEPT !.format = "member", !.header = g, !.h = h]
        BY <1>6
      <3> HIDE DEF g
      <3> QED
        BY <1>2, <3>1
    <2> QED
      BY <1>1, <1>6, <2>4, <2>5, ArjHeaderWithin
  <1> QED
    BY <1>3, <1>4, <1>5, <1>6

\* While a package is opened nothing has returned yet.
LEMMA NotOpenedYet ==
  ASSUME Inv, op = "open"
  PROVE  opened # "ok"
  BY DEF Inv, ControlOK

\* The ar archive begins.
LEMMA DebStartWithin ==
  ASSUME Inv, Inv', Limited, DebStart
  PROVE  Limited'
  <1>1. Is("deb") /\ op = "open" /\ acc.format = "none" /\ ~ Is("rpm") /\ ~ Is("arj")
    BY OneFormat DEF DebStart
  <1>2. entries = << >> /\ opened # "ok"
    BY <1>1, OneFormat, NotOpenedYet DEF Inv, DebOK
  <1>3. CASE ParseFails("limit") \/ ParseFails("format")
    BY <1>1, <1>3, ParseFailsWithin
  <1>4. CASE /\ acc' = [header |-> 0, names |-> 0, format |-> "ar", members |-> << >>]
             /\ UNCHANGED entries /\ ParseGoesOn
    <2>1. acc'.format = "ar" /\ acc'.names = 0 /\ UNCHANGED <<input, limits, opened, entries>>
      BY <1>4 DEF ParseGoesOn
    <2>2. ListWithin'
      BY <1>2, <2>1, NothingListed
    <2>3. entries' = << >> /\ Len(<< >>) = 0
      BY <1>2, <2>1
    <2>4. ParserWithin'
      BY <1>1, <1>2, <2>1, <2>3 DEF ParserWithin, Is
    <2> QED
      BY <1>1, <1>4, <2>2, <2>4, RoundStays
  <1> QED
    BY <1>3, <1>4 DEF DebStart

\* An ar member is noted.
LEMMA DebArMemberWithin ==
  ASSUME Inv, Inv', Limited, DebArMember
  PROVE  Limited'
  <1> DEFINE h == RecordAt(Cells, offset, "ar", ArNone)
             result == FirstFailure(ArChecks(h))
             m == DebMember(h)
  <1>1. Is("deb") /\ op = "open" /\ acc.format = "ar" /\ CellsOK(Cells)
        /\ ~ Is("rpm") /\ ~ Is("arj")
    BY OneFormat DEF DebArMember, Inv, ControlOK
  <1>2. /\ entries = << >> /\ opened # "ok"
        /\ {"header", "names", "format", "members"} \subseteq DOMAIN acc
    BY <1>1, OneFormat, NotOpenedYet DEF Inv, DebOK
  <1>3. \/ result # "ok" /\ ParseFails(result)
        \/ /\ acc' = [acc EXCEPT !.header = @ + 1, !.names = @ + h.length,
                                 !.members = Append(@, m)]
           /\ UNCHANGED entries /\ ParseGoesOn
    BY DEF DebArMember
  <1>4. h.length \in Nat
    <2>1. h = ArNone \/ (CellOK(h) /\ h.k = "ar")
      BY <1>1, RecordFound
    <2>2. ArNone.length = 1
      BY DEF ArNone, ArHeader
    <2> HIDE DEF h
    <2>3. CellOK(h) /\ h.k = "ar" => h.length \in Nat
      BY DEF CellOK, RecordOK, Unsigned
    <2> QED
      BY <2>1, <2>2, <2>3
  <1> HIDE DEF h, m, result
  <1>5. CASE result # "ok" /\ ParseFails(result)
    BY <1>1, <1>5, ParseFailsWithin
  <1>6. CASE /\ acc' = [acc EXCEPT !.header = @ + 1, !.names = @ + h.length,
                                   !.members = Append(@, m)]
             /\ UNCHANGED entries /\ ParseGoesOn
    <2> DEFINE p == acc.header + 1
               q == acc.names + h.length
               v == Append(acc.members, m)
    <2>1. acc' = [acc EXCEPT !.header = p, !.names = q, !.members = v]
      BY <1>6
    <2>2. q \in Nat
      BY <1>4 DEF Limited, ListWithin
    <2> HIDE DEF p, q, v
    <2>3. acc'.format = "ar" /\ acc'.names = q
      BY <1>1, <1>2, <2>1
    <2>4. UNCHANGED <<input, limits, opened, entries>>
      BY <1>6 DEF ParseGoesOn
    <2>5. ListWithin'
      BY <1>2, <2>2, <2>3, <2>4, NothingListed
    <2>6. entries' = << >> /\ Len(<< >>) = 0
      BY <1>2, <2>4
    <2>7. ParserWithin'
      BY <1>1, <1>2, <2>3, <2>4, <2>6 DEF ParserWithin, Is
    <2> QED
      BY <1>1, <1>6, <2>5, <2>7, RoundStays
  <1> QED
    BY <1>3, <1>5, <1>6

\* The members of a package that passed are of a codec that is known.
LEMMA DebMembersKnown ==
  ASSUME IsVector(acc.members), FirstFailure(DebMemberChecks) = "ok"
  PROVE  \A i \in 1 .. Len(acc.members) : DebKnown(acc.members[i])
  <1> DEFINE s == DebMemberChecks
             r == [i \in DOMAIN acc.members |-> DebMemberResult(i)]
             n == Len(acc.members)
  <1>1. IsVector(s) /\ Len(s) = 7
    BY DEF DebMemberChecks, IsVector
  <1>2. s[1][2] = "format" /\ s[2][2] = "format" /\ s[3][2] = "unsupported"
        /\ s[5][2] = "limit" /\ s[6][2] = "format" /\ s[7][2] = "format"
    BY DEF DebMemberChecks
  <1>3. s[4][1] \/ s[4][2] # "ok"
    BY Zenon DEF DebMemberChecks
  <1>4. s[4][1] = (FirstOf(r) = "ok")
    BY DEF DebMemberChecks
  <1>5. FirstFailure(s) = "ok"
    OBVIOUS
  <1>6. n \in Nat /\ DOMAIN acc.members = 1 .. n
    BY VectorIsSeq
  <1>7. r = [i \in 1 .. n |-> r[i]] /\ \A i \in 1 .. n : r[i] = DebMemberResult(i)
    BY <1>6
  <1> HIDE DEF s, r
  <1>8. \A i \in 1 .. 7 : i \in {1, 2, 3, 4, 5, 6, 7}
    OBVIOUS
  <1>9. Checks(s)
    BY <1>1, <1>2, <1>3, <1>8 DEF Checks
  <1>10. \A i \in 1 .. 7 : s[i][1]
    BY <1>1, <1>5, <1>9, AllHold, Zenon
  <1>11. s[4][1]
    <2>1. 4 \in 1 .. 7
      OBVIOUS
    <2> QED
      BY <1>10, <2>1, Zenon
  <1>12. \A i \in 1 .. n : r[i] = "ok"
    BY <1>4, <1>6, <1>7, <1>11, FirstOfHolds, Zenon
  <1>13. ASSUME NEW i \in 1 .. n PROVE DebKnown(acc.members[i])
    <2> DEFINE t == << <<DebKnown(acc.members[i]), "unsupported">>, <<DebOrderly(i), "format">> >>
    <2>1. FirstFailure(t) = "ok"
      BY <1>7, <1>12, Zenon DEF DebMemberResult
    <2>2. Checks(t)
      BY TwoChecks, Zenon
    <2>3. Len(t) = 2 /\ t[1][1] = DebKnown(acc.members[i]) /\ 1 \in 1 .. 2
      OBVIOUS
    <2> HIDE DEF t
    <2>4. t[1][1]
      BY <2>1, <2>2, <2>3, AllHold
    <2> QED
      BY <2>3, <2>4, Zenon
  <1> QED
    BY <1>13

\* The codec of the control and of the data member is one of the containers.
LEMMA DebArchiveCodec ==
  ASSUME IsVector(acc.members), NEW name \in {"control", "data"},
         \A i \in 1 .. Len(acc.members) : DebKnown(acc.members[i]),
         DebSeen(Len(acc.members) + 1, name)
  PROVE  DebArchive(name).codec \in Containers
  <1> DEFINE S == {i \in DOMAIN acc.members : acc.members[i].name = name}
             m == DebArchive(name)
  <1>1. Len(acc.members) \in Nat /\ DOMAIN acc.members = 1 .. Len(acc.members)
    BY VectorIsSeq
  <1>2. (Len(acc.members) + 1) - 1 = Len(acc.members)
    BY <1>1
  <1>3. S # {} /\ S \in SUBSET (1 .. Len(acc.members))
        /\ \A i \in S : acc.members[i].name = name
    BY <1>1, <1>2 DEF DebSeen
  <1>4. m = acc.members[Max(S)]
    BY DEF DebArchive
  <1> HIDE DEF S, m
  <1>5. Max(S) \in S
    BY <1>1, <1>3, LastOf, Zenon
  <1>6. DebKnown(m) /\ m.name = name
    BY <1>3, <1>4, <1>5
  <1>7. m.codec \in Containers
    BY <1>6 DEF DebKnown, DebControlCodecs, Containers
  <1> QED
    BY <1>7 DEF m

\* Both tars are decoded under one limit.
LEMMA DebMembersWithin ==
  ASSUME Inv, Inv', Limited, DebMembers
  PROVE  Limited'
  <1> DEFINE result == FirstFailure(DebMemberChecks)
             c == DebArchive("control")
             d == DebArchive("data")
             control == ContainerOutput(c.codec, DebData(c))
             data == ContainerOutput(d.codec, DebData(d))
             first == ContainerResult(c.codec, DebData(c), limits.total)
             second == ContainerResult(d.codec, DebData(d), DebRemaining(control))
  <1>1. Is("deb") /\ op = "open" /\ acc.format = "ar" /\ CellsOK(Cells)
        /\ ~ Is("rpm") /\ ~ Is("arj") /\ limits.total \in Nat
    BY OneFormat DEF DebMembers, Inv, ControlOK, LimitsOK
  <1>2. /\ entries = << >> /\ opened # "ok"
        /\ IsVector(acc.members) /\ \A i \in 1 .. Len(acc.members) : MemberOK(acc.members[i])
    BY <1>1, OneFormat, NotOpenedYet DEF Inv, DebOK
  <1>3. \/ \E r : r # "ok" /\ ParseFails(r)
        \/ /\ result = "ok" /\ AndThen(first, second) = "ok"
           /\ acc' = [header |-> Len(acc.members) + 1, names |-> acc.names,
                      format |-> "control", members |-> acc.members, properties |-> 0,
                      control |-> control, data |-> data,
                      global |-> PaxNone, local |-> << >>, longName |-> NoName,
                      longLink |-> NoName]
           /\ UNCHANGED entries /\ ParseGoesOn
    BY DEF DebMembers, DebDecode, DebDecodeWith
  <1>4. ASSUME result = "ok", AndThen(first, second) = "ok"
        PROVE  /\ Len(control) \in Nat /\ Len(data) \in Nat
               /\ Len(control) + Len(data) <= limits.total
    <2>1. DebSeen(Len(acc.members) + 1, "control") /\ DebSeen(Len(acc.members) + 1, "data")
      BY <1>2, <1>4, DebMembersHold
    <2>2. \A i \in 1 .. Len(acc.members) : DebKnown(acc.members[i])
      BY <1>2, <1>4, DebMembersKnown
    <2>3. c.codec \in Containers /\ d.codec \in Containers
      BY <1>2, <2>1, <2>2, DebArchiveCodec
    <2>4. CellsOK(DebData(c)) /\ CellsOK(DebData(d))
      BY <1>1, <1>2, <2>1, DebArchiveThere
    <2>5. first = "ok" /\ second = "ok"
      BY <1>4, AndThenOk
    <2> HIDE DEF c, d
    <2>6. RecordsOK(control) /\ RecordsOK(data)
      BY <2>4, ContainerRecords
    <2>7. Len(control) \in Nat /\ Len(data) \in Nat
      BY <2>6 DEF RecordsOK, IsVector
    <2>8. Len(control) <= limits.total
      BY <1>1, <2>3, <2>4, <2>5, ContainerWithin
    <2>9. DebRemaining(control) = limits.total - Len(control)
      BY DEF DebRemaining
    <2>10. \A a, b \in Nat : a <= b => b - a \in Nat
      OBVIOUS
    <2>11. DebRemaining(control) \in Nat
      BY <1>1, <2>7, <2>8, <2>9, <2>10
    <2>12. Len(data) <= DebRemaining(control)
      BY <2>3, <2>4, <2>5, <2>11, ContainerWithin
    <2> HIDE DEF control, data
    <2>13. \A a, b, l \in Nat : b <= l - a => a + b <= l
      OBVIOUS
    <2>14. Len(control) + Len(data) <= limits.total
      BY <1>1, <2>7, <2>9, <2>12, <2>13
    <2> QED
      BY <2>7, <2>14
  <1> HIDE DEF control, data, result, first, second
  <1>5. CASE \E r : r # "ok" /\ ParseFails(r)
    BY <1>1, <1>5, ParseFailsWithin
  <1>6. CASE /\ result = "ok" /\ AndThen(first, second) = "ok"
             /\ acc' = [header |-> Len(acc.members) + 1, names |-> acc.names,
                        format |-> "control", members |-> acc.members, properties |-> 0,
                        control |-> control, data |-> data,
                        global |-> PaxNone, local |-> << >>, longName |-> NoName,
                        longLink |-> NoName]
             /\ UNCHANGED entries /\ ParseGoesOn
    <2>1. /\ acc'.format = "control" /\ acc'.control = control /\ acc'.data = data
          /\ acc'.global = PaxNone /\ acc'.local = << >> /\ acc'.longName = NoName
          /\ acc'.names = acc.names /\ acc'.members = acc.members
      BY <1>6
    <2>2. UNCHANGED <<input, limits, opened, entries>>
      BY <1>6 DEF ParseGoesOn
    <2>3. acc.names \in Nat
      BY DEF Limited, ListWithin
    <2>4. ListWithin'
      BY <1>2, <2>1, <2>2, <2>3, NothingListed
    <2>5. IsVector(NoName) /\ PaxNone.path = NoName
      BY DEF NoName, PaxNone, IsVector
    <2>6. Len(acc.members) \in Nat
      BY <1>2 DEF IsVector
    <2>7. DebParserWithin'
      BY <1>4, <1>6, <2>1, <2>2, <2>5, <2>6 DEF DebParserWithin
    <2>8. entries' = << >> /\ Len(<< >>) = 0
      BY <1>2, <2>2
    <2>9. ParserWithin'
      BY <1>1, <1>2, <2>1, <2>2, <2>7, <2>8 DEF ParserWithin, Is
    <2> QED
      BY <1>1, <1>6, <2>4, <2>9, RoundStays
  <1> QED
    BY <1>3, <1>5, <1>6

\* A block more of a tar was read: nothing is listed.
LEMMA TarBlockWithin ==
  ASSUME Inv, Inv', Limited, Is("deb"), op = "open", acc.format \in {"control", "data"},
         ParseGoesOn, UNCHANGED entries, acc'.names = acc.names,
         acc'.format \in {"control", "data"},
         acc'.control = acc.control, acc'.data = acc.data, acc'.members = acc.members,
         IsVector(acc'.longName), IsVector(acc'.global.path),
         acc'.local = << >> \/ IsVector(acc'.local[1].path)
  PROVE  Limited'
  <1>1. UNCHANGED <<input, limits, opened, entries>> /\ opened # "ok"
        /\ ~ Is("rpm") /\ ~ Is("arj")
    BY OneFormat, NotOpenedYet DEF ParseGoesOn
  <1>2. ListWithin'
    BY <1>1, ListKeeps DEF Limited, ListWithin
  <1>3. DebParserWithin'
    BY <1>1, Zenon DEF Limited, ParserWithin, DebParserWithin
  <1>4. ParserWithin'
    BY <1>1, <1>3 DEF Limited, ParserWithin, Is
  <1> QED
    BY <1>2, <1>4, RoundStays

\* A section ends.
LEMMA TarEndWithin ==
  ASSUME Inv, Inv', Limited, Is("deb"), op = "open", acc.format \in {"control", "data"}, TarEnd
  PROVE  Limited'
  <1>1. DebParserOK /\ DebParserWithin
    BY OneFormat DEF Inv, DebOK, Limited, ParserWithin
  <1>2. \/ \E r : r # "ok" /\ ParseFails(r)
        \/ OpenReturns("ok") /\ acc.format = "data" /\ UNCHANGED parseVars
        \/ /\ acc.format = "control"
           /\ acc' = [acc EXCEPT !.header = @ + 2 * TarBlock, !.format = "data",
                                 !.global = PaxNone]
           /\ UNCHANGED entries /\ ParseGoesOn
    BY DEF TarEnd
  <1>3. CASE \E r : r # "ok" /\ ParseFails(r)
    BY <1>3, ParseFailsWithin
  <1>4. CASE OpenReturns("ok") /\ acc.format = "data" /\ UNCHANGED parseVars
    <2>1. UNCHANGED <<input, limits, acc, entries>> /\ op' # "open" /\ ~ Is("rpm")
      BY <1>4, OneFormat DEF OpenReturns, parseVars
    <2>2. ListWithin' /\ ParserWithin'
      BY <1>4, <2>1, ListStays DEF Limited
    <2> QED
      BY <1>4, <2>2, RoundStays
  <1>5. CASE /\ acc.format = "control"
             /\ acc' = [acc EXCEPT !.header = @ + 2 * TarBlock, !.format = "data",
                                   !.global = PaxNone]
             /\ UNCHANGED entries /\ ParseGoesOn
    <2> DEFINE p == acc.header + 2 * TarBlock
    <2>1. acc' = [acc EXCEPT !.header = p, !.format = "data", !.global = PaxNone]
      BY <1>5
    <2> HIDE DEF p
    <2>2. {"header", "names", "format", "members", "properties", "control", "data", "global",
           "local", "longName", "longLink"} \subseteq DOMAIN acc
      BY <1>1 DEF DebParserOK
    <2>3. /\ acc'.format = "data" /\ acc'.global = PaxNone /\ acc'.names = acc.names
          /\ acc'.control = acc.control /\ acc'.data = acc.data /\ acc'.members = acc.members
          /\ acc'.local = acc.local /\ acc'.longName = acc.longName
      BY <2>1, <2>2
    <2>4. IsVector(NoName) /\ PaxNone.path = NoName
      BY DEF NoName, PaxNone, IsVector
    <2> QED
      BY <1>1, <1>5, <2>3, <2>4, TarBlockWithin DEF DebParserWithin
  <1> QED
    BY <1>2, <1>3, <1>4, <1>5

\* The path a pax record gives is a name.
LEMMA PaxPath ==
  ASSUME NEW cells, RecordsOK(cells), NEW base, IsVector(base.path)
  PROVE  IsVector(PaxValues(cells, base).path)
  <1> DEFINE places == {i \in DOMAIN cells : cells[i].k = "pax" /\ cells[i].key = "path"}
             v == PaxLast(cells, "path", base.path)
  <1>1. PaxValues(cells, base).path = v
    BY DEF PaxValues
  <1>2. v = IF places = {} THEN base.path ELSE cells[Max(places)].v
    BY DEF PaxLast
  <1>3. Len(cells) \in Nat /\ DOMAIN cells = 1 .. Len(cells)
    BY VectorIsSeq DEF RecordsOK
  <1>4. CASE places = {}
    BY <1>1, <1>2, <1>4
  <1>5. CASE places # {}
    <2>1. places \in SUBSET (1 .. Len(cells))
      BY <1>3
    <2>2. \A i \in places : cells[i].k = "pax"
      OBVIOUS
    <2> HIDE DEF places
    <2>3. Max(places) \in places
      BY <1>3, <1>5, <2>1, LastOf, Zenon
    <2>4. RecordOK(cells[Max(places)])
      BY <2>1, <2>3 DEF RecordsOK
    <2>5. IsVector(cells[Max(places)].v)
      BY <2>2, <2>3, <2>4 DEF RecordOK
    <2> QED
      BY <1>1, <1>2, <1>5, <2>5
  <1> QED
    BY <1>4, <1>5

\* A GNU long name is a name.
LEMMA LongValueIsName ==
  ASSUME NEW cells, IsVector(cells)
  PROVE  IsVector(LongValue(cells))
  <1> DEFINE S == {0} \cup {i \in DOMAIN cells : cells[i] \notin {Zero, Newline}}
             end == Max(S)
             v == [i \in 1 .. end |-> Value(cells[i])]
  <1>1. Len(cells) \in Nat /\ DOMAIN cells = 1 .. Len(cells)
    BY VectorIsSeq
  <1>2. LongValue(cells) = v
    BY DEF LongValue
  <1>3. S \in SUBSET Nat /\ S # {} /\ \A x \in S : x <= Len(cells)
    BY <1>1
  <1> HIDE DEF S
  <1>4. end \in S
    <2>1. S \in SUBSET Int /\ (\A x \in S : x <= Len(cells)) /\ Len(cells) \in Int /\ S # {}
      BY <1>1, <1>3
    <2> QED
      BY <2>1, LastBelow, Zenon
  <1>5. end \in Nat
    BY <1>3, <1>4, Zenon
  <1> HIDE DEF end
  <1>6. v = [i \in 1 .. end |-> v[i]]
    OBVIOUS
  <1> HIDE DEF v
  <1> QED
    BY <1>2, <1>5, <1>6, FunctionIsVector

\* A pax or GNU extension is taken.
LEMMA TarExtensionWithin ==
  ASSUME Inv, Inv', Limited, Is("deb"), op = "open", acc.format \in {"control", "data"},
         NEW h, h.size \in Nat, h.type \in {"g", "x", "L", "K"}, TarExtension(h)
  PROVE  Limited'
  <1> DEFINE data == TarData(h.size)
             n == acc.header + TarBlock + h.size
             p == acc.properties + (IF h.type \in {"g", "x"} THEN h.size ELSE 0)
             counted == [acc EXCEPT !.header = n, !.properties = p]
  <1>1. DebOK /\ DebParserOK /\ DebParserWithin /\ offset \in Nat
    BY OneFormat DEF Inv, DebOK, Limited, ParserWithin
  <1>2. RecordsOK(data) /\ IsVector(data)
    <2>1. offset + TarBlock \in Nat
      BY <1>1 DEF TarBlock
    <2>2. RecordsOK(data)
      BY <1>1, <2>1, TarFound, SliceRecords, SMTT(40) DEF TarData
    <2> QED
      BY <2>2 DEF RecordsOK
  <1>3. /\ acc' = CASE h.type = "g" -> [counted EXCEPT !.global = PaxValues(data, @)]
                    [] h.type = "x" -> [counted EXCEPT !.local = <<PaxValues(data, PaxNone)>>]
                    [] h.type = "L" -> [counted EXCEPT !.longName = LongValue(data)]
                    [] h.type = "K" -> [counted EXCEPT !.longLink = LongValue(data)]
        /\ UNCHANGED entries /\ ParseGoesOn
    BY DEF TarExtension
  <1>4. {"header", "names", "format", "members", "properties", "control", "data", "global",
         "local", "longName", "longLink"} \subseteq DOMAIN acc
    BY <1>1 DEF DebParserOK
  <1> HIDE DEF n, p, data
  <1>5. /\ DOMAIN counted = DOMAIN acc /\ counted.format = acc.format
        /\ counted.control = acc.control /\ counted.data = acc.data
        /\ counted.global = acc.global /\ counted.local = acc.local
        /\ counted.names = acc.names /\ counted.members = acc.members
        /\ counted.longName = acc.longName
    BY <1>4
  <1> HIDE DEF counted
  <1>6. /\ IsVector(PaxValues(data, acc.global).path) /\ IsVector(PaxValues(data, PaxNone).path)
        /\ IsVector(LongValue(data)) /\ IsVector(acc.longName) /\ IsVector(acc.global.path)
        /\ (acc.local = << >> \/ IsVector(acc.local[1].path))
    <2>1. IsVector(NoName) /\ PaxNone.path = NoName
      BY DEF NoName, PaxNone, IsVector
    <2> QED
      BY <1>1, <1>2, <2>1, PaxPath, LongValueIsName DEF DebParserWithin
  <1>7. /\ acc'.names = acc.names /\ acc'.format = acc.format
        /\ acc'.control = acc.control /\ acc'.data = acc.data /\ acc'.members = acc.members
        /\ IsVector(acc'.longName) /\ IsVector(acc'.global.path)
        /\ (acc'.local = << >> \/ IsVector(acc'.local[1].path))
    <2>1. CASE h.type = "g"
      <3> DEFINE v == PaxValues(data, acc.global)
      <3>1. acc' = [counted EXCEPT !.global = v]
        BY <1>3, <1>5, <2>1
      <3> HIDE DEF v
      <3>2. /\ acc'.names = acc.names /\ acc'.format = acc.format
            /\ acc'.control = acc.control /\ acc'.data = acc.data /\ acc'.members = acc.members
            /\ acc'.longName = acc.longName /\ acc'.global = v /\ acc'.local = acc.local
        BY <1>4, <1>5, <3>1
      <3> QED
        BY <1>6, <3>2 DEF v
    <2>2. CASE h.type = "x"
      <3> DEFINE v == PaxValues(data, PaxNone)
      <3>1. acc' = [counted EXCEPT !.local = <<v>>]
        BY <1>3, <2>2
      <3> HIDE DEF v
      <3>2. /\ acc'.names = acc.names /\ acc'.format = acc.format
            /\ acc'.control = acc.control /\ acc'.data = acc.data /\ acc'.members = acc.members
            /\ acc'.longName = acc.longName /\ acc'.global = acc.global /\ acc'.local[1] = v
        BY <1>4, <1>5, <3>1
      <3> QED
        BY <1>6, <3>2 DEF v
    <2>3. CASE h.type = "L"
      <3> DEFINE v == LongValue(data)
      <3>1. acc' = [counted EXCEPT !.longName = v]
        BY <1>3, <2>3
      <3> HIDE DEF v
      <3>2. /\ acc'.names = acc.names /\ acc'.format = acc.format
            /\ acc'.control = acc.control /\ acc'.data = acc.data /\ acc'.members = acc.members
            /\ acc'.longName = v /\ acc'.global = acc.global /\ acc'.local = acc.local
        BY <1>4, <1>5, <3>1
      <3> QED
        BY <1>6, <3>2 DEF v
    <2>4. CASE h.type = "K"
      <3> DEFINE v == LongValue(data)
      <3>1. acc' = [counted EXCEPT !.longLink = v]
        BY <1>3, <2>4
      <3> HIDE DEF v
      <3>2. /\ acc'.names = acc.names /\ acc'.format = acc.format
            /\ acc'.control = acc.control /\ acc'.data = acc.data /\ acc'.members = acc.members
            /\ acc'.longName = acc.longName /\ acc'.global = acc.global /\ acc'.local = acc.local
        BY <1>4, <1>5, <3>1
      <3> QED
        BY <1>6, <3>2
    <2> QED
      BY <2>1, <2>2, <2>3, <2>4
  <1> QED
    BY <1>3, <1>7, TarBlockWithin

\* The name of a member, whoever gives it.
LEMMA TarMemberName ==
  ASSUME DebParserWithin, NEW h, IsVector(h.name)
  PROVE  IsVector(TarMember(h).name)
  <1> DEFINE local == IF acc.local = << >> THEN PaxNone ELSE acc.local[1]
             a == local.path
             b == acc.global.path
             c == acc.longName
             values == <<a, b, c>>
             there == {i \in DOMAIN values : values[i] # NoName}
  <1>1. IsVector(a) /\ IsVector(b) /\ IsVector(c)
    <2>1. IsVector(NoName) /\ PaxNone.path = NoName
      BY DEF NoName, PaxNone, IsVector
    <2> QED
      BY <2>1 DEF DebParserWithin
  <1>2. TarMember(h).name = IF there = {} THEN h.name ELSE values[Min(there)]
    BY DEF TarMember, OneOf
  <1> HIDE DEF a, b, c
  <1>3. there \in SUBSET {1, 2, 3} /\ \A i \in there : IsVector(values[i])
    BY <1>1
  <1> HIDE DEF there, values
  <1>4. ASSUME there # {} PROVE IsVector(values[Min(there)])
    <2>1. there \in SUBSET Nat
      BY <1>3
    <2>2. \E x \in there : \A y \in there : x <= y
      BY <1>4, <2>1, LeastElement
    <2>3. Min(there) \in there
      BY <2>2 DEF Min
    <2> QED
      BY <1>3, <2>3
  <1> QED
    BY <1>2, <1>4

\* The header a section is at has a name.
LEMMA TarNamed ==
  ASSUME DebOK, acc.format \in {"control", "data"}
  PROVE  IsVector(TarHere.name)
  <1>1. RecordsOK(Tar)
    BY DEF Tar, DebOK, DebParserOK
  <1>2. TarHere = TarNone \/ (RecordOK(TarHere) /\ TarHere.k = "tar")
    BY <1>1, FieldsFound DEF TarHere
  <1>3. IsVector(TarNone.name)
    <2>1. TarNone.name = << >>
      BY DEF TarNone, TarHeader
    <2> QED
      BY <2>1, NoRecords
  <1>4. RecordOK(TarHere) /\ TarHere.k = "tar" => IsVector(TarHere.name)
    BY DEF RecordOK
  <1> QED
    BY <1>2, <1>3, <1>4

\* A member that passed is within the limits of the listing.
LEMMA TarAdmits ==
  ASSUME NEW h,
         FirstFailure(TarBlockChecks \o TarHeaderChecks(h) \o TarMemberChecks(h)) = "ok"
  PROVE  /\ acc.names + Len(TarMember(h).name) <= limits.names
         /\ TarMember(h).size <= limits.entry
         /\ Len(acc.members) + Len(entries) + 1 <= limits.files
  <1> DEFINE s == TarMemberChecks(h)
  <1>1. Checks(TarBlockChecks)
    BY DEF TarBlockChecks, Checks, IsVector
  <1>2. Checks(TarHeaderChecks(h))
    BY DEF TarHeaderChecks, Checks, IsVector
  <1>3. Checks(TarBlockChecks \o TarHeaderChecks(h))
    BY <1>1, <1>2, ConcatChecks
  <1>4. Checks(s)
    BY TarMemberRow
  <1>5. \A i \in 1 .. Len(s) : s[i][1]
    BY <1>3, <1>4, ConcatChecks
  <1>6. /\ Len(s) = 9
        /\ s[4][1] = (acc.names + Len(TarMember(h).name) <= limits.names)
        /\ s[6][1] = (TarMember(h).size <= limits.entry)
        /\ s[8][1] = (Len(acc.members) + Len(entries) + 1 <= limits.files)
    BY DEF TarMemberChecks
  <1> HIDE DEF s
  <1>7. 4 \in 1 .. 9 /\ 6 \in 1 .. 9 /\ 8 \in 1 .. 9
    OBVIOUS
  <1>8. s[4][1] /\ s[6][1] /\ s[8][1]
    <2>1. \A i \in 1 .. 9 : s[i][1]
      BY <1>5, <1>6
    <2> QED
      BY <1>7, <2>1, Zenon
  <1> QED
    BY <1>6, <1>8, Zenon

\* A member is listed.
LEMMA TarTakesWithin ==
  ASSUME Inv, Inv', Limited, Is("deb"), op = "open", acc.format \in {"control", "data"},
         NEW h, h.size \in Nat, IsVector(h.name),
         FirstFailure(TarBlockChecks \o TarHeaderChecks(h) \o TarMemberChecks(h)) = "ok",
         TarTakes(h)
  PROVE  Limited'
  <1> DEFINE e == DebEntry(h)
             t == TarMember(h)
             n == Len(entries)
             m == Len(t.name)
  <1>1. /\ DebOK /\ DebParserOK /\ DebParserWithin /\ offset \in Nat /\ ListWithin
        /\ IsVector(entries) /\ n \in Nat
        /\ limits.files \in Nat /\ limits.names \in Nat
        /\ ~ Is("rpm") /\ ~ Is("arj") /\ ~ Is("zip") /\ opened # "ok"
    BY OneFormat, NotOpenedYet, EntriesVector DEF Inv, ControlOK, LimitsOK, DebOK, Limited, ParserWithin
  <1>2. t.size \in Nat /\ m \in Nat
    BY <1>1, TarMemberSize, TarMemberName DEF IsVector
  <1>3. /\ acc.names + m <= limits.names /\ t.size <= limits.entry
        /\ Len(acc.members) + n + 1 <= limits.files
    BY TarAdmits
  <1>4. /\ e.start = offset + TarBlock /\ e.end = offset + TarBlock + t.size
        /\ e.section = acc.format /\ e.size = t.size /\ e.name = t.name
        /\ entries' = Append(entries, e) /\ ParseGoesOn
    BY DEF TarTakes, DebEntry
  <1>5. acc' = [acc EXCEPT !.header = @ + TarBlock, !.names = @ + m,
                           !.local = << >>, !.longName = NoName, !.longLink = NoName]
    BY DEF TarTakes
  <1> HIDE DEF e, t
  <1>6. /\ acc'.format = acc.format /\ acc'.names = acc.names + m
        /\ acc'.control = acc.control /\ acc'.data = acc.data /\ acc'.members = acc.members
        /\ acc'.global = acc.global /\ acc'.local = << >> /\ acc'.longName = NoName
    <2>1. {"header", "names", "format", "members", "properties", "control", "data", "global",
           "local", "longName", "longLink"} \subseteq DOMAIN acc
      BY <1>1 DEF DebParserOK
    <2> DEFINE p == acc.header + TarBlock
               q == acc.names + m
    <2>2. acc' = [acc EXCEPT !.header = p, !.names = q,
                             !.local = << >>, !.longName = NoName, !.longLink = NoName]
      BY <1>5
    <2> HIDE DEF p, q
    <2>3. /\ acc'.format = acc.format /\ acc'.names = q
          /\ acc'.control = acc.control /\ acc'.data = acc.data /\ acc'.members = acc.members
          /\ acc'.global = acc.global /\ acc'.local = << >> /\ acc'.longName = NoName
      BY <2>1, <2>2
    <2> QED
      BY <2>3 DEF q
  <1>7. EncodedName(e) = m
    BY <1>1, <1>4 DEF EncodedName, Is
  <1>8. e.end = e.start + e.size
    <2>1. offset + TarBlock \in Nat
      BY <1>1 DEF TarBlock
    <2> QED
      BY <1>4
  <1>9. EntryWithin(e)
    BY <1>2, <1>3, <1>4, <1>7, <1>8 DEF EntryWithin
  <1>10. UNCHANGED <<input, limits, opened>>
    BY <1>4 DEF ParseGoesOn
  <1>11. n < limits.files
    <2>1. Len(acc.members) \in Nat
      BY <1>1 DEF DebParserWithin
    <2>2. \A a, b, l \in Nat : a + b + 1 <= l => b < l
      OBVIOUS
    <2> QED
      BY <1>1, <1>3, <2>1, <2>2
  <1>12. acc'.names = acc.names + EncodedName(e) /\ acc.names + EncodedName(e) <= limits.names
    BY <1>3, <1>6, <1>7
  <1> HIDE DEF m
  <1>13. ListWithin'
    BY <1>1, <1>4, <1>9, <1>10, <1>11, <1>12, ListGrows
  <1>14. DebParserWithin'
    <2>1. IsVector(NoName)
      BY DEF NoName, IsVector
    <2> QED
      BY <1>1, <1>6, <1>10, <2>1, Zenon DEF DebParserWithin
  <1>15. /\ Len(entries') = n + 1 /\ \A i \in 1 .. n : entries'[i] = entries[i]
         /\ entries'[n + 1] = e
    BY <1>1, <1>4, AppendVector
  <1>16. ASSUME NEW i \in 1 .. Len(entries'), NEW j \in 1 .. Len(entries'),
                i < j, entries'[i].section = "data"
         PROVE  entries'[j].section = "data"
    <2>1. i \in 1 .. n /\ (j \in 1 .. n \/ j = n + 1)
      BY <1>1, <1>15, <1>16
    <2>2. entries[i].section = "data"
      BY <1>15, <1>16, <2>1
    <2>3. CASE j \in 1 .. n
      <3>1. entries[j].section = "data"
        BY <1>16, <2>1, <2>2, <2>3 DEF Limited, ParserWithin
      <3> QED
        BY <1>15, <2>3, <3>1
    <2>4. CASE j = n + 1
      <3>1. DebEntryOK(entries[i])
        BY <1>1, <2>1 DEF DebOK
      <3>2. acc.format = "data"
        BY <2>2, <3>1 DEF DebEntryOK
      <3> QED
        BY <1>4, <1>15, <2>4, <3>2
    <2> QED
      BY <2>1, <2>3, <2>4
  <1>17. ParserWithin'
    BY <1>1, <1>10, <1>14, <1>16 DEF ParserWithin, Is
  <1> QED
    BY <1>4, <1>13, <1>17, RoundStays

\* A record of a tar.
LEMMA DebTarWithin ==
  ASSUME Inv, Inv', Limited, DebTar
  PROVE  Limited'
  <1> DEFINE h == TarHere
             extension == h.type \in {"g", "x", "L", "K"}
             result == FirstFailure(TarBlockChecks \o TarHeaderChecks(h)
                         \o (IF extension THEN TarExtensionChecks(h) ELSE TarMemberChecks(h)))
  <1>1. Is("deb") /\ op = "open" /\ acc.format \in {"control", "data"}
    BY DEF DebTar
  <1>2. h.size \in Nat /\ IsVector(h.name)
    BY <1>1, OneFormat, TarFound, TarNamed DEF Inv
  <1>3. \/ \E r : r # "ok" /\ ParseFails(r)
        \/ TarEnd
        \/ extension /\ TarExtension(h)
        \/ result = "ok" /\ ~ extension /\ TarTakes(h)
    BY DEF DebTar
  <1>4. result = "ok" /\ ~ extension
        => FirstFailure(TarBlockChecks \o TarHeaderChecks(h) \o TarMemberChecks(h)) = "ok"
    OBVIOUS
  <1> HIDE DEF h, result
  <1>5. CASE \E r : r # "ok" /\ ParseFails(r)
    BY <1>1, <1>5, ParseFailsWithin
  <1>6. CASE TarEnd
    BY <1>1, <1>6, TarEndWithin
  <1>7. CASE extension /\ TarExtension(h)
    BY <1>1, <1>2, <1>7, TarExtensionWithin
  <1>8. CASE result = "ok" /\ ~ extension /\ TarTakes(h)
    BY <1>1, <1>2, <1>4, <1>8, TarTakesWithin
  <1> QED
    BY <1>3, <1>5, <1>6, <1>7, <1>8

\* The directory is found: nothing is listed yet.
LEMMA ZipLocateWithin ==
  ASSUME Inv, Inv', Limited, ZipLocate
  PROVE  Limited'
  <1>1. Is("zip") /\ op = "open" /\ acc.format = "none"
        /\ ~ Is("rpm") /\ ~ Is("arj") /\ ~ Is("deb")
    BY OneFormat DEF ZipLocate
  <1>2. entries = << >>
    BY <1>1, OneFormat DEF Inv, ZipOK
  <1>3. \/ \E r : r # "ok" /\ ParseFails(r)
        \/ UNCHANGED entries /\ ParseGoesOn /\ acc'.names = 0
    <2> DEFINE slice == FirstFailure(ZipSliceChecks)
               start == IF slice = "ok" THEN ZipSliceStart ELSE 0
               r == RawzipLocate(start)
               found == IF slice = "ok" THEN FirstFailure(ZipDirectoryChecks(r, start)) ELSE slice
    <2>1. \/ found # "ok" /\ ParseFails(found)
          \/ /\ acc' = [format |-> "zip", names |-> 0, dir |-> r.dir, dirEnd |-> r.dirEnd,
                        base |-> r.base, hint |-> r.last.entries,
                        comment |-> Cells[r.eocd + 1].comment]
             /\ UNCHANGED entries /\ ParseGoesOn
      BY DEF ZipLocate
    <2> HIDE DEF found, r
    <2> QED
      BY <2>1
  <1>4. CASE \E r : r # "ok" /\ ParseFails(r)
    BY <1>1, <1>4, ParseFailsWithin
  <1>5. CASE UNCHANGED entries /\ ParseGoesOn /\ acc'.names = 0
    <2>1. UNCHANGED <<input, limits, entries>>
      BY <1>5 DEF ParseGoesOn
    <2>2. ListWithin'
      BY <1>2, <1>5, <2>1, NothingListed
    <2>3. ParserWithin'
      BY <1>1, <2>1 DEF ParserWithin, Is
    <2> QED
      BY <1>1, <1>5, <2>2, <2>3, RoundStays
  <1> QED
    BY <1>3, <1>4, <1>5

\* A central record that passed is within the limits of the listing.
LEMMA ZipCentralAdmits ==
  ASSUME NEW c, NEW sizes, FirstFailure(ZipCentralChecks(c, sizes)) = "ok"
  PROVE  /\ Len(entries) < limits.files /\ acc.names + Len(c.name) <= limits.names
         /\ sizes[1] <= limits.entry
  <1> DEFINE s == ZipCentralChecks(c, sizes)
  <1>1. IsVector(s) /\ Len(s) = 9
    BY DEF ZipCentralChecks, IsVector
  <1>2. /\ s[1][2] = "format" /\ s[2][2] = "limit" /\ s[3][2] = "format" /\ s[4][2] = "limit"
        /\ s[5][2] = "limit" /\ s[6][2] = "format" /\ s[7][2] = "unsupported"
        /\ s[8][2] = "limit" /\ s[9][2] = "limit"
    BY DEF ZipCentralChecks
  <1>3. /\ s[2][1] = (Len(entries) < limits.files)
        /\ s[5][1] = (acc.names + Len(c.name) <= limits.names)
        /\ s[8][1] = (sizes[1] <= limits.entry)
    BY DEF ZipCentralChecks
  <1>4. FirstFailure(s) = "ok"
    OBVIOUS
  <1> HIDE DEF s
  <1>5. \A i \in 1 .. 9 : i \in {1, 2, 3, 4, 5, 6, 7, 8, 9}
    OBVIOUS
  <1>6. Checks(s)
    BY <1>1, <1>2, <1>5 DEF Checks
  <1>7. \A i \in 1 .. 9 : s[i][1]
    BY <1>1, <1>4, <1>6, AllHold, Zenon
  <1>8. 2 \in 1 .. 9 /\ 5 \in 1 .. 9 /\ 8 \in 1 .. 9
    OBVIOUS
  <1>9. s[2][1] /\ s[5][1] /\ s[8][1]
    BY <1>7, <1>8, Zenon
  <1> QED
    BY <1>3, <1>9, Zenon

\* A central record has a name.
LEMMA ZipNamed ==
  ASSUME CellsOK(Cells), NEW o
  PROVE  IsVector(RecordAt(Cells, o, "central", ZipNoRecord).name)
  <1> DEFINE c == RecordAt(Cells, o, "central", ZipNoRecord)
  <1>1. c = ZipNoRecord \/ (CellOK(c) /\ c.k = "central")
    BY RecordFound
  <1>2. IsVector(ZipNoRecord.name)
    <2>1. ZipNoRecord.name = << >>
      BY DEF ZipNoRecord, ZipRecord
    <2> QED
      BY <2>1, NoRecords
  <1> HIDE DEF c
  <1>3. CellOK(c) /\ c.k = "central" => IsVector(c.name)
    BY DEF CellOK, RecordOK
  <1>4. IsVector(c.name)
    BY <1>1, <1>2, <1>3
  <1> QED
    BY <1>4 DEF c

\* A central record is listed.
LEMMA ZipCentralWithin ==
  ASSUME Inv, Inv', Limited, ZipCentral
  PROVE  Limited'
  <1> DEFINE c == RecordAt(Cells, offset, "central", ZipNoRecord)
             sizes == ZipResolve(ZipCentralFields(c), c.extra)
             place == acc.base + sizes[3]
             l == RecordAt(Cells, place, "local", ZipNoRecord)
             x == ZipExtent(c, l, place, sizes, acc.dir)
             e == ZipEntry(c, x, place, sizes)
             m == Len(c.name)
             own == FirstFailure(ZipCentralChecks(c, sizes))
             both == IF own = "ok" THEN FirstFailure(ZipLocalChecks(c, l, x, sizes, acc.dir)) ELSE own
             result == IF both = "ok" THEN FirstFailure(ZipClassChecks(c)) ELSE both
  <1>1. Is("zip") /\ op = "open" /\ acc.format = "zip" /\ CellsOK(Cells)
        /\ limits.files \in Nat /\ limits.names \in Nat
        /\ ~ Is("rpm") /\ ~ Is("arj") /\ ~ Is("deb") /\ ~ Is("cpio")
    BY OneFormat DEF ZipCentral, Inv, ControlOK, LimitsOK
  <1>2. IsVector(entries)
        /\ {"format", "names", "dir", "dirEnd", "base", "hint", "comment"} \subseteq DOMAIN acc
    BY <1>1, OneFormat, EntriesVector DEF Inv, ZipOK
  <1>3. \/ result # "ok" /\ ParseFails(result)
        \/ /\ result = "ok"
           /\ entries' = Append(entries, e)
           /\ acc' = [acc EXCEPT !.names = @ + m]
           /\ ParseGoesOn
    BY DEF ZipCentral
  <1>4. sizes[1] \in Nat
    BY <1>1, ZipSizes
  <1>5. m \in Nat
    <2>1. IsVector(c.name)
      BY <1>1, ZipNamed
    <2> QED
      BY <2>1 DEF IsVector
  <1>6. e.size = sizes[1] /\ e.encoded = m
    BY DEF ZipEntry
  <1>7. result = "ok" => own = "ok"
    OBVIOUS
  <1>8. own = "ok" => Len(entries) < limits.files /\ acc.names + m <= limits.names
                      /\ sizes[1] <= limits.entry
    <2> HIDE DEF sizes, c
    <2> QED
      BY ZipCentralAdmits
  <1> HIDE DEF result, own, e, sizes
  <1>9. CASE result # "ok" /\ ParseFails(result)
    BY <1>1, <1>9, ParseFailsWithin
  <1>10. CASE /\ result = "ok"
              /\ entries' = Append(entries, e)
              /\ acc' = [acc EXCEPT !.names = @ + m]
              /\ ParseGoesOn
    <2>1. EncodedName(e) = m
      BY <1>1, <1>6 DEF EncodedName, Is
    <2>2. Len(entries) < limits.files /\ acc.names + m <= limits.names
          /\ sizes[1] <= limits.entry
      BY <1>7, <1>8, <1>10
    <2> HIDE DEF m
    <2>3. EntryWithin(e)
      BY <1>1, <1>4, <1>5, <1>6, <2>1, <2>2 DEF EntryWithin, Is
    <2>4. acc'.names = acc.names + m
      BY <1>2, <1>10
    <2>5. UNCHANGED <<input, limits>>
      BY <1>10 DEF ParseGoesOn
    <2>6. ListWithin'
      BY <1>1, <1>2, <1>10, <2>1, <2>2, <2>3, <2>4, <2>5, ListGrows DEF Limited
    <2>7. ParserWithin'
      BY <1>1, <2>5 DEF ParserWithin, Is
    <2> QED
      BY <1>1, <1>10, <2>6, <2>7, RoundStays
  <1> QED
    BY <1>3, <1>9, <1>10

\* The directory is complete.
LEMMA ZipListedWithin ==
  ASSUME Inv, Inv', Limited, ZipListed
  PROVE  Limited'
  <1>1. Is("zip") /\ op = "open" /\ (\E r : OpenReturns(r)) /\ UNCHANGED parseVars
        /\ ~ Is("rpm") /\ ~ Is("deb")
    BY OneFormat DEF ZipListed
  <1>2. UNCHANGED <<input, limits, acc, entries>> /\ op' # "open"
    BY <1>1 DEF OpenReturns, parseVars
  <1>3. ListWithin' /\ ParserWithin'
    BY <1>1, <1>2, ListStays DEF Limited
  <1> QED
    BY <1>1, <1>3, RoundStays
-----------------------------------------------------------------------------
(***************************************************************************)
(* The limits: every step                                                   *)
(***************************************************************************)
\* The steps that the readers share.
LEMMA SharedWithin ==
  ASSUME Inv, Inv', Limited,
         StatPath \/ ReadPath \/ StartOpen \/ WriteChunk \/ FinishEntry
  PROVE  Limited'
  BY StatWithin, ReadPathWithin, StartWithin, ChunkWrittenWithin, FinishWithin

\* A step in which nothing changes.
LEMMA RestWithin ==
  ASSUME Inv, Limited, UNCHANGED vars
  PROVE  Limited'
  <1>1. UNCHANGED <<input, limits, op, opened, verified, extracted, offset, acc, entries,
                    at, total, content, cursor, sink, got>>
    BY DEF vars, parseVars, loopVars
  <1>2. ListWithin' /\ ParserWithin'
    BY <1>1, ListStays DEF Limited
  <1>3. ReadWithin'
    BY <1>1 DEF Limited, ReadWithin
  <1>4. \A n : Reached(n)' = Reached(n)
    BY <1>1 DEF Reached, Is
  <1>5. ChargedOnce'
    BY <1>1 DEF Limited, ChargedOnce, Reached, Is
  <1>6. Written' = Written /\ Missing' = Missing
    BY <1>1 DEF Written, Missing
  <1>7. GotWithin'
    BY <1>1, <1>6 DEF Limited, GotWithin
  <1> QED
    BY <1>2, <1>3, <1>5, <1>7 DEF Limited

\* Every step keeps the limits.
LEMMA NextWithin ==
  ASSUME Inv, Inv', Limited, [Next]_vars
  PROVE  Limited'
  <1>1. CASE UNCHANGED vars \/ Returned
    BY <1>1, RestWithin DEF Returned
  <1>2. CASE CpioNext
    <2>1. CASE CpioReadPath \/ CpioOpenBytes \/ CpioWrite
      BY <2>1, SharedWithin DEF CpioReadPath, CpioOpenBytes, CpioWrite
    <2> QED
      BY <1>2, <2>1, CpioParseWithin, CpioLoopsWithin DEF CpioNext
  <1>3. CASE ZipNext
    <2>1. CASE ZipReadPath \/ ZipOpenBytes \/ ZipWrite
      BY <2>1, SharedWithin DEF ZipReadPath, ZipOpenBytes, ZipWrite
    <2> QED
      BY <1>3, <2>1, ZipLocateWithin, ZipCentralWithin, ZipListedWithin, ZipLoopsWithin DEF ZipNext
  <1>4. CASE RpmNext
    <2>1. CASE RpmReadPath \/ RpmOpenBytes \/ RpmWrite
      BY <2>1, SharedWithin DEF RpmReadPath, RpmOpenBytes, RpmWrite
    <2> QED
      BY <1>4, <2>1, RpmHeadersWithin, RpmPayloadWithin, RpmParsePayloadWithin, RpmLoopsWithin
         DEF RpmNext
  <1>5. CASE DebNext
    <2>1. CASE DebReadPath \/ DebOpenBytes \/ DebWrite
      BY <2>1, SharedWithin DEF DebReadPath, DebOpenBytes, DebWrite
    <2> QED
      BY <1>5, <2>1, DebStartWithin, DebArMemberWithin, DebMembersWithin, DebTarWithin, DebLoopsWithin
         DEF DebNext
  <1>6. CASE ArjNext
    <2>1. CASE ArjReadPath \/ ArjOpenBytes \/ ArjWrite
      BY <2>1, SharedWithin DEF ArjReadPath, ArjOpenBytes, ArjWrite
    <2> QED
      BY <1>6, <2>1, ArjFindMainWithin, ArjExtensionsWithin, ArjLocalWithin, ArjLoopsWithin
         DEF ArjNext
  <1>7. CASE Interrupt
    BY <1>7, InterruptWithin
  <1> QED
    BY <1>1, <1>2, <1>3, <1>4, <1>5, <1>6, <1>7 DEF Next

\* Nothing was read, listed or written yet.
LEMMA InitWithin ==
  ASSUME Init, Inv
  PROVE  Limited
  <1>1. /\ op \in {"stat", "start"} /\ opened = "none" /\ verified = "none" /\ extracted = "none"
        /\ offset = 0 /\ entries = << >> /\ got = << >> /\ at = 1 /\ total = 0
        /\ acc.names = 0 /\ acc.format = "none"
    BY DEF Init
  <1>2. Len(entries) = 0 /\ Len(got) = 0 /\ IsVector(entries) /\ IsVector(got)
    BY <1>1, NoRecords
  <1>3. limits.files \in Nat /\ limits.names \in Nat /\ limits.total \in Nat /\ limits.entry \in Nat
    BY DEF Inv, ControlOK, LimitsOK
  <1>4. NamesTotal = 0
    BY <1>1, <1>2, NamesNumber
  <1>5. ListWithin
    BY <1>1, <1>2, <1>3, <1>4 DEF ListWithin
  <1>6. ParserWithin
    BY <1>1, <1>2 DEF ParserWithin
  <1>7. ReadWithin
    BY <1>1 DEF ReadWithin
  <1>8. ChargedOnce
    BY <1>1 DEF ChargedOnce
  <1>9. Written = 0 /\ Missing = 0
    <2>1. Written = 0
      BY <1>2, NothingWritten
    <2> QED
      BY <1>1, <2>1 DEF Missing
  <1>10. GotWithin
    BY <1>1, <1>2, <1>3, <1>9 DEF GotWithin
  <1> QED
    BY <1>5, <1>6, <1>7, <1>8, <1>10 DEF Limited

\* What is counted is within the limits.
LEMMA LimitedHolds ==
  ASSUME Inv, Limited
  PROVE  LimitsHold
  <1>1. OpenedIsAdmitted
    BY DEF OpenedIsAdmitted, Limited, ChargedOnce, Is
  <1>2. /\ op = "read" => offset <= limits.input
        /\ Len(entries) <= limits.files
        /\ SumFunction([i \in DOMAIN entries |-> EncodedName(entries[i])]) <= limits.names
    BY DEF Limited, ReadWithin, ListWithin, NamesTotal
  <1>3. Listed /\ input.format = "deb" => Len(acc.control) + Len(acc.data) <= limits.total
    BY Zenon DEF Limited, ParserWithin, DebParserWithin, Listed, Is
  <1>4. /\ IsVector(got) /\ DOMAIN got = 1 .. Len(got)
        /\ \A i \in 1 .. Len(got) : IsVector(got[i]) /\ Len(got[i]) <= limits.entry
        /\ sink \/ input.format \in {"zip", "rpm", "deb"} => Written + Missing <= limits.total
    BY VectorIsSeq DEF Limited, GotWithin
  <1>5. Missing \in Nat
    <2>1. op = "chunks" => Len(content) \in Nat /\ cursor \in 0 .. Len(content)
      BY DEF Inv, ControlOK, IsVector
    <2> QED
      BY <2>1 DEF Missing
  <1>6. Written \in Int
    BY <1>4, WrittenNumber
  <1>7. limits.total \in Nat
    BY DEF Inv, ControlOK, LimitsOK
  <1>8. \A a, b, c \in Int : b >= 0 /\ a + b <= c => a <= c
    OBVIOUS
  <1>9. sink \/ input.format \in {"zip", "rpm", "deb"} => Written <= limits.total
    BY <1>4, <1>5, <1>6, <1>7, <1>8
  <1>10. WithinLimits
    BY <1>2, <1>3, <1>4, <1>9, Zenon DEF WithinLimits, Written
  <1> QED
    BY <1>1, <1>10 DEF LimitsHold

\* The Limits hold whatever the input says: nothing is read, listed, kept
\* decoded or handed to the caller beyond them, and what open has charged for
\* once stops neither verify nor an extraction again.
THEOREM LimitsKept ==
  Spec => []LimitsHold
  <1>1. Init => Inv /\ Limited
    BY InitInv, InitWithin
  <1>2. Inv /\ Limited /\ [Next]_vars => (Inv /\ Limited)'
    <2> SUFFICES ASSUME Inv, Limited, [Next]_vars
                 PROVE  Inv' /\ Limited'
      BY PTL
    <2>1. Inv'
      BY NextStep
    <2> QED
      BY <2>1, NextWithin
  <1>3. Inv /\ Limited => LimitsHold
    BY LimitedHolds
  <1> QED
    BY <1>1, <1>2, <1>3, PTL DEF Spec
=============================================================================
