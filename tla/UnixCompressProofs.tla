-------------------------- MODULE UnixCompressProofs --------------------------
(***************************************************************************)
(* The decoder never meets the internal errors of its traversal, for every *)
(* size of a byte, every chunk size and every payload.  A prefix is always *)
(* a smaller code than the entry it belongs to, so that each step along    *)
(* the chain makes the code smaller, and the steps taken and the code they *)
(* have come to stay together below the size of the table.                 *)
(*                                                                         *)
(* And the decoder implements LZW over whole strings: what the traversal   *)
(* has collected and the string of the code it has come to are always the  *)
(* string of the code that was read.                                       *)
(***************************************************************************)
EXTENDS UnixCompress, NaturalLemmas, SequenceTheorems, TLAPS

Top == MaxCodes(input)

\* Bounds of the counters, in the words of TypeOK.
CountersInv ==
  /\ input \in Inputs
  /\ codeBits \in InitialBits .. input.maxBits
  /\ nextCode \in FirstCode(input) .. Top
  /\ previous \in {None} \cup 0 .. nextCode - 1
  /\ encoded \in 0 .. Top - 1

\* Prefixes point downwards, also those of codes that are not in use.
PrefixesInv ==
  /\ prefixes \in [0 .. Top - 1 -> 0 .. Top - 1]
  /\ \A c \in Literals .. nextCode - 1 : prefixes[c] < c

\* A code that was accepted is in the table or its next entry; after a reset
\* it is a literal.
AcceptedInv ==
  phase \in {"chain", "write", "full"} =>
    encoded <= nextCode /\ (previous = None => encoded < Literals)

\* The steps taken and the code they have come to.
ChainInv ==
  phase = "chain" =>
    /\ previous # None
    /\ code \in 0 .. nextCode - 1
    /\ traversed \in Nat
    /\ traversed + code < nextCode

IInv ==
  /\ CountersInv /\ PrefixesInv /\ AcceptedInv /\ ChainInv
  /\ NoInternalError

\* The widths of a validated header, and the sizes that follow from them.
LEMMA InputSizes ==
  ASSUME NEW i \in Inputs
  PROVE  /\ ByteBits \in Nat /\ ByteBits > 0
         /\ i.maxBits \in InitialBits .. 2 * ByteBits
         /\ Literals \in Nat \ {0}
         /\ MaxCodes(i) \in Nat
         /\ FirstCode(i) \in {Literals, Literals + 1}
         /\ FirstCode(i) <= MaxCodes(i)
<1>1. ByteBits \in Nat /\ ByteBits > 0
  BY ByteAssumption
<1>2. i.maxBits \in InitialBits .. 2 * ByteBits
  BY InputsAssumption DEF InputOK
<1>3. i.maxBits \in 0 .. 2 * ByteBits /\ ByteBits \in 0 .. 2 * ByteBits /\ ByteBits < i.maxBits
  BY <1>1, <1>2 DEF InitialBits
<1>4. 2 ^ ByteBits \in Nat \ {0} /\ 2 ^ i.maxBits \in Nat \ {0} /\ 2 ^ ByteBits < 2 ^ i.maxBits
  BY <1>3, PowersAssumption
<1> QED
  BY <1>1, <1>2, <1>4 DEF Literals, MaxCodes, FirstCode

\* The width of the next code is one the header allows, and so is the code.
LEMMA WidthBound ==
  ASSUME CountersInv
  PROVE  /\ Width \in InitialBits .. input.maxBits
         /\ 2 ^ Width \in Nat
         /\ 2 ^ Width <= Top
<1>1. ByteBits \in Nat /\ input.maxBits \in InitialBits .. 2 * ByteBits
  BY InputSizes DEF CountersInv
<1>2. codeBits \in Nat /\ InitialBits \in Nat /\ input.maxBits \in Nat
  BY <1>1 DEF CountersInv, InitialBits
<1>3. Width \in InitialBits .. input.maxBits
  BY <1>1, <1>2 DEF CountersInv, Width, Widens
<1>4. Width \in 0 .. 2 * ByteBits /\ input.maxBits \in 0 .. 2 * ByteBits
  BY <1>1, <1>2, <1>3
<1>5. Width < input.maxBits => 2 ^ Width < 2 ^ input.maxBits
  BY <1>4, PowersAssumption
<1>6. 2 ^ Width \in Nat /\ 2 ^ input.maxBits \in Nat
  BY <1>4, PowersAssumption
<1>7. CASE Width < input.maxBits
  BY <1>3, <1>5, <1>6, <1>7 DEF Top, MaxCodes
<1>8. CASE Width = input.maxBits
  BY <1>3, <1>6, <1>8 DEF Top, MaxCodes
<1> QED
  BY <1>2, <1>3, <1>7, <1>8

\* The invariant holds when decode_lzw enters its loop.
LEMMA InitIInv == Init => IInv
<1> SUFFICES ASSUME Init PROVE IInv
  OBVIOUS
<1>1. input \in Inputs
  BY DEF Init
<1> USE InputSizes
<1>2. CountersInv
  BY <1>1 DEF Init, CountersInv, Top, None, InitialBits
<1>3. PrefixesInv
  BY <1>1 DEF Init, PrefixesInv, Top
<1> QED
  BY <1>2, <1>3 DEF Init, IInv, AcceptedInv, ChainInv, NoInternalError

\* Each step of the loop keeps the invariant.
LEMMA NextIInv == IInv /\ [Next]_vars => IInv'
<1> SUFFICES ASSUME IInv, [Next]_vars PROVE IInv'
  OBVIOUS
<1>0. input \in Inputs
  BY DEF IInv, CountersInv
<1>1. /\ Literals \in Nat \ {0} /\ Top \in Nat
      /\ FirstCode(input) \in {Literals, Literals + 1}
      /\ FirstCode(input) <= Top
  BY <1>0, InputSizes DEF Top
<1>2. /\ InitialBits \in Nat /\ input.maxBits \in Nat
      /\ InitialBits <= input.maxBits
  BY <1>0, InputSizes DEF InitialBits
<1>3. /\ nextCode \in Nat /\ FirstCode(input) <= nextCode /\ nextCode <= Top
      /\ FirstCode(input) \in Nat
  BY <1>1 DEF IInv, CountersInv
<1>4. CASE EndOfInput
  BY <1>4 DEF EndOfInput, Goto, tableVars, chainVars, IInv, CountersInv, PrefixesInv,
              AcceptedInv, ChainInv, NoInternalError, Top
<1>5. CASE ReadCode
  <2>1. codeBits' \in InitialBits .. input.maxBits /\ encoded' \in 0 .. Top - 1
    <3>1. CountersInv
      BY DEF IInv
    <3>2. /\ Width \in InitialBits .. input.maxBits
          /\ 2 ^ Width \in Nat /\ 2 ^ Width <= Top
      BY <3>1, WidthBound
    <3>3. encoded' \in 0 .. 2 ^ Width - 1 /\ codeBits' = Width
      BY <1>5 DEF ReadCode
    <3> QED
      BY <3>2, <3>3, <1>1
  <2>2. /\ phase' = "code" /\ result' = result
        /\ UNCHANGED <<input, nextCode, previous, prefixes>>
    BY <1>5 DEF ReadCode, Goto
  <2> QED
    BY <2>1, <2>2 DEF IInv, CountersInv, PrefixesInv, AcceptedInv, ChainInv,
                      NoInternalError, Top
<1>6. CASE Clear
  <2>1. /\ phase' = "loop" /\ result' = result /\ previous' = None
        /\ codeBits' = InitialBits /\ nextCode' = FirstCode(input)
        /\ UNCHANGED <<input, encoded, prefixes>>
    BY <1>6 DEF Clear, Goto
  <2>2. CountersInv'
    BY <1>1, <1>2, <2>1 DEF IInv, CountersInv, Top
  <2>3. PrefixesInv'
    BY <1>1, <1>3, <2>1 DEF IInv, PrefixesInv, Top
  <2> QED
    BY <2>1, <2>2, <2>3 DEF IInv, AcceptedInv, ChainInv, NoInternalError
<1>7. CASE FirstLiteral
  <2>1. /\ UNCHANGED <<input, encoded, codeBits, nextCode, previous, prefixes>>
        /\ \/ phase' = phase /\ phase = "code" /\ result' = "format"
           \/ phase' = "write" /\ result' = result /\ encoded < Literals
    BY <1>7 DEF FirstLiteral, Goto, Return
  <2>2. CountersInv' /\ PrefixesInv' /\ NoInternalError'
    BY <2>1 DEF IInv, CountersInv, PrefixesInv, Top, NoInternalError
  <2>3. AcceptedInv'
    BY <1>1, <1>3, <2>1 DEF IInv, AcceptedInv, CountersInv
  <2>4. ChainInv'
    BY <2>1 DEF ChainInv
  <2> QED
    BY <2>2, <2>3, <2>4 DEF IInv
<1>8. CASE StartChain
  <2>1. /\ UNCHANGED <<input, encoded, codeBits, nextCode, previous, prefixes>>
        /\ previous # None /\ traversed' = 0
        /\ \/ phase' = "chain" /\ result' = result /\ encoded = nextCode /\ code' = previous
           \/ phase' = "chain" /\ result' = result /\ encoded < nextCode /\ code' = encoded
           \/ phase' = phase /\ phase = "code" /\ result' = "format"
    BY <1>8 DEF StartChain, Goto, Return, tableVars
  <2>2. CountersInv' /\ PrefixesInv' /\ NoInternalError'
    BY <2>1 DEF IInv, CountersInv, PrefixesInv, Top, NoInternalError
  <2>3. AcceptedInv'
    BY <1>3, <2>1 DEF IInv, AcceptedInv, CountersInv
  <2>4. ChainInv'
    BY <1>1, <1>3, <2>1 DEF IInv, ChainInv, CountersInv
  <2> QED
    BY <2>2, <2>3, <2>4 DEF IInv
<1>9. CASE Traverse
  <2>1. /\ UNCHANGED <<input, encoded, codeBits, nextCode, previous, prefixes>>
        /\ phase = "chain" /\ code >= Literals /\ traversed' = traversed + 1
    BY <1>9 DEF Traverse, tableVars
  <2>2. /\ previous # None /\ code \in 0 .. nextCode - 1 /\ traversed \in Nat
        /\ traversed + code < nextCode
    BY <2>1 DEF IInv, ChainInv
  <2>3. ~ (traversed' > MaxCodes(input) \/ code >= nextCode)
    BY <1>1, <1>3, <2>1, <2>2 DEF Top
  <2>4. phase' = phase /\ result' = result /\ code' = prefixes[code]
    BY <1>9, <2>3 DEF Traverse
  <2>5. prefixes[code] \in Nat /\ prefixes[code] < code
    BY <1>1, <1>3, <2>1, <2>2 DEF IInv, PrefixesInv
  <2>6. ChainInv'
    BY <1>3, <2>1, <2>2, <2>4, <2>5 DEF ChainInv
  <2> QED
    BY <2>1, <2>4, <2>6 DEF IInv, CountersInv, PrefixesInv, AcceptedInv, Top,
                            NoInternalError
<1>10. CASE EndChain
  BY <1>10 DEF EndChain, Goto, IInv, CountersInv, PrefixesInv, AcceptedInv, ChainInv,
               NoInternalError, Top
<1>11. CASE CopyOutput
  <2>1. /\ UNCHANGED <<input, encoded, codeBits, nextCode, previous, prefixes>>
        /\ phase = "write" /\ phase' \in {"write", "full"}
        /\ result' \in {result, "limit"}
    BY <1>11 DEF CopyOutput, Goto, Return, tableVars
  <2> QED
    BY <2>1 DEF IInv, CountersInv, PrefixesInv, AcceptedInv, ChainInv, NoInternalError, Top
<1>12. CASE FlushFull
  <2>1. /\ UNCHANGED <<input, encoded, codeBits, nextCode, previous, prefixes>>
        /\ phase = "full" /\ phase' \in {"write", "full"}
        /\ result' \in {result, "io"}
    BY <1>12 DEF FlushFull, Goto, Return, tableVars
  <2> QED
    BY <2>1 DEF IInv, CountersInv, PrefixesInv, AcceptedInv, ChainInv, NoInternalError, Top
<1>13. CASE AddEntry
  <2>1. /\ UNCHANGED <<input, encoded, codeBits>>
        /\ phase = "write" /\ phase' = "loop" /\ result' = result
        /\ previous' = encoded
        /\ \/ /\ previous # None /\ nextCode < Top
              /\ prefixes' = [prefixes EXCEPT ![nextCode] = previous]
              /\ nextCode' = nextCode + 1
           \/ /\ previous = None \/ nextCode = Top
              /\ UNCHANGED <<prefixes, nextCode>>
    BY <1>13 DEF AddEntry, Goto, Top
  <2>2. /\ encoded \in Nat /\ encoded <= nextCode /\ encoded < Top
        /\ previous = None => encoded < Literals
    BY <1>1, <2>1 DEF IInv, CountersInv, AcceptedInv
  <2>3. CountersInv'
    <3>1. encoded \in 0 .. nextCode' - 1
      BY <1>1, <1>3, <2>1, <2>2
    <3>2. nextCode' \in FirstCode(input) .. Top
      BY <1>1, <1>3, <2>1
    <3> QED
      BY <2>1, <3>1, <3>2 DEF IInv, CountersInv, Top
  <2>4. PrefixesInv'
    <3>1. CASE /\ previous # None /\ nextCode < Top
               /\ prefixes' = [prefixes EXCEPT ![nextCode] = previous]
               /\ nextCode' = nextCode + 1
      <4>1. previous \in 0 .. nextCode - 1
        BY <3>1 DEF IInv, CountersInv
      <4>2. previous \in 0 .. Top - 1 /\ nextCode \in 0 .. Top - 1 /\ previous < nextCode
        BY <1>1, <1>3, <3>1, <4>1
      <4>3. prefixes' \in [0 .. Top - 1 -> 0 .. Top - 1]
        BY <3>1, <4>2 DEF IInv, PrefixesInv
      <4>4. ASSUME NEW c \in Literals .. nextCode' - 1
            PROVE  prefixes'[c] < c
        <5>1. c \in 0 .. Top - 1 /\ (c = nextCode \/ c \in Literals .. nextCode - 1)
          BY <1>1, <1>3, <3>1
        <5> QED
          BY <3>1, <4>2, <5>1 DEF IInv, PrefixesInv
      <4> QED
        BY <2>1, <4>3, <4>4 DEF PrefixesInv, Top
    <3>2. CASE UNCHANGED <<prefixes, nextCode>>
      BY <2>1, <3>2 DEF IInv, PrefixesInv, Top
    <3> QED
      BY <2>1, <3>1, <3>2
  <2> QED
    BY <2>1, <2>3, <2>4 DEF IInv, AcceptedInv, ChainInv, NoInternalError
<1>14. CASE Finish
  <2>1. /\ UNCHANGED <<input, phase, encoded, codeBits, nextCode, previous, prefixes>>
        /\ phase = "end" /\ result' \in {"ok", "io"}
    BY <1>14 DEF Finish, Return, tableVars
  <2> QED
    BY <2>1 DEF IInv, CountersInv, PrefixesInv, AcceptedInv, ChainInv, NoInternalError, Top
<1>15. CASE Interrupt
  <2>1. /\ UNCHANGED <<input, phase, encoded, codeBits, nextCode, previous, prefixes,
                       code, traversed>>
        /\ result' = "stopped"
    BY <1>15 DEF Interrupt, Return, tableVars, chainVars
  <2> QED
    BY <2>1 DEF IInv, CountersInv, PrefixesInv, AcceptedInv, ChainInv, NoInternalError, Top
<1>16. CASE UNCHANGED vars
  BY <1>16 DEF vars, tableVars, chainVars, IInv, CountersInv, PrefixesInv, AcceptedInv,
               ChainInv, NoInternalError, Top
<1> QED
  BY <1>4, <1>5, <1>6, <1>7, <1>8, <1>9, <1>10, <1>11, <1>12, <1>13, <1>14, <1>15, <1>16
     DEF Next, Step

\* For no payload does decode_lzw report a cycle of prefixes or a prefix that
\* is not available: its two checks are never the ones to fail.
THEOREM DecoderNoInternalError == Spec => []NoInternalError
<1>1. IInv => NoInternalError
  BY DEF IInv
<1> QED
  BY <1>1, InitIInv, NextIInv, PTL DEF Spec
-----------------------------------------------------------------------------
(***************************************************************************)
(* The refinement: symbols, buffer, and what a code stands for             *)
(***************************************************************************)
\* The bytes.
Symbols == 0 .. Literals - 1

\* The recursion of Chain, for the codes below m.
ChainEntry(g, p, s, n, c) ==
  IF c < Literals \/ c >= n \/ p[c] >= c THEN <<s[c]>> ELSE Append(g[p[c]], s[c])

IsChain(g, p, s, n, m) == g = [c \in 0 .. m - 1 |-> ChainEntry(g, p, s, n, c)]

\* The first n entries of both tables are the same.
Agree(p, s, q, t, n) == \A c \in 0 .. n - 1 : p[c] \in Nat /\ q[c] = p[c] /\ t[c] = s[c]

ChainOf(p, s, n, m) == CHOOSE g : IsChain(g, p, s, n, m)

\* What is written consists of symbols, and the buffer has room for more.
SuffixInv ==
  /\ suffixes \in [0 .. Top - 1 -> Symbols]
  /\ \A c \in Symbols : suffixes[c] = c

BufferInv ==
  /\ firstChar \in Symbols
  /\ expansion \in Seq(Symbols)
  /\ pending \in Seq(Symbols) /\ buffer \in Seq(Symbols) /\ out \in Seq(Symbols)
  /\ Len(buffer) <= IoChunk /\ (phase # "full" => Len(buffer) < IoChunk)
  /\ pending # << >> => Writing

\* The string that the code under way stands for.
StringOf ==
  IF encoded = nextCode THEN Append(Chain[previous], firstChar) ELSE Chain[encoded]

\* firstChar is the first symbol of the string before, and then of this one; the
\* expansion is what the traversal has passed of the string, backwards.
MeaningInv ==
  /\ phase \in {"loop", "code", "chain"} /\ previous # None =>
       firstChar = Head(Chain[previous])
  /\ phase \in {"chain", "write", "full"} => ~ IsClear
  /\ phase = "chain" => Chain[code] \o Reverse(expansion) = StringOf
  /\ Writing /\ previous # None =>
       Reverse(expansion) = StringOf /\ firstChar = Head(StringOf)
  /\ Writing /\ previous = None => firstChar = encoded

(***************************************************************************)
(* Sequences                                                               *)
(***************************************************************************)
LEMMA ReverseType ==
  ASSUME NEW S, NEW s \in Seq(S)
  PROVE  /\ Reverse(s) \in Seq(S) /\ Len(Reverse(s)) = Len(s)
         /\ \A i \in 1 .. Len(s) : Reverse(s)[i] = s[Len(s) - i + 1]
  <1> DEFINE n == Len(s)
  <1>1. n \in Nat /\ \A i \in 1 .. n : s[i] \in S
    BY LenProperties, ElementOfSeq
  <1> HIDE DEF n
  <1>2. \A i \in 1 .. n : n - i + 1 \in 1 .. n
    BY <1>1
  <1>3. Reverse(s) = [i \in 1 .. n |-> s[n - i + 1]]
    BY DEF Reverse, n
  <1>4. \A i \in 1 .. n : s[n - i + 1] \in S
    BY <1>1, <1>2
  <1>5. Reverse(s) \in [1 .. n -> S]
    BY <1>3, <1>4
  <1>6. Reverse(s) \in Seq(S) /\ Len(Reverse(s)) = n
    BY <1>1, <1>5
  <1>7. \A i \in 1 .. n : Reverse(s)[i] = s[n - i + 1]
    BY <1>3
  <1> QED
    BY <1>6, <1>7 DEF n

LEMMA ReverseEmpty ==
  Reverse(<< >>) = << >>
  <1>1. Len(<< >>) = 0 /\ 1 .. 0 = {}
    OBVIOUS
  <1>2. Reverse(<< >>) = [i \in 1 .. 0 |-> << >>[0 - i + 1]]
    BY <1>1 DEF Reverse
  <1>3. << >> \in Seq({})
    OBVIOUS
  <1>4. Reverse(<< >>) \in Seq({}) /\ Len(Reverse(<< >>)) = 0
    BY <1>1, <1>3, ReverseType
  <1> QED
    BY <1>4, EmptySeq

LEMMA ReverseAppend ==
  ASSUME NEW S, NEW s \in Seq(S), NEW e \in S
  PROVE  Reverse(Append(s, e)) = <<e>> \o Reverse(s)
  <1> DEFINE t == Append(s, e)
             l == Reverse(t)
             r == <<e>> \o Reverse(s)
             n == Len(s)
  <1>1. n \in Nat
    BY LenProperties
  <1>2. t \in Seq(S) /\ Len(t) = n + 1 /\ (\A i \in 1 .. n : t[i] = s[i]) /\ t[n + 1] = e
    BY AppendProperties
  <1>3. /\ l \in Seq(S) /\ Len(l) = Len(t)
        /\ \A i \in 1 .. Len(t) : l[i] = t[Len(t) - i + 1]
    <2> HIDE DEF t
    <2> QED
      BY <1>2, ReverseType
  <1>4. /\ Reverse(s) \in Seq(S) /\ Len(Reverse(s)) = n
        /\ \A i \in 1 .. n : Reverse(s)[i] = s[n - i + 1]
    BY ReverseType
  <1>5. <<e>> \in Seq(S) /\ Len(<<e>>) = 1 /\ <<e>>[1] = e
    OBVIOUS
  <1>6. /\ r \in Seq(S) /\ Len(r) = Len(<<e>>) + Len(Reverse(s))
        /\ \A i \in 1 .. Len(<<e>>) + Len(Reverse(s)) :
             r[i] = IF i <= Len(<<e>>) THEN <<e>>[i] ELSE Reverse(s)[i - Len(<<e>>)]
    BY <1>4, <1>5, ConcatProperties
  <1> HIDE DEF t, l, r, n
  <1>7. \A i \in 1 .. Len(l) : l[i] = r[i]
    <2> TAKE i \in 1 .. Len(l)
    <2>1. i \in 1 .. n + 1
      BY <1>2, <1>3
    <2>2. l[i] = t[n + 1 - i + 1]
      <3>1. i \in 1 .. Len(t) /\ Len(t) = n + 1
        BY <1>2, <1>3
      <3>2. l[i] = t[Len(t) - i + 1]
        BY <1>3, <3>1
      <3>3. Len(t) - i + 1 = n + 1 - i + 1
        BY <1>1, <3>1
      <3> QED
        BY <3>2, <3>3
    <2>3. i \in 1 .. Len(<<e>>) + Len(Reverse(s))
      BY <1>1, <1>4, <1>5, <2>1
    <2>4. r[i] = IF i <= 1 THEN <<e>>[i] ELSE Reverse(s)[i - 1]
      BY <1>5, <1>6, <2>3
    <2>5. CASE i = 1
      <3>1. n + 1 - i + 1 = n + 1
        BY <1>1, <2>5
      <3> QED
        BY <1>2, <1>5, <2>2, <2>4, <2>5, <3>1
    <2>6. CASE i # 1
      <3>1. i - 1 \in 1 .. n /\ ~ i <= 1 /\ n - (i - 1) + 1 = n + 1 - i + 1
            /\ n + 1 - i + 1 \in 1 .. n
        BY <1>1, <2>1, <2>6
      <3>2. r[i] = s[n - (i - 1) + 1]
        BY <1>4, <2>4, <3>1
      <3>3. t[n + 1 - i + 1] = s[n + 1 - i + 1]
        BY <1>2, <3>1
      <3> QED
        BY <2>2, <3>1, <3>2, <3>3
    <2> QED
      BY <2>5, <2>6
  <1>8. Len(l) = Len(r)
    BY <1>1, <1>2, <1>3, <1>4, <1>5, <1>6
  <1>9. l = r
    BY <1>3, <1>6, <1>7, <1>8, SeqEqual
  <1> QED
    BY <1>9 DEF l, r, t

\* A symbol moves from one part to the other.
LEMMA MoveSymbol ==
  ASSUME NEW S, NEW a \in Seq(S), NEW e \in S, NEW b \in Seq(S)
  PROVE  Append(a, e) \o b = a \o (<<e>> \o b)
  <1>1. <<e>> \in Seq(S)
    OBVIOUS
  <1>2. Append(a, e) = a \o <<e>>
    BY AppendIsConcat
  <1>3. (a \o <<e>>) \o b = a \o (<<e>> \o b)
    BY <1>1, ConcatAssociative
  <1> QED
    BY <1>2, <1>3

\* The third of four parts joins the second or the fourth.
Moves(o, u, a, b) == (o \o (u \o a)) \o b = (o \o u) \o (a \o b)

LEMMA MovePart ==
  \A o, u, a, b \in Seq(Symbols) : Moves(o, u, a, b)
  <1> DEFINE Cat(x, y) == x \o y
             T == Seq(Symbols)
  <1>1. ASSUME NEW x \in T, NEW y \in T PROVE Cat(x, y) \in T
    BY ConcatProperties
  <1>2. ASSUME NEW x \in T, NEW y \in T, NEW z \in T
        PROVE  Cat(Cat(x, y), z) = Cat(x, Cat(y, z))
    BY ConcatAssociative
  <1> SUFFICES ASSUME NEW o \in T, NEW u \in T, NEW a \in T, NEW b \in T
               PROVE  Cat(Cat(o, Cat(u, a)), b) = Cat(Cat(o, u), Cat(a, b))
    BY DEF Moves
  <1> HIDE DEF Cat, T
  <1>3. Cat(o, u) \in T /\ Cat(u, a) \in T
    BY <1>1
  <1>4. Cat(Cat(o, u), a) = Cat(o, Cat(u, a))
    BY <1>2
  <1>5. Cat(Cat(Cat(o, u), a), b) = Cat(Cat(o, u), Cat(a, b))
    BY <1>2, <1>3
  <1> QED
    BY <1>4, <1>5

LEMMA HeadIs ==
  ASSUME NEW S, NEW a \in Seq(S), NEW e \in S
  PROVE  /\ Head(<<e>> \o a) = e
         /\ a # << >> => Head(Append(a, e)) = Head(a)
  <1>1. Append(<< >>, e) = <<e>> /\ << >> \in Seq(S) /\ <<e>> \in Seq(S) /\ Len(<<e>>) = 1
        /\ <<e>>[1] = e
    OBVIOUS
  <1>2. /\ <<e>> \o a \in Seq(S)
        /\ Len(<<e>> \o a) = Len(<<e>>) + Len(a)
        /\ \A i \in 1 .. Len(<<e>>) + Len(a) :
             (<<e>> \o a)[i] = IF i <= Len(<<e>>) THEN <<e>>[i] ELSE a[i - Len(<<e>>)]
    BY <1>1, ConcatProperties
  <1>3. Len(a) \in Nat
    BY LenProperties
  <1>4. 1 \in 1 .. Len(<<e>>) + Len(a) /\ 1 <= Len(<<e>>)
    BY <1>1, <1>3
  <1>5. (<<e>> \o a)[1] = e
    BY <1>1, <1>2, <1>4
  <1>6. Head(<<e>> \o a) = (<<e>> \o a)[1]
    BY <1>1, <1>2, <1>3
  <1>7. a # << >> => Head(Append(a, e)) = Head(a)
    BY HeadTailAppend
  <1> QED
    BY <1>5, <1>6, <1>7
-----------------------------------------------------------------------------
(***************************************************************************)
(* The strings of the codes                                                *)
(***************************************************************************)

\* The recursion descends, so there is such a function.
LEMMA ChainExists ==
  ASSUME NEW p, NEW s, NEW n, NEW top \in Nat, \A c \in 0 .. top - 1 : p[c] \in Nat
  PROVE  IsChain(ChainOf(p, s, n, top), p, s, n, top)
  <1> DEFINE Literal(c) == c < Literals \/ c >= n \/ p[c] >= c
             N == {m \in Nat : m <= top => \E g : IsChain(g, p, s, n, m)}
  <1>1. 0 \in N
    <2>1. 0 .. 0 - 1 = {}
      OBVIOUS
    <2>2. IsChain([c \in {} |-> 0], p, s, n, 0)
      BY <2>1 DEF IsChain, ChainEntry
    <2> QED
      BY <2>2
  <1>2. ASSUME NEW m \in Nat, m \in N PROVE m + 1 \in N
    <2> SUFFICES ASSUME m + 1 <= top PROVE \E h : IsChain(h, p, s, n, m + 1)
      OBVIOUS
    <2>1. PICK g : IsChain(g, p, s, n, m)
      BY <1>2
    <2> DEFINE h == [c \in 0 .. m |->
                       IF c < m THEN g[c]
                       ELSE IF Literal(c) THEN <<s[c]>> ELSE Append(g[p[c]], s[c])]
    <2>2. ASSUME NEW c \in 0 .. m
          PROVE  h[c] = IF Literal(c) THEN <<s[c]>> ELSE Append(h[p[c]], s[c])
      <3>1. c \in 0 .. top - 1 /\ p[c] \in Nat /\ c \in Nat
        BY <2>2
      <3>2. ~ Literal(c) => p[c] \in 0 .. m - 1 /\ p[c] \in 0 .. m /\ p[c] < m
        BY <2>2, <3>1
      <3>3. ~ Literal(c) => h[p[c]] = g[p[c]]
        <4> HIDE DEF Literal
        <4> QED
          BY <3>2
      <3>4. CASE c < m
        <4>1. c \in 0 .. m - 1
          BY <3>1, <3>4
        <4>2. g[c] = IF Literal(c) THEN <<s[c]>> ELSE Append(g[p[c]], s[c])
          BY <2>1, <4>1 DEF IsChain, ChainEntry
        <4>3. h[c] = g[c]
          BY <3>4
        <4> HIDE DEF h, Literal
        <4> QED
          BY <3>3, <4>2, <4>3
      <3>5. CASE ~ c < m
        <4>1. h[c] = IF Literal(c) THEN <<s[c]>> ELSE Append(g[p[c]], s[c])
          <5> HIDE DEF Literal
          <5> QED
            BY <3>5
        <4> HIDE DEF h, Literal
        <4> QED
          BY <3>3, <4>1
      <3> QED
        BY <3>4, <3>5
    <2>3. 0 .. m + 1 - 1 = 0 .. m
      OBVIOUS
    <2>4. IsChain(h, p, s, n, m + 1)
      <3>1. \A c \in 0 .. m : h[c] = ChainEntry(h, p, s, n, c)
        <4> HIDE DEF h
        <4> QED
          BY <2>2 DEF ChainEntry
      <3>2. h = [c \in 0 .. m |-> h[c]]
        OBVIOUS
      <3> HIDE DEF h
      <3>3. h = [c \in 0 .. m |-> ChainEntry(h, p, s, n, c)]
        BY <3>1, <3>2
      <3> QED
        BY <2>3, <3>3 DEF IsChain
    <2> QED
      BY <2>4
  <1> HIDE DEF N
  <1>3. top \in N
    BY <1>1, <1>2, SetInduction
  <1>4. \E g : IsChain(g, p, s, n, top)
    BY <1>3 DEF N
  <1> QED
    BY <1>4 DEF ChainOf

\* Strings are not empty.
LEMMA ChainType ==
  ASSUME NEW S, NEW p, NEW s, NEW n \in Nat, NEW top \in Nat, n <= top, NEW g,
         \A c \in 0 .. top - 1 : p[c] \in Nat /\ s[c] \in S, IsChain(g, p, s, n, top)
  PROVE  \A c \in 0 .. top - 1 : g[c] \in Seq(S) /\ g[c] # << >>
  <1> DEFINE Bad == {c \in 0 .. top - 1 : ~ (g[c] \in Seq(S) /\ g[c] # << >>)}
  <1> SUFFICES ASSUME Bad # {} PROVE FALSE
    OBVIOUS
  <1>1. Bad \in SUBSET Nat
    OBVIOUS
  <1>2. PICK c \in Bad : \A d \in Bad : c <= d
    <2> HIDE DEF Bad
    <2> QED
      BY <1>1, LeastElement
  <1>3. c \in 0 .. top - 1 /\ ~ (g[c] \in Seq(S) /\ g[c] # << >>) /\ c \in Nat
    BY <1>2
  <1>4. g[c] = IF c < Literals \/ c >= n \/ p[c] >= c THEN <<s[c]>>
               ELSE Append(g[p[c]], s[c])
    BY <1>3 DEF IsChain, ChainEntry
  <1>5. s[c] \in S /\ p[c] \in Nat
    BY <1>3
  <1>6. CASE c < Literals \/ c >= n \/ p[c] >= c
    <2>1. <<s[c]>> \in Seq(S) /\ <<s[c]>> # << >>
      BY <1>5
    <2> QED
      BY <1>3, <1>4, <1>6, <2>1
  <1>7. CASE ~ (c < Literals \/ c >= n \/ p[c] >= c)
    <2>1. p[c] < c /\ p[c] \in 0 .. top - 1
      BY <1>3, <1>5, <1>7
    <2>2. p[c] \notin Bad
      BY <1>2, <1>3, <1>5, <2>1
    <2>3. g[p[c]] \in Seq(S)
      BY <2>1, <2>2
    <2>4. Append(g[p[c]], s[c]) \in Seq(S) /\ Append(g[p[c]], s[c]) # << >>
      BY <1>5, <2>3, AppendProperties
    <2> QED
      BY <1>3, <1>4, <1>7, <2>4
  <1> QED
    BY <1>6, <1>7

\* More entries leave the strings of those before as they are.
LEMMA ChainFrame ==
  ASSUME NEW p, NEW s, NEW q, NEW t, NEW n \in Nat, NEW k \in Nat, NEW top \in Nat,
         n <= k, k <= top, NEW g, NEW h,
         Agree(p, s, q, t, n), IsChain(g, p, s, n, top), IsChain(h, q, t, k, top)
  PROVE  \A c \in 0 .. n - 1 : h[c] = g[c]
  <1> DEFINE Bad == {c \in 0 .. n - 1 : h[c] # g[c]}
  <1> SUFFICES ASSUME Bad # {} PROVE FALSE
    OBVIOUS
  <1>1. Bad \in SUBSET Nat
    OBVIOUS
  <1>2. PICK c \in Bad : \A d \in Bad : c <= d
    <2> HIDE DEF Bad
    <2> QED
      BY <1>1, LeastElement
  <1>3. c \in 0 .. n - 1 /\ h[c] # g[c] /\ c \in 0 .. top - 1 /\ c \in Nat /\ ~ c >= n /\ ~ c >= k
    BY <1>2
  <1>4. p[c] \in Nat /\ q[c] = p[c] /\ t[c] = s[c]
    BY <1>3 DEF Agree
  <1>5. g[c] = IF c < Literals \/ c >= n \/ p[c] >= c THEN <<s[c]>>
               ELSE Append(g[p[c]], s[c])
    BY <1>3 DEF IsChain, ChainEntry
  <1>6. h[c] = IF c < Literals \/ c >= k \/ q[c] >= c THEN <<t[c]>>
               ELSE Append(h[q[c]], t[c])
    BY <1>3 DEF IsChain, ChainEntry
  <1>7. CASE c < Literals \/ p[c] >= c
    BY <1>3, <1>4, <1>5, <1>6, <1>7
  <1>8. CASE ~ (c < Literals \/ p[c] >= c)
    <2>1. p[c] < c /\ p[c] \in 0 .. n - 1
      BY <1>3, <1>4, <1>8
    <2>2. p[c] \notin Bad
      BY <1>2, <1>3, <1>4, <2>1
    <2>3. h[p[c]] = g[p[c]]
      BY <2>1, <2>2
    <2> QED
      BY <1>3, <1>4, <1>5, <1>6, <1>8, <2>3
  <1> QED
    BY <1>7, <1>8
-----------------------------------------------------------------------------
(***************************************************************************)
(* The states of the decoder                                               *)
(***************************************************************************)
LEMMA TableSizes ==
  ASSUME IInv
  PROVE  /\ Literals \in Nat \ {0} /\ Top \in Nat /\ Literals <= Top
         /\ FirstCode(input) \in {Literals, Literals + 1}
         /\ FirstCode(input) \in Nat /\ FirstCode(input) <= nextCode
         /\ nextCode \in Nat /\ nextCode <= Top /\ Literals <= nextCode
         /\ encoded \in 0 .. Top - 1
         /\ previous \in {None} \cup 0 .. nextCode - 1
         /\ input \in Inputs
  <1>1. input \in Inputs
    BY DEF IInv, CountersInv
  <1>2. /\ Literals \in Nat \ {0} /\ Top \in Nat
        /\ FirstCode(input) \in {Literals, Literals + 1}
        /\ FirstCode(input) <= Top
    BY <1>1, InputSizes DEF Top
  <1>3. /\ nextCode \in FirstCode(input) .. Top
        /\ encoded \in 0 .. Top - 1
        /\ previous \in {None} \cup 0 .. nextCode - 1
    BY DEF IInv, CountersInv
  <1> QED
    BY <1>1, <1>2, <1>3

LEMMA ChainIs ==
  /\ Chain = ChainOf(prefixes, suffixes, nextCode, Top)
  /\ Chain' = ChainOf(prefixes', suffixes', nextCode', Top')
  BY DEF Chain, ChainOf, IsChain, ChainEntry, Top

LEMMA ChainIsChain ==
  ASSUME IInv
  PROVE  /\ IsChain(Chain, prefixes, suffixes, nextCode, Top)
         /\ \A c \in 0 .. Top - 1 : prefixes[c] \in Nat
  <1>1. Top \in Nat
    BY TableSizes
  <1>2. \A c \in 0 .. Top - 1 : prefixes[c] \in Nat
    BY <1>1 DEF IInv, PrefixesInv
  <1> QED
    BY <1>1, <1>2, ChainExists, ChainIs

LEMMA ChainFacts ==
  ASSUME IInv, SuffixInv
  PROVE  /\ \A c \in 0 .. Top - 1 : Chain[c] \in Seq(Symbols) /\ Chain[c] # << >>
         /\ \A c \in Symbols : Chain[c] = <<c>>
         /\ \A c \in Literals .. nextCode - 1 :
              Chain[c] = Append(Chain[prefixes[c]], suffixes[c])
  <1>1. /\ Literals \in Nat \ {0} /\ Top \in Nat /\ Literals <= Top
        /\ nextCode \in Nat /\ nextCode <= Top
    BY TableSizes
  <1>2. /\ IsChain(Chain, prefixes, suffixes, nextCode, Top)
        /\ \A c \in 0 .. Top - 1 : prefixes[c] \in Nat
    BY ChainIsChain
  <1>3. \A c \in 0 .. Top - 1 : suffixes[c] \in Symbols
    BY DEF SuffixInv
  <1>4. \A c \in 0 .. Top - 1 : Chain[c] \in Seq(Symbols) /\ Chain[c] # << >>
    BY <1>1, <1>2, <1>3, ChainType
  <1>5. \A c \in 0 .. Top - 1 :
          Chain[c] = IF c < Literals \/ c >= nextCode \/ prefixes[c] >= c
                     THEN <<suffixes[c]>> ELSE Append(Chain[prefixes[c]], suffixes[c])
    BY <1>2 DEF IsChain, ChainEntry
  <1>6. ASSUME NEW c \in Symbols PROVE Chain[c] = <<c>>
    <2>1. c \in 0 .. Top - 1 /\ c < Literals
      BY <1>1 DEF Symbols
    <2>2. suffixes[c] = c
      BY DEF SuffixInv
    <2> QED
      BY <1>5, <2>1, <2>2
  <1>7. ASSUME NEW c \in Literals .. nextCode - 1
        PROVE  Chain[c] = Append(Chain[prefixes[c]], suffixes[c])
    <2>1. c \in 0 .. Top - 1 /\ ~ c < Literals /\ ~ c >= nextCode /\ c \in Nat
      BY <1>1
    <2>2. prefixes[c] < c /\ prefixes[c] \in Nat
      BY <1>2, <2>1 DEF IInv, PrefixesInv
    <2>3. ~ prefixes[c] >= c
      BY <2>1, <2>2
    <2> QED
      BY <1>5, <2>1, <2>3
  <1> QED
    BY <1>4, <1>6, <1>7

LEMMA ChainKept ==
  ASSUME UNCHANGED <<input, prefixes, suffixes, nextCode>>
  PROVE  Chain' = Chain
  <1>1. Top' = Top
    BY DEF Top
  <1> QED
    BY <1>1, ChainIs

\* A new entry stands for the string before it and one more symbol.
LEMMA ChainGrows ==
  ASSUME IInv, IInv', SuffixInv, SuffixInv', input' = input,
         previous # None, nextCode < Top, nextCode' = nextCode + 1, firstChar \in Symbols,
         prefixes' = [prefixes EXCEPT ![nextCode] = previous],
         suffixes' = [suffixes EXCEPT ![nextCode] = firstChar]
  PROVE  /\ \A c \in 0 .. nextCode - 1 : Chain'[c] = Chain[c]
         /\ Chain'[nextCode] = Append(Chain[previous], firstChar)
  <1>1. /\ Literals \in Nat \ {0} /\ Top \in Nat /\ Literals <= nextCode
        /\ nextCode \in Nat /\ nextCode + 1 \in Nat /\ nextCode <= nextCode + 1
        /\ nextCode + 1 <= Top /\ nextCode \in 0 .. Top - 1
        /\ previous \in 0 .. nextCode - 1
    BY TableSizes
  <1>2. Top' = Top
    BY DEF Top
  <1>3. /\ IsChain(Chain, prefixes, suffixes, nextCode, Top)
        /\ \A c \in 0 .. Top - 1 : prefixes[c] \in Nat
    BY ChainIsChain
  <1>4. DOMAIN prefixes = 0 .. Top - 1 /\ DOMAIN suffixes = 0 .. Top - 1
    BY DEF IInv, PrefixesInv, SuffixInv
  <1>5. /\ \A c \in 0 .. nextCode - 1 :
             prefixes[c] \in Nat /\ prefixes'[c] = prefixes[c] /\ suffixes'[c] = suffixes[c]
        /\ prefixes'[nextCode] = previous /\ suffixes'[nextCode] = firstChar
    <2>1. \A c \in 0 .. nextCode - 1 : c \in 0 .. Top - 1 /\ c # nextCode
      BY <1>1
    <2> QED
      BY <1>1, <1>3, <1>4, <2>1
  <1>6. \A c \in 0 .. Top - 1 : prefixes'[c] \in Nat
    <2> TAKE c \in 0 .. Top - 1
    <2>1. prefixes'[c] = IF c = nextCode THEN previous ELSE prefixes[c]
      BY <1>4
    <2> QED
      BY <1>1, <1>3, <2>1
  <1>7. IsChain(Chain', prefixes', suffixes', nextCode + 1, Top)
    <2>1. IsChain(ChainOf(prefixes', suffixes', nextCode + 1, Top),
                  prefixes', suffixes', nextCode + 1, Top)
      BY <1>1, <1>6, ChainExists
    <2>2. Chain' = ChainOf(prefixes', suffixes', nextCode + 1, Top)
      BY <1>2, ChainIs
    <2> QED
      BY <2>1, <2>2
  <1>8. \A c \in 0 .. nextCode - 1 : Chain'[c] = Chain[c]
    <2>1. PICK n, k, top, p, s, g, q, t, h :
            /\ n = nextCode /\ k = nextCode + 1 /\ top = Top /\ p = prefixes /\ s = suffixes /\ g = Chain
            /\ q = prefixes' /\ t = suffixes' /\ h = Chain'
      OBVIOUS
    <2>2. /\ n \in Nat /\ k \in Nat /\ top \in Nat /\ n <= k /\ k <= top
          /\ Agree(p, s, q, t, n)
          /\ IsChain(g, p, s, n, top) /\ IsChain(h, q, t, k, top)
      BY <1>1, <1>3, <1>5, <1>7, <2>1 DEF Agree
    <2>3. \A c \in 0 .. n - 1 : h[c] = g[c]
      BY <2>2, ChainFrame
    <2> QED
      BY <2>1, <2>3
  <1>9. Chain'[nextCode] = Append(Chain'[previous], firstChar)
    <2>1. Chain'[nextCode] = IF \/ nextCode < Literals \/ nextCode >= nextCode + 1
                                \/ prefixes'[nextCode] >= nextCode
                             THEN <<suffixes'[nextCode]>>
                             ELSE Append(Chain'[prefixes'[nextCode]], suffixes'[nextCode])
      BY <1>1, <1>7 DEF IsChain, ChainEntry
    <2> QED
      BY <1>1, <1>5, <2>1
  <1> QED
    BY <1>1, <1>8, <1>9
-----------------------------------------------------------------------------
(***************************************************************************)
(* The symbols, the buffer and the strings, step by step                   *)
(***************************************************************************)
LEMMA InitText ==
  Init => SuffixInv /\ BufferInv /\ MeaningInv
  <1> SUFFICES ASSUME Init PROVE SuffixInv /\ BufferInv /\ MeaningInv
    OBVIOUS
  <1>1. IInv
    BY InitIInv
  <1>2. Literals \in Nat \ {0} /\ Top \in Nat /\ Literals <= Top
    BY <1>1, TableSizes
  <1>3. SuffixInv
    BY <1>2 DEF SuffixInv, Symbols, Init, Top
  <1>4. BufferInv
    BY <1>2, ChunksAssumption DEF BufferInv, Symbols, Init
  <1>5. MeaningInv
    BY DEF MeaningInv, Init, Writing
  <1> QED
    BY <1>3, <1>4, <1>5

LEMMA NextSuffix ==
  ASSUME IInv, SuffixInv, BufferInv, [Next]_vars
  PROVE  SuffixInv'
  <1>1. CASE /\ suffixes' = [suffixes EXCEPT ![nextCode] = firstChar]
             /\ input' = input
    <2>1. /\ Literals \in Nat /\ Literals <= nextCode /\ nextCode \in Nat
          /\ firstChar \in Symbols
      BY TableSizes DEF BufferInv
    <2>2. Top' = Top
      BY <1>1 DEF Top
    <2>3. suffixes' \in [0 .. Top - 1 -> Symbols]
      BY <1>1, <2>1 DEF SuffixInv
    <2>4. ASSUME NEW c \in Symbols PROVE suffixes'[c] = c
      <3>1. c # nextCode
        BY <2>1 DEF Symbols
      <3>2. suffixes[c] = c
        BY DEF SuffixInv
      <3>3. DOMAIN suffixes' = 0 .. Top - 1 /\ DOMAIN suffixes = 0 .. Top - 1
        BY <2>3 DEF SuffixInv
      <3>4. c \in 0 .. Top - 1
        BY TableSizes DEF Symbols
      <3> QED
        BY <1>1, <3>1, <3>2, <3>3, <3>4
    <2>5. Symbols' = Symbols
      BY DEF Symbols
    <2> QED
      BY <2>2, <2>3, <2>4, <2>5 DEF SuffixInv
  <1>2. CASE UNCHANGED <<input, suffixes>>
    BY <1>2 DEF SuffixInv, Symbols, Top
  <1>3. \/ /\ suffixes' = [suffixes EXCEPT ![nextCode] = firstChar]
           /\ input' = input
        \/ UNCHANGED <<input, suffixes>>
    BY DEF Next, Step, EndOfInput, ReadCode, Clear, FirstLiteral, StartChain, Traverse,
           EndChain, CopyOutput, FlushFull, AddEntry, Finish, Interrupt, vars, tableVars
  <1> QED
    BY <1>1, <1>2, <1>3

\* One turn of buffer_output fits into the buffer and loses nothing.
LEMMA CopyMoves ==
  ASSUME BufferInv, phase = "write", pending # << >>
  PROVE  /\ CopyCount \in 0 .. Len(pending)
         /\ Len(buffer) + CopyCount <= IoChunk
         /\ SubSeq(pending, 1, CopyCount) \in Seq(Symbols)
         /\ SubSeq(pending, CopyCount + 1, Len(pending)) \in Seq(Symbols)
         /\ Len(SubSeq(pending, 1, CopyCount)) = CopyCount
         /\ SubSeq(pending, 1, CopyCount) \o SubSeq(pending, CopyCount + 1, Len(pending))
              = pending
  <1>1. /\ pending \in Seq(Symbols) /\ buffer \in Seq(Symbols) /\ Len(buffer) < IoChunk
        /\ Len(pending) \in Nat /\ Len(buffer) \in Nat
    BY LenProperties DEF BufferInv
  <1>2. IoChunk \in Nat /\ ControlChunk \in Nat
    BY ChunksAssumption
  <1>3. CopyCount \in 0 .. Len(pending) /\ Len(buffer) + CopyCount <= IoChunk
    BY <1>1, <1>2 DEF CopyCount, Smaller
  <1>4. PICK n : n = CopyCount
    OBVIOUS
  <1>5. n \in 0 .. Len(pending) /\ n \in Nat
    BY <1>1, <1>3, <1>4
  <1>6. SubSeq(pending, 1, n) \in Seq(Symbols) /\ Len(SubSeq(pending, 1, n)) = n
    <2>1. \A i \in 1 .. n : pending[i] \in Symbols
      BY <1>1, <1>5, ElementOfSeq
    <2> QED
      BY <1>1, <1>5, <2>1, SubSeqProperties
  <1>7. SubSeq(pending, n + 1, Len(pending)) \in Seq(Symbols)
    <2>1. \A i \in n + 1 .. Len(pending) : pending[i] \in Symbols
      BY <1>1, <1>5, ElementOfSeq
    <2> QED
      BY <1>1, <1>5, <2>1, SubSeqProperties
  <1>8. SubSeq(pending, 1, n) \o SubSeq(pending, n + 1, Len(pending)) = pending
    <2>1. /\ 1 \in 1 .. Len(pending) + 1 /\ n \in 1 - 1 .. Len(pending)
          /\ Len(pending) \in n .. Len(pending)
      BY <1>1, <1>5
    <2>2. SubSeq(pending, 1, n) \o SubSeq(pending, n + 1, Len(pending))
            = SubSeq(pending, 1, Len(pending))
      BY <1>1, <2>1, ConcatAdjacentSubSeq
    <2> QED
      BY <1>1, <2>2, SubSeqFull
  <1> QED
    BY <1>3, <1>4, <1>6, <1>7, <1>8

LEMMA NextBuffer ==
  ASSUME IInv, SuffixInv, BufferInv, [Next]_vars
  PROVE  BufferInv'
  <1> USE DEF Goto, Return, readerVars, tableVars, chainVars, outVars
  <1>0. /\ Literals \in Nat \ {0} /\ Top \in Nat /\ Literals <= nextCode /\ nextCode \in Nat
        /\ encoded \in 0 .. Top - 1 /\ nextCode <= Top
    BY TableSizes
  <1>1. CASE EndOfInput \/ ReadCode \/ Interrupt \/ UNCHANGED vars
    BY <1>1 DEF EndOfInput, ReadCode, Interrupt, vars, BufferInv, Writing, Symbols
  <1>2. CASE Clear
    BY <1>2 DEF Clear, BufferInv, Writing, Symbols
  <1>3. CASE FirstLiteral
    <2>1. encoded < Literals => encoded \in Symbols /\ <<encoded>> \in Seq(Symbols)
      BY <1>0 DEF Symbols
    <2> QED
      BY <1>3, <2>1 DEF FirstLiteral, BufferInv, Writing, Symbols
  <1>4. CASE StartChain
    <2>1. firstChar \in Symbols /\ <<firstChar>> \in Seq(Symbols)
      BY DEF BufferInv
    <2> QED
      BY <1>4, <2>1 DEF StartChain, BufferInv, Writing, Symbols
  <1>5. CASE Traverse
    <2>1. code \in 0 .. nextCode - 1
      BY <1>5 DEF Traverse, IInv, ChainInv
    <2>2. suffixes[code] \in Symbols
      BY <1>0, <2>1 DEF SuffixInv
    <2>3. expansion \in Seq(Symbols) /\ Append(expansion, suffixes[code]) \in Seq(Symbols)
      BY <2>2, AppendProperties DEF BufferInv
    <2>4. expansion' \in Seq(Symbols)
      BY <1>5, <2>3 DEF Traverse
    <2> QED
      BY <1>5, <2>4 DEF Traverse, BufferInv, Writing, Symbols
  <1>6. CASE EndChain
    <2>1. code \in Symbols
      BY <1>0, <1>6 DEF EndChain, IInv, ChainInv, Symbols
    <2>2. Append(expansion, code) \in Seq(Symbols)
      BY <2>1, AppendProperties DEF BufferInv
    <2>3. Reverse(Append(expansion, code)) \in Seq(Symbols)
      BY <2>2, ReverseType
    <2>4. /\ firstChar' = code /\ expansion' = Append(expansion, code)
          /\ pending' = Reverse(Append(expansion, code)) /\ phase = "chain" /\ phase' = "write"
          /\ UNCHANGED <<buffer, out>>
      BY <1>6 DEF EndChain
    <2> QED
      BY <2>1, <2>2, <2>3, <2>4 DEF BufferInv, Writing, Symbols
  <1>7. CASE CopyOutput
    <2>1. CASE UNCHANGED <<pending, buffer, phase>>
      BY <1>7, <2>1 DEF CopyOutput, BufferInv, Writing, Symbols
    <2>2. CASE /\ buffer' = buffer \o SubSeq(pending, 1, CopyCount)
               /\ pending' = SubSeq(pending, CopyCount + 1, Len(pending))
               /\ phase' = IF Len(buffer') = IoChunk THEN "full" ELSE "write"
      <3>1. phase = "write" /\ pending # << >> /\ UNCHANGED <<out, expansion, firstChar>>
        BY <1>7 DEF CopyOutput
      <3>2. /\ CopyCount \in 0 .. Len(pending)
            /\ Len(buffer) + CopyCount <= IoChunk
            /\ SubSeq(pending, 1, CopyCount) \in Seq(Symbols)
            /\ SubSeq(pending, CopyCount + 1, Len(pending)) \in Seq(Symbols)
            /\ Len(SubSeq(pending, 1, CopyCount)) = CopyCount
        BY <3>1, CopyMoves
      <3>3. buffer \in Seq(Symbols) /\ Len(buffer) \in Nat /\ Len(pending) \in Nat
        BY LenProperties DEF BufferInv
      <3>4. /\ buffer' \in Seq(Symbols)
            /\ Len(buffer') = Len(buffer) + Len(SubSeq(pending, 1, CopyCount))
        BY <2>2, <3>2, <3>3, ConcatProperties
      <3>5. Len(buffer') <= IoChunk /\ (phase' # "full" => Len(buffer') < IoChunk)
        BY <2>2, <3>2, <3>3, <3>4, ChunksAssumption
      <3>6. pending' \in Seq(Symbols)
        BY <2>2, <3>2
      <3>7. phase' \in {"write", "full"}
        BY <2>2
      <3> QED
        BY <3>1, <3>4, <3>5, <3>6, <3>7 DEF BufferInv, Writing, Symbols
    <2> QED
      BY <1>7, <2>1, <2>2 DEF CopyOutput
  <1>8. CASE FlushFull
    <2>1. (out' = out \o buffer /\ buffer' = << >>) \/ UNCHANGED <<out, buffer, phase>>
      BY <1>8 DEF FlushFull
    <2>2. /\ phase = "full" /\ phase' \in {"full", "write"}
          /\ UNCHANGED <<firstChar, expansion, pending>>
      BY <1>8 DEF FlushFull
    <2>3. /\ out' \in Seq(Symbols) /\ buffer' \in Seq(Symbols)
          /\ Len(buffer') <= IoChunk /\ (phase' # "full" => Len(buffer') < IoChunk)
      <3>1. /\ out \o buffer \in Seq(Symbols) /\ << >> \in Seq(Symbols)
            /\ Len(<< >>) = 0 /\ 0 <= IoChunk /\ 0 < IoChunk
        BY ConcatProperties, ChunksAssumption DEF BufferInv
      <3>2. CASE out' = out \o buffer /\ buffer' = << >>
        BY <3>1, <3>2
      <3>3. CASE UNCHANGED <<out, buffer, phase>>
        BY <3>3 DEF BufferInv
      <3> QED
        BY <2>1, <3>2, <3>3
    <2> QED
      BY <2>2, <2>3 DEF BufferInv, Writing, Symbols
  <1>9. CASE AddEntry
    BY <1>9 DEF AddEntry, BufferInv, Writing, Symbols
  <1>10. CASE Finish
    <2>1. (out' = out \o buffer /\ buffer' = << >>) \/ UNCHANGED <<out, buffer, phase>>
      BY <1>10 DEF Finish
    <2>2. /\ phase = "end" /\ phase' \in {"end", "end"}
          /\ UNCHANGED <<firstChar, expansion, pending>>
      BY <1>10 DEF Finish
    <2>3. /\ out' \in Seq(Symbols) /\ buffer' \in Seq(Symbols)
          /\ Len(buffer') <= IoChunk /\ (phase' # "full" => Len(buffer') < IoChunk)
      <3>1. /\ out \o buffer \in Seq(Symbols) /\ << >> \in Seq(Symbols)
            /\ Len(<< >>) = 0 /\ 0 <= IoChunk /\ 0 < IoChunk
        BY ConcatProperties, ChunksAssumption DEF BufferInv
      <3>2. CASE out' = out \o buffer /\ buffer' = << >>
        BY <3>1, <3>2
      <3>3. CASE UNCHANGED <<out, buffer, phase>>
        BY <3>3 DEF BufferInv
      <3> QED
        BY <2>1, <3>2, <3>3
    <2> QED
      BY <2>2, <2>3 DEF BufferInv, Writing, Symbols
  <1> QED
    BY <1>1, <1>2, <1>3, <1>4, <1>5, <1>6, <1>7, <1>8, <1>9, <1>10 DEF Next, Step

LEMMA StringType ==
  ASSUME IInv, SuffixInv, BufferInv, previous # None
  PROVE  /\ StringOf \in Seq(Symbols) /\ StringOf # << >>
         /\ Chain[previous] \in Seq(Symbols) /\ Chain[previous] # << >>
  <1>1. /\ encoded \in 0 .. Top - 1 /\ previous \in 0 .. Top - 1
    BY TableSizes
  <1>2. \A c \in 0 .. Top - 1 : Chain[c] \in Seq(Symbols) /\ Chain[c] # << >>
    BY ChainFacts
  <1>3. firstChar \in Symbols
    BY DEF BufferInv
  <1>4. /\ Append(Chain[previous], firstChar) \in Seq(Symbols)
        /\ Append(Chain[previous], firstChar) # << >>
    BY <1>1, <1>2, <1>3, AppendProperties
  <1> QED
    BY <1>1, <1>2, <1>4 DEF StringOf

\* As long as the code and the table stay, so does the string.
LEMMA StringKept ==
  ASSUME UNCHANGED <<input, prefixes, suffixes, nextCode, previous, encoded, firstChar>>
  PROVE  Chain' = Chain /\ StringOf' = StringOf /\ IsClear' = IsClear
  <1>1. Chain' = Chain
    BY ChainKept
  <1> QED
    BY <1>1 DEF StringOf, IsClear

\* The chain of a code begins with its whole string to traverse.
LEMMA StartMeaning ==
  ASSUME IInv, SuffixInv, BufferInv, MeaningInv, StartChain
  PROVE  MeaningInv'
  <1>1. /\ Chain' = Chain /\ StringOf' = StringOf /\ IsClear' = IsClear
        /\ UNCHANGED <<firstChar, previous, encoded>>
    BY StringKept DEF StartChain, tableVars
  <1>2. phase = "code" /\ ~ IsClear /\ previous # None /\ firstChar = Head(Chain[previous])
    BY DEF StartChain, MeaningInv
  <1>3. CASE phase' = "code"
    BY <1>1, <1>2, <1>3 DEF MeaningInv, Writing
  <1>4. CASE encoded = nextCode /\ expansion' = <<firstChar>> /\ code' = previous /\ phase' = "chain"
    <2>1. /\ firstChar \in Symbols /\ << >> \in Seq(Symbols)
          /\ Append(<< >>, firstChar) = <<firstChar>> /\ <<firstChar>> \in Seq(Symbols)
      BY DEF BufferInv
    <2>2. Reverse(<<firstChar>>) = <<firstChar>> \o << >>
      BY <2>1, ReverseAppend, ReverseEmpty
    <2>3. <<firstChar>> \o << >> = <<firstChar>>
      BY <2>1, ConcatEmptySeq
    <2>4. Chain[previous] \o <<firstChar>> = Append(Chain[previous], firstChar)
      BY <1>2, <2>1, StringType, AppendIsConcat
    <2>5. Chain[previous] \o Reverse(<<firstChar>>) = StringOf
      BY <1>4, <2>2, <2>3, <2>4 DEF StringOf
    <2> QED
      BY <1>1, <1>2, <1>4, <2>5 DEF MeaningInv, Writing
  <1>5. CASE encoded < nextCode /\ expansion' = << >> /\ code' = encoded /\ phase' = "chain"
    <2>1. encoded # nextCode /\ StringOf = Chain[encoded]
      BY <1>5, TableSizes DEF StringOf
    <2>2. StringOf \o << >> = StringOf
      BY StringType, ConcatEmptySeq
    <2>3. Chain[encoded] \o Reverse(<< >>) = StringOf
      BY <2>1, <2>2, ReverseEmpty
    <2> QED
      BY <1>1, <1>2, <1>5, <2>3 DEF MeaningInv, Writing
  <1> QED
    BY <1>2, <1>3, <1>4, <1>5 DEF StartChain, Goto, Return

\* A step along the prefixes moves the last symbol.
LEMMA TraverseMeaning ==
  ASSUME IInv, SuffixInv, BufferInv, MeaningInv, Traverse
  PROVE  MeaningInv'
  <1>1. /\ Chain' = Chain /\ StringOf' = StringOf /\ IsClear' = IsClear
        /\ UNCHANGED <<firstChar, previous, encoded>>
    BY StringKept DEF Traverse, tableVars
  <1>2. phase = "chain" /\ phase' = "chain" /\ code >= Literals
    BY DEF Traverse, Return
  <1>3. /\ ~ IsClear /\ Chain[code] \o Reverse(expansion) = StringOf
        /\ (previous # None => firstChar = Head(Chain[previous]))
    BY <1>2 DEF MeaningInv
  <1>4. CASE UNCHANGED <<expansion, code>>
    BY <1>1, <1>2, <1>3, <1>4 DEF MeaningInv, Writing
  <1>5. CASE expansion' = Append(expansion, suffixes[code]) /\ code' = prefixes[code]
    <2>1. /\ Literals \in Nat /\ Top \in Nat /\ nextCode \in Nat /\ nextCode <= Top
          /\ code \in 0 .. nextCode - 1
      BY <1>2, TableSizes DEF IInv, ChainInv
    <2>2. /\ code \in Literals .. nextCode - 1 /\ code \in 0 .. Top - 1
      BY <1>2, <2>1
    <2>3. prefixes[code] \in 0 .. Top - 1 /\ suffixes[code] \in Symbols
      BY <2>2 DEF IInv, PrefixesInv, SuffixInv
    <2>4. PICK a, e, b : a = Chain[prefixes[code]] /\ e = suffixes[code] /\ b = Reverse(expansion)
      OBVIOUS
    <2>5. a \in Seq(Symbols) /\ e \in Symbols /\ Chain[code] = Append(a, e)
      BY <2>2, <2>3, <2>4, ChainFacts
    <2>6. expansion \in Seq(Symbols)
      BY DEF BufferInv
    <2>7. b \in Seq(Symbols) /\ Reverse(Append(expansion, e)) = <<e>> \o b
      BY <2>4, <2>5, <2>6, ReverseType, ReverseAppend
    <2>8. Append(a, e) \o b = a \o (<<e>> \o b)
      BY <2>5, <2>7, MoveSymbol
    <2>9. Chain[prefixes[code]] \o Reverse(Append(expansion, suffixes[code])) = StringOf
      BY <1>3, <2>4, <2>5, <2>7, <2>8
    <2>10. Chain'[code'] \o Reverse(expansion') = StringOf'
      BY <1>1, <1>5, <2>9
    <2> QED
      BY <1>1, <1>2, <1>3, <2>10 DEF MeaningInv, Writing
  <1> QED
    BY <1>4, <1>5 DEF Traverse

\* What the traversal has collected is the whole string, and the symbol it has
\* come to is its first.
LEMMA EndMeaning ==
  ASSUME IInv, SuffixInv, BufferInv, MeaningInv, EndChain
  PROVE  /\ MeaningInv'
         /\ previous # None /\ ~ IsClear /\ firstChar = Head(Chain[previous])
         /\ Chain' = Chain /\ StringOf' = StringOf
         /\ Reverse(expansion') = StringOf /\ firstChar' = Head(StringOf)
  <1>1. /\ phase = "chain" /\ phase' = "write" /\ code < Literals
        /\ firstChar' = code /\ expansion' = Append(expansion, code)
        /\ UNCHANGED <<input, prefixes, suffixes, nextCode, previous, encoded>>
    BY DEF EndChain, Goto
  <1>2. previous # None /\ code \in Symbols /\ code \in 0 .. Top - 1
    BY <1>1, TableSizes DEF IInv, ChainInv, Symbols
  <1>3. /\ ~ IsClear /\ Chain[code] \o Reverse(expansion) = StringOf
        /\ firstChar = Head(Chain[previous])
    BY <1>1, <1>2 DEF MeaningInv
  <1>4. Chain[code] = <<code>>
    BY <1>2, ChainFacts
  <1>5. expansion \in Seq(Symbols) /\ Reverse(expansion) \in Seq(Symbols)
    BY ReverseType DEF BufferInv
  <1>6. Reverse(expansion') = StringOf
    <2>1. Reverse(Append(expansion, code)) = <<code>> \o Reverse(expansion)
      BY <1>2, <1>5, ReverseAppend
    <2> QED
      BY <1>1, <1>3, <1>4, <2>1
  <1>7. Head(StringOf) = code
    <2>1. StringOf = <<code>> \o Reverse(expansion)
      BY <1>3, <1>4
    <2>2. Head(<<code>> \o Reverse(expansion)) = code
      BY <1>2, <1>5, HeadIs
    <2> QED
      BY <2>1, <2>2
  <1>8. Chain' = Chain /\ IsClear' = IsClear
    BY <1>1, ChainKept DEF IsClear
  <1>9. StringOf' = StringOf
    <2>1. CASE encoded # nextCode
      BY <1>1, <1>8, <2>1 DEF StringOf
    <2>2. CASE encoded = nextCode
      <3>1. StringOf = Append(Chain[previous], firstChar)
        BY <2>2 DEF StringOf
      <3>2. Head(Append(Chain[previous], firstChar)) = Head(Chain[previous])
        BY <1>2, StringType, HeadTailAppend DEF BufferInv
      <3>3. firstChar' = firstChar
        BY <1>1, <1>3, <1>7, <3>1, <3>2
      <3> QED
        BY <1>1, <1>8, <3>3 DEF StringOf
    <2> QED
      BY <2>1, <2>2
  <1>10. MeaningInv'
    BY <1>1, <1>2, <1>3, <1>6, <1>7, <1>8, <1>9 DEF MeaningInv, Writing
  <1> QED
    BY <1>1, <1>2, <1>3, <1>6, <1>7, <1>8, <1>9, <1>10

\* After the new entry the code stands for the string that was written.
LEMMA EntryMeaning ==
  ASSUME IInv, SuffixInv, BufferInv, MeaningInv, AddEntry, IInv', SuffixInv'
  PROVE  /\ Chain'[encoded] = IF previous = None THEN <<encoded>> ELSE StringOf
         /\ \A c \in 0 .. nextCode - 1 : Chain'[c] = Chain[c]
         /\ previous # None /\ nextCode < Top =>
              Chain'[nextCode] = Append(Chain[previous], firstChar)
         /\ MeaningInv'
  <1>1. /\ Literals \in Nat /\ Top \in Nat /\ nextCode \in Nat /\ nextCode <= Top
        /\ encoded \in 0 .. Top - 1 /\ Literals <= nextCode
    BY TableSizes
  <1>2. /\ phase = "write" /\ encoded <= nextCode /\ (previous = None => encoded < Literals)
        /\ input' = input /\ firstChar' = firstChar /\ previous' = encoded
        /\ phase' = "loop"
    BY DEF AddEntry, Goto, IInv, AcceptedInv
  <1>3. /\ previous # None => firstChar = Head(StringOf)
        /\ previous = None => firstChar = encoded
    BY <1>2 DEF MeaningInv, Writing
  <1>4. previous = None => encoded \in Symbols
    BY <1>1, <1>2 DEF Symbols
  <1>5. CASE previous # None /\ nextCode < Top
    <2>1. /\ prefixes' = [prefixes EXCEPT ![nextCode] = previous]
          /\ suffixes' = [suffixes EXCEPT ![nextCode] = firstChar]
          /\ nextCode' = nextCode + 1
      BY <1>1, <1>5 DEF AddEntry, Top
    <2>2. firstChar \in Symbols
      BY DEF BufferInv
    <2>3. /\ \A c \in 0 .. nextCode - 1 : Chain'[c] = Chain[c]
          /\ Chain'[nextCode] = Append(Chain[previous], firstChar)
      BY <1>2, <1>5, <2>1, <2>2, ChainGrows
    <2>4. encoded # nextCode => encoded \in 0 .. nextCode - 1
      BY <1>1, <1>2
    <2>5. Chain'[encoded] = StringOf
      BY <2>3, <2>4 DEF StringOf
    <2>6. MeaningInv'
      BY <1>2, <1>3, <1>5, <2>5 DEF MeaningInv, Writing
    <2> QED
      BY <1>5, <2>3, <2>5, <2>6
  <1>6. CASE ~ (previous # None /\ nextCode < Top)
    <2>1. UNCHANGED <<prefixes, suffixes, nextCode>>
      BY <1>6 DEF AddEntry, Top
    <2>2. Chain' = Chain
      BY <1>2, <2>1, ChainKept
    <2>3. previous = None => Chain[encoded] = <<encoded>>
      BY <1>4, ChainFacts
    <2>4. previous # None => StringOf = Chain[encoded]
      <3>1. previous # None => encoded # nextCode
        BY <1>1, <1>6
      <3> QED
        BY <3>1 DEF StringOf
    <2>5. Chain'[encoded] = IF previous = None THEN <<encoded>> ELSE StringOf
      BY <2>2, <2>3, <2>4
    <2>6. firstChar = Head(Chain'[encoded])
      <3>1. previous = None => Head(<<encoded>>) = encoded
        OBVIOUS
      <3> QED
        BY <1>3, <2>5, <3>1
    <2>7. MeaningInv'
      BY <1>2, <2>6 DEF MeaningInv, Writing
    <2> QED
      BY <1>6, <2>2, <2>5, <2>7
  <1> QED
    BY <1>5, <1>6

LEMMA NextMeaning ==
  ASSUME IInv, SuffixInv, BufferInv, MeaningInv, [Next]_vars
  PROVE  MeaningInv'
  <1> USE DEF Goto, Return, readerVars, tableVars, chainVars, outVars
  <1>1. IInv' /\ SuffixInv'
    BY NextIInv, NextSuffix
  <1>2. CASE \/ EndOfInput \/ FirstLiteral \/ CopyOutput \/ FlushFull \/ Finish
             \/ Interrupt \/ UNCHANGED vars
    <2>1. UNCHANGED <<input, prefixes, suffixes, nextCode, previous, encoded, expansion, code>>
      BY <1>2 DEF EndOfInput, FirstLiteral, CopyOutput, FlushFull, Finish, Interrupt, vars
    <2>2. Chain' = Chain /\ IsClear' = IsClear
      BY <2>1, ChainKept DEF IsClear
    <2>3. CASE FirstLiteral
      BY <2>1, <2>2, <2>3 DEF FirstLiteral, MeaningInv, Writing
    <2>4. CASE ~ FirstLiteral
      <3>1. firstChar' = firstChar
        BY <1>2, <2>4 DEF EndOfInput, CopyOutput, FlushFull, Finish, Interrupt, vars
      <3>2. StringOf' = StringOf
        BY <2>1, <3>1, StringKept
      <3>3. \/ phase' = phase
            \/ phase' = "end"
            \/ phase \in {"write", "full"} /\ phase' \in {"write", "full"}
        BY <1>2, <2>4 DEF EndOfInput, CopyOutput, FlushFull, Finish, Interrupt, vars
      <3> QED
        BY <2>1, <2>2, <3>1, <3>2, <3>3 DEF MeaningInv, Writing
    <2> QED
      BY <2>3, <2>4
  <1>3. CASE ReadCode
    <2>1. UNCHANGED <<input, prefixes, suffixes, nextCode, previous, firstChar>>
          /\ phase = "loop" /\ phase' = "code"
      BY <1>3 DEF ReadCode
    <2>2. Chain' = Chain
      BY <2>1, ChainKept
    <2> QED
      BY <2>1, <2>2 DEF MeaningInv, Writing
  <1>4. CASE Clear
    BY <1>4 DEF Clear, MeaningInv, Writing
  <1>5. CASE StartChain
    BY <1>5, StartMeaning
  <1>6. CASE Traverse
    BY <1>6, TraverseMeaning
  <1>7. CASE EndChain
    BY <1>7, EndMeaning
  <1>8. CASE AddEntry
    BY <1>1, <1>8, EntryMeaning
  <1> QED
    BY <1>2, <1>3, <1>4, <1>5, <1>6, <1>7, <1>8 DEF Next, Step
-----------------------------------------------------------------------------
(***************************************************************************)
(* The steps of LZW                                                        *)
(***************************************************************************)
\* What has been decoded, wherever it is.
Text == out \o buffer \o pending

Strings == Seq(Symbols)

\* The strings the table has learned; AbstractTable is ahead by one while a
\* string is written.
Entries ==
  [k \in 1 .. nextCode - FirstCode(input) |-> Chain[FirstCode(input) + k - 1]]

LEMMA TableIs ==
  /\ AbstractTable = IF Writing /\ previous # None /\ nextCode < MaxCodes(input)
                       THEN Append(Entries, Append(Chain[previous], firstChar))
                       ELSE Entries
  /\ AbstractTable' = IF Writing' /\ previous' # None /\ nextCode' < MaxCodes(input')
                        THEN Append(Entries', Append(Chain'[previous'], firstChar'))
                        ELSE Entries'
  BY DEF AbstractTable, Entries

LEMMA EntriesType ==
  ASSUME IInv, SuffixInv
  PROVE  /\ Entries \in Seq(Strings)
         /\ Len(Entries) = nextCode - FirstCode(input) /\ Len(Entries) \in Nat
         /\ \A k \in 1 .. nextCode - FirstCode(input) :
              Entries[k] = Chain[FirstCode(input) + k - 1]
  <1>1. /\ FirstCode(input) \in Nat /\ nextCode \in Nat /\ Top \in Nat
        /\ FirstCode(input) <= nextCode /\ nextCode <= Top
    BY TableSizes
  <1>2. PICK n, f : n = nextCode - FirstCode(input) /\ f = FirstCode(input)
    OBVIOUS
  <1>3. n \in Nat /\ f \in Nat /\ f + n <= Top
    BY <1>1, <1>2
  <1>4. \A c \in 0 .. Top - 1 : Chain[c] \in Strings
    BY ChainFacts DEF Strings
  <1>5. \A k \in 1 .. n : f + k - 1 \in 0 .. Top - 1
    BY <1>1, <1>3
  <1>6. Entries = [k \in 1 .. n |-> Chain[f + k - 1]]
    BY <1>2 DEF Entries
  <1>7. Entries \in [1 .. n -> Strings]
    <2> HIDE DEF Strings
    <2> QED
      BY <1>4, <1>5, <1>6
  <1>8. Entries \in Seq(Strings) /\ Len(Entries) = n
    <2> HIDE DEF Strings, Entries
    <2> QED
      BY <1>3, <1>7
  <1>9. \A k \in 1 .. n : Entries[k] = Chain[f + k - 1]
    BY <1>6
  <1> QED
    BY <1>2, <1>3, <1>8, <1>9

\* Steps that change neither the table nor what is written of its strings.
LEMMA AbstractKept ==
  ASSUME UNCHANGED <<input, prefixes, suffixes, nextCode, previous, firstChar>>,
         Writing' <=> Writing, Writing => UNCHANGED <<encoded, expansion>>
  PROVE  UNCHANGED <<AbstractTable, AbstractLast>>
  <1>1. Chain' = Chain
    BY ChainKept
  <1>2. Entries' = Entries
    BY <1>1 DEF Entries
  <1>3. MaxCodes(input') = MaxCodes(input)
    OBVIOUS
  <1>4. AbstractTable' = AbstractTable
    <2>1. AbstractTable' = IF Writing' /\ previous' # None /\ nextCode' < MaxCodes(input')
                             THEN Append(Entries', Append(Chain'[previous'], firstChar'))
                             ELSE Entries'
      BY TableIs
    <2> QED
      BY <1>1, <1>2, <1>3, <2>1, TableIs
  <1>5. Decoded' = Decoded \/ ~ Writing
    BY DEF Decoded
  <1>6. AbstractLast' = AbstractLast
    BY <1>1, <1>5 DEF AbstractLast
  <1> QED
    BY <1>4, <1>6

LEMMA Stutters ==
  ASSUME UNCHANGED <<input, AbstractTable, AbstractLast, Text>>
  PROVE  UNCHANGED LzwOfCodes!lzwVars
  BY DEF LzwOfCodes!lzwVars, Text

\* What buffer_output and flush_output move stays in the text.
LEMMA TextMoves ==
  ASSUME BufferInv, CopyOutput \/ FlushFull \/ Finish
  PROVE  Text' = Text
  <1>1. out \in Seq(Symbols) /\ buffer \in Seq(Symbols) /\ pending \in Seq(Symbols)
    BY DEF BufferInv
  <1>2. CASE UNCHANGED <<out, buffer, pending>>
    BY <1>2 DEF Text
  <1>3. CASE out' = out \o buffer /\ buffer' = << >> /\ pending' = pending
    <2>1. out \o buffer \in Seq(Symbols)
      BY <1>1, ConcatProperties
    <2>2. (out \o buffer) \o << >> = out \o buffer
      BY <2>1, ConcatEmptySeq
    <2> QED
      BY <1>3, <2>2 DEF Text
  <1>4. CASE CopyOutput /\ ~ UNCHANGED <<out, buffer, pending>>
    <2>1. /\ phase = "write" /\ pending # << >> /\ out' = out
          /\ buffer' = buffer \o SubSeq(pending, 1, CopyCount)
          /\ pending' = SubSeq(pending, CopyCount + 1, Len(pending))
      BY <1>4 DEF CopyOutput
    <2>2. PICK a, b : a = SubSeq(pending, 1, CopyCount)
                      /\ b = SubSeq(pending, CopyCount + 1, Len(pending))
      OBVIOUS
    <2>3. a \in Seq(Symbols) /\ b \in Seq(Symbols) /\ a \o b = pending
      BY <2>1, <2>2, CopyMoves
    <2>4. (out \o (buffer \o a)) \o b = (out \o buffer) \o (a \o b)
      <3>1. Moves(out, buffer, a, b)
        BY <1>1, <2>3, MovePart
      <3> QED
        BY <3>1 DEF Moves
    <2> QED
      BY <2>1, <2>2, <2>3, <2>4 DEF Text
  <1> QED
    BY <1>2, <1>3, <1>4 DEF CopyOutput, FlushFull, Finish, Goto, Return

\* The initial states of the decoder are initial states of LZW.
LEMMA InitLzw ==
  Init => LzwOfCodes!Init
  <1> SUFFICES ASSUME Init PROVE LzwOfCodes!Init
    OBVIOUS
  <1>1. IInv /\ SuffixInv
    BY InitIInv, InitText
  <1>2. /\ FirstCode(input) \in {Literals, Literals + 1} /\ FirstCode(input) \in Nat
        /\ nextCode = FirstCode(input) /\ nextCode <= Top /\ Top \in Nat
    BY <1>1, TableSizes DEF Init
  <1>3. Entries \in Seq(Strings) /\ Len(Entries) = 0
    BY <1>1, <1>2, EntriesType
  <1>4. Entries = << >>
    BY <1>3, EmptySeq
  <1>5. ~ Writing /\ previous = None /\ out = << >> /\ buffer = << >> /\ pending = << >>
    BY DEF Init, Writing
  <1>6. AbstractTable = << >> /\ AbstractLast = << >>
    BY <1>4, <1>5, TableIs DEF AbstractLast
  <1>7. out \o buffer \o pending = << >>
    BY <1>5
  <1>8. MaxCodes(input) - FirstCode(input) \in Nat
    BY <1>2 DEF Top
  <1> QED
    BY <1>2, <1>6, <1>7, <1>8 DEF LzwOfCodes!Init

\* CLEAR is a reset: the text stays, and nothing is left of the table.
LEMMA ClearResets ==
  ASSUME IInv, SuffixInv, BufferInv, IInv', SuffixInv', Clear
  PROVE  LzwOfCodes!Reset
  <1>1. /\ phase = "code" /\ phase' = "loop" /\ IsClear /\ previous' = None
        /\ nextCode' = FirstCode(input) /\ input' = input
        /\ UNCHANGED <<out, buffer, pending>>
    BY DEF Clear, Goto, outVars
  <1>2. FirstCode(input) = Literals + 1
    BY <1>1 DEF IsClear, FirstCode
  <1>3. nextCode' - FirstCode(input') = 0
    <2>1. FirstCode(input) \in Nat
      BY TableSizes
    <2> QED
      BY <1>1, <2>1
  <1>4. Entries' = << >>
    <2>1. Entries' = [k \in 1 .. nextCode' - FirstCode(input') |->
                        Chain'[FirstCode(input') + k - 1]]
      BY DEF Entries
    <2>2. Entries' = [k \in 1 .. 0 |-> Chain'[FirstCode(input') + k - 1]]
      BY <1>3, <2>1
    <2>3. PICK g : g = Entries'
      OBVIOUS
    <2>4. g \in [1 .. 0 -> Strings]
      BY <2>2, <2>3
    <2>5. g \in Seq(Strings) /\ Len(g) = 0
      BY <2>4
    <2> QED
      BY <2>3, <2>5, EmptySeq
  <1>5. ~ Writing'
    BY <1>1 DEF Writing
  <1>6. AbstractTable' = << >> /\ AbstractLast' = << >>
    BY <1>1, <1>4, <1>5, TableIs DEF AbstractLast
  <1>7. UNCHANGED <<MaxCodes(input) - FirstCode(input), FirstCode(input), out \o buffer \o pending>>
    BY <1>1
  <1> QED
    BY <1>2, <1>6, <1>7 DEF LzwOfCodes!Reset

\* The entry was already counted while its string was written.
LEMMA ListGrows ==
  ASSUME NEW S, NEW e \in Seq(S), NEW x \in S, NEW n \in Nat, Len(e) = n, NEW F,
         F \in [1 .. n + 1 -> S], \A k \in 1 .. n : F[k] = e[k], F[n + 1] = x
  PROVE  F = Append(e, x)
  <1>1. /\ Append(e, x) \in Seq(S) /\ Len(Append(e, x)) = n + 1
        /\ (\A i \in 1 .. n : Append(e, x)[i] = e[i]) /\ Append(e, x)[n + 1] = x
    BY AppendProperties
  <1>2. \A k \in 1 .. n + 1 : F[k] = Append(e, x)[k]
    <2> TAKE k \in 1 .. n + 1
    <2>1. CASE k = n + 1
      BY <1>1, <2>1
    <2>2. CASE k # n + 1
      <3>1. k \in 1 .. n
        BY <2>2
      <3> QED
        BY <1>1, <3>1
    <2> QED
      BY <2>1, <2>2
  <1>3. F \in Seq(S) /\ Len(F) = n + 1
    OBVIOUS
  <1> QED
    BY <1>1, <1>2, <1>3, SeqEqual

LEMMA EntryStutters ==
  ASSUME IInv, SuffixInv, BufferInv, MeaningInv, AddEntry, IInv', SuffixInv'
  PROVE  UNCHANGED <<AbstractTable, AbstractLast>>
  <1>1. /\ phase = "write" /\ phase' = "loop" /\ Writing /\ ~ Writing'
        /\ previous' = encoded /\ input' = input
    BY DEF AddEntry, Goto, Writing
  <1>2. /\ FirstCode(input) \in Nat /\ nextCode \in Nat /\ Top \in Nat
        /\ FirstCode(input) <= nextCode /\ nextCode <= Top
        /\ encoded \in 0 .. Top - 1
    BY TableSizes
  <1>3. /\ Chain'[encoded] = IF previous = None THEN <<encoded>> ELSE StringOf
        /\ \A c \in 0 .. nextCode - 1 : Chain'[c] = Chain[c]
        /\ previous # None /\ nextCode < Top =>
             Chain'[nextCode] = Append(Chain[previous], firstChar)
    BY EntryMeaning
  <1>4. AbstractLast' = AbstractLast
    <2>1. previous' # None
      BY <1>1, <1>2 DEF None
    <2>2. AbstractLast' = Chain'[encoded]
      BY <1>1, <2>1 DEF AbstractLast
    <2>3. AbstractLast = IF previous = None THEN <<encoded>> ELSE StringOf
      BY <1>1 DEF AbstractLast, Decoded, MeaningInv
    <2> QED
      BY <1>3, <2>2, <2>3
  <1>5. AbstractTable' = Entries'
    BY <1>1, TableIs
  <1>6. PICK n, f : n = nextCode - FirstCode(input) /\ f = FirstCode(input)
    OBVIOUS
  <1>7. n \in Nat /\ f \in Nat /\ nextCode = f + n
    BY <1>2, <1>6
  <1>8. /\ Entries \in Seq(Strings) /\ Len(Entries) = n
        /\ \A k \in 1 .. n : Entries[k] = Chain[f + k - 1]
    BY <1>6, EntriesType
  <1>9. Entries' = [k \in 1 .. nextCode' - f |-> Chain'[f + k - 1]]
    BY <1>1, <1>6 DEF Entries
  <1>10. \A k \in 1 .. n : f + k - 1 \in 0 .. nextCode - 1
    BY <1>7
  <1>11. \A k \in 1 .. n : Chain'[f + k - 1] = Entries[k]
    BY <1>3, <1>8, <1>10
  <1>12. CASE previous # None /\ nextCode < Top
    <2>1. AbstractTable = Append(Entries, Append(Chain[previous], firstChar))
      BY <1>1, <1>12, TableIs DEF Top
    <2>2. nextCode' = nextCode + 1
      BY <1>2, <1>12 DEF AddEntry, Top
    <2>3. nextCode' - f = n + 1 /\ f + (n + 1) - 1 = nextCode
      BY <1>7, <2>2
    <2>4. Append(Chain[previous], firstChar) \in Strings
      BY <1>12, StringType, AppendProperties DEF BufferInv, Strings
    <2>5. PICK F, e, x : F = Entries' /\ e = Entries /\ x = Append(Chain[previous], firstChar)
      OBVIOUS
    <2>6. F = [k \in 1 .. n + 1 |-> Chain'[f + k - 1]]
      BY <1>9, <2>3, <2>5
    <2>8. n + 1 \in 1 .. n + 1 /\ \A k \in 1 .. n : k \in 1 .. n + 1
      BY <1>7
    <2>9. F[n + 1] = x
      BY <1>3, <1>12, <2>3, <2>5, <2>6, <2>8
    <2>10. \A k \in 1 .. n : F[k] = e[k]
      BY <1>11, <2>5, <2>6, <2>8
    <2>11. e \in Seq(Strings) /\ Len(e) = n /\ x \in Strings
      BY <1>8, <2>4, <2>5
    <2>7. F \in [1 .. n + 1 -> Strings]
      <3>1. ASSUME NEW k \in 1 .. n + 1 PROVE Chain'[f + k - 1] \in Strings
        <4>1. CASE k = n + 1
          BY <1>3, <1>12, <2>3, <2>4, <4>1
        <4>2. CASE k # n + 1
          <5>1. k \in 1 .. n
            BY <1>7, <4>2
          <5>2. Entries[k] \in Strings
            BY <1>8, <5>1, ElementOfSeq
          <5> QED
            BY <1>11, <5>1, <5>2
        <4> QED
          BY <4>1, <4>2
      <3> HIDE DEF Strings
      <3> QED
        BY <2>6, <3>1
    <2>12. F = Append(e, x)
      <3> HIDE DEF Strings
      <3> QED
        BY <1>7, <2>7, <2>9, <2>10, <2>11, ListGrows
    <2> QED
      BY <1>4, <1>5, <2>1, <2>5, <2>12
  <1>13. CASE ~ (previous # None /\ nextCode < Top)
    <2>1. AbstractTable = Entries
      BY <1>13, TableIs DEF Top
    <2>2. UNCHANGED <<prefixes, suffixes, nextCode>>
      BY <1>13 DEF AddEntry, Top
    <2>3. Chain' = Chain
      BY <1>1, <2>2, ChainKept
    <2>4. Entries' = Entries
      BY <1>1, <2>2, <2>3 DEF Entries
    <2> QED
      BY <1>4, <1>5, <2>1, <2>4
  <1> QED
    BY <1>12, <1>13

\* The first code after a reset is decoded to its symbol.
LEMMA FirstDecodes ==
  ASSUME IInv, SuffixInv, BufferInv, FirstLiteral, phase' # phase
  PROVE  LzwOfCodes!Next
  <1>1. /\ phase = "code" /\ phase' = "write" /\ previous = None /\ encoded < Literals
        /\ pending' = <<encoded>> /\ ~ Writing /\ Writing'
        /\ UNCHANGED <<input, prefixes, suffixes, nextCode, previous, encoded, out, buffer>>
    BY DEF FirstLiteral, Goto, Return, tableVars, Writing
  <1>2. /\ pending = << >> /\ out \o buffer \in Seq(Symbols)
    BY <1>1, ConcatProperties DEF BufferInv
  <1>3. Chain' = Chain
    BY <1>1, ChainKept
  <1>4. Entries' = Entries
    BY <1>1, <1>3 DEF Entries
  <1>5. AbstractTable = Entries /\ AbstractTable' = Entries
    BY <1>1, <1>4, TableIs
  <1>6. AbstractLast = << >> /\ AbstractLast' = <<encoded>>
    BY <1>1 DEF AbstractLast, Decoded
  <1>7. LzwOfCodes!String(encoded) = <<encoded>>
    BY <1>1 DEF LzwOfCodes!String
  <1>8. LzwOfCodes!Learned(<<encoded>>) = AbstractTable
    BY <1>6 DEF LzwOfCodes!Learned
  <1>9. (out \o buffer \o pending)' = (out \o buffer \o pending) \o <<encoded>>
    <2>1. (out \o buffer) \o << >> = out \o buffer
      BY <1>2, ConcatEmptySeq
    <2> QED
      BY <1>1, <1>2, <2>1
  <1>10. UNCHANGED <<MaxCodes(input) - FirstCode(input), FirstCode(input)>>
    BY <1>1
  <1>11. LzwOfCodes!Decode(encoded)
    BY <1>1, <1>5, <1>6, <1>7, <1>8, <1>9, <1>10 DEF LzwOfCodes!Decode
  <1>12. encoded \in 0 .. FirstCode(input) + Len(AbstractTable)
    <2>1. /\ FirstCode(input) \in Nat /\ Literals \in Nat /\ encoded \in Nat
          /\ Literals <= FirstCode(input)
      BY TableSizes
    <2>2. Len(AbstractTable) \in Nat
      BY <1>5, EntriesType
    <2> QED
      BY <1>1, <2>1, <2>2
  <1> QED
    BY <1>11, <1>12 DEF LzwOfCodes!Next

\* The string that LZW gives to a code the decoder has accepted.
LEMMA StringIs ==
  ASSUME IInv, SuffixInv, BufferInv, MeaningInv, phase = "chain"
  PROVE  /\ AbstractTable = Entries /\ AbstractLast = Chain[previous]
         /\ LzwOfCodes!String(encoded) = StringOf
         /\ encoded < Literals \/ FirstCode(input) <= encoded
         /\ encoded \in 0 .. FirstCode(input) + Len(Entries)
  <1>1. previous # None /\ ~ Writing /\ ~ IsClear /\ firstChar = Head(Chain[previous])
    BY DEF IInv, ChainInv, Writing, MeaningInv
  <1>2. encoded <= nextCode
    BY DEF IInv, AcceptedInv
  <1>3. /\ FirstCode(input) \in Nat /\ nextCode \in Nat /\ Literals \in Nat /\ Top \in Nat
        /\ FirstCode(input) \in {Literals, Literals + 1}
        /\ FirstCode(input) <= nextCode /\ encoded \in 0 .. Top - 1
        /\ nextCode <= Top /\ Literals <= nextCode
    BY TableSizes
  <1>4. AbstractTable = Entries /\ AbstractLast = Chain[previous]
    BY <1>1, TableIs DEF AbstractLast
  <1>5. PICK n, f : n = nextCode - FirstCode(input) /\ f = FirstCode(input)
    OBVIOUS
  <1>6. n \in Nat /\ f \in Nat /\ nextCode = f + n
    BY <1>3, <1>5
  <1>7. /\ Len(Entries) = n
        /\ \A k \in 1 .. n : Entries[k] = Chain[f + k - 1]
    BY <1>5, EntriesType
  <1>8. encoded < Literals \/ FirstCode(input) <= encoded
    <2>1. CASE input.block
      <3>1. encoded # Literals /\ FirstCode(input) = Literals + 1
        BY <1>1, <2>1 DEF IsClear, ClearCode, FirstCode
      <3> QED
        BY <1>3, <3>1
    <2>2. CASE ~ input.block
      <3>1. FirstCode(input) = Literals
        BY <2>2 DEF FirstCode
      <3> QED
        BY <1>3, <3>1
    <2> QED
      BY <2>1, <2>2
  <1>9. LzwOfCodes!String(encoded)
          = IF encoded < Literals THEN <<encoded>>
            ELSE IF encoded = nextCode
                   THEN Append(Chain[previous], Head(Chain[previous]))
                   ELSE Entries[encoded - f + 1]
    <2>1. FirstCode(input) + Len(AbstractTable) = nextCode
      BY <1>4, <1>5, <1>6, <1>7
    <2> QED
      BY <1>4, <1>5, <2>1 DEF LzwOfCodes!String
  <1>10. CASE encoded < Literals
    <2>1. encoded \in Symbols /\ encoded # nextCode
      BY <1>3, <1>10 DEF Symbols
    <2>2. Chain[encoded] = <<encoded>>
      BY <2>1, ChainFacts
    <2>3. LzwOfCodes!String(encoded) = StringOf
      BY <1>9, <1>10, <2>1, <2>2 DEF StringOf
    <2> QED
      BY <1>2, <1>3, <1>4, <1>5, <1>6, <1>7, <1>8, <2>3
  <1>11. CASE ~ encoded < Literals /\ encoded = nextCode
    <2>1. LzwOfCodes!String(encoded) = StringOf
      BY <1>1, <1>9, <1>11 DEF StringOf
    <2> QED
      BY <1>2, <1>3, <1>4, <1>5, <1>6, <1>7, <1>8, <2>1
  <1>12. CASE ~ encoded < Literals /\ encoded # nextCode
    <2>1. encoded - f + 1 \in 1 .. n /\ f + (encoded - f + 1) - 1 = encoded
      BY <1>2, <1>3, <1>5, <1>6, <1>8, <1>12
    <2>2. Entries[encoded - f + 1] = Chain[encoded]
      BY <1>7, <2>1
    <2>3. LzwOfCodes!String(encoded) = StringOf
      BY <1>9, <1>12, <2>2 DEF StringOf
    <2> QED
      BY <1>2, <1>3, <1>4, <1>5, <1>6, <1>7, <1>8, <2>3
  <1> QED
    BY <1>10, <1>11, <1>12

\* The end of a chain is the step that decodes the code.
LEMMA EndDecodes ==
  ASSUME IInv, SuffixInv, BufferInv, MeaningInv, EndChain
  PROVE  LzwOfCodes!Next
  <1>1. /\ phase = "chain" /\ phase' = "write" /\ ~ Writing /\ Writing'
        /\ expansion' = Append(expansion, code) /\ pending' = Reverse(expansion')
        /\ UNCHANGED <<input, prefixes, suffixes, nextCode, previous, encoded, out, buffer>>
    BY DEF EndChain, Goto, Writing
  <1>2. /\ previous # None /\ Chain' = Chain
        /\ Reverse(expansion') = StringOf /\ firstChar' = Head(StringOf)
    BY EndMeaning
  <1>3. /\ AbstractTable = Entries /\ AbstractLast = Chain[previous]
        /\ LzwOfCodes!String(encoded) = StringOf
        /\ encoded < Literals \/ FirstCode(input) <= encoded
        /\ encoded \in 0 .. FirstCode(input) + Len(Entries)
    BY <1>1, StringIs
  <1>4. Chain[previous] # << >>
    BY <1>2, StringType
  <1>5. Entries' = Entries
    BY <1>1, <1>2 DEF Entries
  <1>6. AbstractLast' = StringOf
    BY <1>1, <1>2 DEF AbstractLast, Decoded
  <1>7. AbstractTable' = IF nextCode < MaxCodes(input)
                           THEN Append(Entries, Append(Chain[previous], Head(StringOf)))
                           ELSE Entries
    BY <1>1, <1>2, <1>5, TableIs
  <1>8. LzwOfCodes!Learned(StringOf) = AbstractTable'
    <2>1. /\ Len(Entries) = nextCode - FirstCode(input)
          /\ nextCode \in Nat /\ FirstCode(input) \in Nat /\ Top \in Nat
      BY EntriesType, TableSizes
    <2>2. Len(Entries) < MaxCodes(input) - FirstCode(input) <=> nextCode < MaxCodes(input)
      BY <2>1 DEF Top
    <2>3. LzwOfCodes!Learned(StringOf)
            = IF AbstractLast # << >>
                 /\ Len(AbstractTable) < MaxCodes(input) - FirstCode(input)
              THEN Append(AbstractTable, Append(AbstractLast, Head(StringOf)))
              ELSE AbstractTable
      BY DEF LzwOfCodes!Learned
    <2> QED
      BY <1>3, <1>4, <1>7, <2>2, <2>3
  <1>9. (out \o buffer \o pending)' = (out \o buffer \o pending) \o StringOf
    <2>1. pending = << >> /\ out \o buffer \in Seq(Symbols)
      BY <1>1, ConcatProperties DEF BufferInv
    <2>2. (out \o buffer) \o << >> = out \o buffer
      BY <2>1, ConcatEmptySeq
    <2> QED
      BY <1>1, <1>2, <2>1, <2>2
  <1>10. UNCHANGED <<MaxCodes(input) - FirstCode(input), FirstCode(input)>>
    BY <1>1
  <1>11. LzwOfCodes!Decode(encoded)
    BY <1>3, <1>4, <1>6, <1>8, <1>9, <1>10 DEF LzwOfCodes!Decode
  <1> QED
    BY <1>3, <1>11 DEF LzwOfCodes!Next

\* Every step of the decoder is a step of LZW or leaves it where it is.
LEMMA NextLzw ==
  ASSUME IInv, SuffixInv, BufferInv, MeaningInv, [Next]_vars
  PROVE  [LzwOfCodes!Next]_(LzwOfCodes!lzwVars)
  <1> USE DEF Goto, Return, readerVars, tableVars, chainVars, outVars
  <1>1. IInv' /\ SuffixInv'
    BY NextIInv, NextSuffix
  <1>2. CASE \/ EndOfInput \/ ReadCode \/ StartChain \/ Traverse
             \/ CopyOutput \/ FlushFull \/ Finish
             \/ Interrupt \/ UNCHANGED vars
             \/ (FirstLiteral /\ phase' = phase)
    <2>1. UNCHANGED <<input, prefixes, suffixes, nextCode, previous, firstChar>>
      BY <1>2 DEF EndOfInput, ReadCode, StartChain, Traverse, CopyOutput, FlushFull,
                  Finish, Interrupt, FirstLiteral, vars
    <2>2. Writing' <=> Writing
      BY <1>2 DEF EndOfInput, ReadCode, StartChain, Traverse, CopyOutput, FlushFull,
                  Finish, Interrupt, FirstLiteral, vars, Writing
    <2>3. Writing => UNCHANGED <<encoded, expansion>>
      BY <1>2 DEF EndOfInput, ReadCode, StartChain, Traverse, CopyOutput, FlushFull,
                  Finish, Interrupt, FirstLiteral, vars, Writing
    <2>4. UNCHANGED <<AbstractTable, AbstractLast>>
      BY <2>1, <2>2, <2>3, AbstractKept
    <2>5. Text' = Text
      <3>1. CASE CopyOutput \/ FlushFull \/ Finish
        BY <3>1, TextMoves
      <3>2. CASE ~ (CopyOutput \/ FlushFull \/ Finish)
        <4>1. UNCHANGED <<out, buffer, pending>>
          BY <1>2, <3>2 DEF EndOfInput, ReadCode, StartChain, Traverse, Interrupt,
                            FirstLiteral, vars
        <4> QED
          BY <4>1 DEF Text
      <3> QED
        BY <3>1, <3>2
    <2> QED
      BY <2>1, <2>4, <2>5, Stutters
  <1>3. CASE FirstLiteral /\ phase' # phase
    BY <1>3, FirstDecodes
  <1>4. CASE Clear
    <2>1. LzwOfCodes!Reset
      BY <1>1, <1>4, ClearResets
    <2> QED
      BY <2>1 DEF LzwOfCodes!Next
  <1>5. CASE EndChain
    BY <1>5, EndDecodes
  <1>6. CASE AddEntry
    <2>1. UNCHANGED <<AbstractTable, AbstractLast>>
      BY <1>1, <1>6, EntryStutters
    <2>2. UNCHANGED <<input, out, buffer, pending>>
      BY <1>6 DEF AddEntry
    <2>3. Text' = Text
      BY <2>2 DEF Text
    <2> QED
      BY <2>1, <2>2, <2>3, Stutters
  <1>7. \/ EndOfInput \/ ReadCode \/ Clear \/ FirstLiteral \/ StartChain \/ Traverse
        \/ EndChain \/ CopyOutput \/ FlushFull \/ AddEntry \/ Finish \/ Interrupt
        \/ UNCHANGED vars
    BY DEF Next, Step
  <1> QED
    BY <1>2, <1>3, <1>4, <1>5, <1>6, <1>7

\* Whatever the payload, the sizes and the chunks: what decode_lzw writes,
\* along prefixes and through its buffer, is LZW over whole strings - also for
\* the code that is not in the table yet, with a full table and after CLEAR.
THEOREM DecoderImplementsLzw ==
  Spec => ImplementsLzw
  <1> DEFINE LInv == IInv /\ SuffixInv /\ BufferInv /\ MeaningInv
  <1>1. Init => LInv /\ LzwOfCodes!Init
    BY InitIInv, InitText, InitLzw
  <1>2. LInv /\ [Next]_vars => LInv' /\ [LzwOfCodes!Next]_(LzwOfCodes!lzwVars)
    <2> SUFFICES ASSUME LInv, [Next]_vars
                 PROVE  LInv' /\ [LzwOfCodes!Next]_(LzwOfCodes!lzwVars)
      OBVIOUS
    <2>1. IInv' /\ SuffixInv' /\ BufferInv' /\ MeaningInv'
      BY NextIInv, NextSuffix, NextBuffer, NextMeaning
    <2>2. [LzwOfCodes!Next]_(LzwOfCodes!lzwVars)
      BY NextLzw
    <2> QED
      BY <2>1, <2>2
  <1> QED
    BY <1>1, <1>2, PTL DEF Spec, ImplementsLzw, LzwOfCodes!Spec
=============================================================================
