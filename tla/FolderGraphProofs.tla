-------------------------- MODULE FolderGraphProofs --------------------------
(***************************************************************************)
(* What FolderGraph promises, for folders with any number of coders, ports *)
(* and bind pairs: validation accepts only folders whose coders can run    *)
(* one after the other, and executing such a folder meets none of the      *)
(* errors decode_folder keeps for ports that are empty, taken or left      *)
(* over.                                                                   *)
(***************************************************************************)
EXTENDS FolderGraph, NaturalLemmas, FiniteSetTheorems, TLAPS

(***************************************************************************)
(* The inductive invariant, phase by phase.                                *)
(***************************************************************************)

\* The first n bind pairs went through validate_bind_pair.
PairsChecked(n) ==
  /\ \A p \in 1 .. n : /\ folder.pairs[p].input \in InPorts(folder)
                       /\ folder.pairs[p].output \in OutPorts(folder)
  /\ \A p, q \in 1 .. n :
        p # q => /\ folder.pairs[p].input # folder.pairs[q].input
                 /\ folder.pairs[p].output # folder.pairs[q].output
  /\ \A i \in InPorts(folder) :
        i \in inputUsed <=> \E p \in 1 .. n : folder.pairs[p].input = i
  /\ \A o \in OutPorts(folder) :
        o \in outputUsed <=> \E p \in 1 .. n : folder.pairs[p].output = o

PairsInv ==
  /\ phase = "bind" => /\ at \in 1 .. Len(folder.pairs) + 1
                       /\ PairsChecked(at - 1)
  /\ phase \in {"packed", "seed", "kahn"} \/ Accepted =>
        /\ PairsChecked(Len(folder.pairs))
        /\ \E o \in OutPorts(folder) : OutPorts(folder) \ outputUsed = {o}

PackedInv ==
  phase \in {"seed", "kahn"} \/ Accepted =>
    /\ PackedOK(packed)
    /\ Len(packed) <= PackedCount(folder)
    /\ PackedCount(folder) # 1 => packed = folder.packed

\* The queue is still to be filled.
QueueEmpty == phase \in {"bind", "packed"} => ready = << >> /\ cursor = 0

InReady(c) == \E k \in 1 .. Len(ready) : ready[k] = c

ReadyOnce == \A k, l \in 1 .. Len(ready) : ready[k] = ready[l] => k = l

\* Every coder in the queue comes after the coders it reads from.
ReadyInOrder ==
  \A k \in 1 .. Len(ready), p \in Pairs(folder) :
     Destination(folder, p) = ready[k] =>
        \E j \in 1 .. k - 1 : ready[j] = Source(folder, p)

SeedInv ==
  phase = "seed" =>
    /\ at \in 0 .. folder.coders
    /\ cursor = 0
    /\ \A c \in Coders(folder) : indegree[c] = Dependencies(c)
    /\ ReadyOnce
    /\ ReadyInOrder
    /\ \A c \in Coders(folder) : InReady(c) <=> c < at /\ indegree[c] = 0

\* The loops have been over bind pair p with its source at the cursor.
Relaxed(p) ==
  \E k \in 1 .. cursor : /\ ready[k] = Source(folder, p)
                         /\ k < cursor \/ p < at

Unmet(c) == {p \in Pairs(folder) : Destination(folder, p) = c /\ ~ Relaxed(p)}

KahnInv ==
  phase = "kahn" =>
    /\ at \in 1 .. Len(folder.pairs) + 1
    /\ cursor = 0 => at \notin Pairs(folder)
    /\ ReadyOnce
    /\ ReadyInOrder
    /\ \A c \in Coders(folder) : indegree[c] = Cardinality(Unmet(c))
    /\ \A c \in Coders(folder) : InReady(c) <=> indegree[c] = 0

OrderInv ==
  Accepted => /\ Len(ready) = folder.coders
              /\ ReadyOnce
              /\ ReadyInOrder

PortsEmpty ==
  phase \in {"bind", "packed", "seed", "kahn", "registration"} =>
    /\ \A i \in InPorts(folder) : inPort[i] = Empty
    /\ \A o \in OutPorts(folder) : outPort[o] = Empty

LoadInv ==
  phase = "load" =>
    /\ at \in 1 .. Len(packed) + 1
    /\ SingleOutput
    /\ \A j \in 1 .. Len(packed) :
          inPort[packed[j]] = IF j < at THEN Packed(j) ELSE Empty
    /\ \A i \in inputUsed : inPort[i] = Empty
    /\ \A o \in OutPorts(folder) : outPort[o] = Empty

\* Coder c has run.
Ran(c) == \E k \in 1 .. at - 1 : ready[k] = c

RunInv ==
  phase = "run" =>
    /\ at \in 1 .. Len(ready) + 1
    /\ SingleOutput
    /\ \A j \in 1 .. Len(packed) :
          inPort[packed[j]] =
            IF Ran(folder.inOwner[packed[j]]) THEN Empty ELSE Packed(j)
    /\ \A p \in Pairs(folder) :
          inPort[folder.pairs[p].input] =
            IF Ran(Source(folder, p)) /\ ~ Ran(Destination(folder, p))
            THEN Output(Source(folder, p)) ELSE Empty
    /\ \A o \in OutPorts(folder) :
          outPort[o] = IF o \notin outputUsed /\ Ran(folder.outOwner[o])
                       THEN Output(folder.outOwner[o]) ELSE Empty
    /\ \A j \in 1 .. Len(packed) :
          Ran(folder.inOwner[packed[j]]) => fed[packed[j]] = Packed(j)
    /\ \A p \in Pairs(folder) :
          Ran(Destination(folder, p)) =>
            fed[folder.pairs[p].input] = Output(Source(folder, p))

FedAsWired ==
  /\ \A j \in 1 .. Len(packed) : fed[packed[j]] = Packed(j)
  /\ \A p \in Pairs(folder) :
        fed[folder.pairs[p].input] = Output(Source(folder, p))

FinishInv ==
  /\ phase = "finish" =>
       /\ \A i \in InPorts(folder) : inPort[i] = Empty
       /\ \A o \in OutPorts(folder) : outPort[o] # Empty <=> o \notin outputUsed
  /\ phase = "finish" \/ result = "ok" => FedAsWired

\* While the operation runs there is no result.
ResultInv == phase # "done" => result = "none"

IInv ==
  /\ TypeOK
  /\ ResultInv
  /\ PairsInv
  /\ PackedInv
  /\ QueueEmpty
  /\ SeedInv
  /\ KahnInv
  /\ OrderInv
  /\ PortsEmpty
  /\ LoadInv
  /\ RunInv
  /\ FinishInv
  /\ NoInternalError
-----------------------------------------------------------------------------
(***************************************************************************)
(* Facts about raw folders and about the definitions above.                *)
(***************************************************************************)

\* An element of a sequence over S is in S.
LEMMA ElementFacts ==
  ASSUME NEW S, NEW s \in Seq(S), NEW p \in 1 .. Len(s)
  PROVE  s[p] \in S
  OBVIOUS

\* What the parser guarantees, in the form the proofs use.
LEMMA RawFacts ==
  ASSUME TypeOK
  PROVE  /\ folder.coders \in Nat \ {0}
         /\ folder.inputs \in Nat \ {0}
         /\ folder.outputs \in Nat \ {0}
         /\ folder.inOwner \in [InPorts(folder) -> Coders(folder)]
         /\ folder.outOwner \in [OutPorts(folder) -> Coders(folder)]
         /\ Len(folder.pairs) \in Nat
         /\ \A p \in Pairs(folder) : /\ folder.pairs[p].input \in Nat
                                     /\ folder.pairs[p].output \in Nat
         /\ folder.packed \in Seq(Nat)
         /\ PackedCount(folder) \in Nat \ {0}
         /\ Len(folder.packed) <= PackedCount(folder)
         /\ PackedCount(folder) = 1 => Len(folder.packed) = 0
         /\ \A c \in Coders(folder) :
               \E o \in OutPorts(folder) : folder.outOwner[o] = c
  <1>1. RawFolder(folder)
    BY FoldersAssumption DEF TypeOK
  <1>2. folder.pairs \in Seq([input : Nat, output : Nat])
    BY <1>1 DEF RawFolder
  <1>3. \A p \in Pairs(folder) : folder.pairs[p] \in [input : Nat, output : Nat]
    BY <1>2, ElementFacts, Zenon DEF Pairs
  <1>4. \A p \in Pairs(folder) : /\ folder.pairs[p].input \in Nat
                                 /\ folder.pairs[p].output \in Nat
    BY <1>3
  <1>5. /\ folder.coders \in Nat \ {0}
        /\ folder.inputs \in Nat \ {0}
        /\ folder.outputs \in Nat \ {0}
        /\ folder.inOwner \in [InPorts(folder) -> Coders(folder)]
        /\ folder.outOwner \in [OutPorts(folder) -> Coders(folder)]
        /\ folder.packed \in Seq(Nat)
        /\ folder.inputs >= folder.outputs
        /\ Len(folder.packed) = IF PackedCount(folder) = 1 THEN 0
                                ELSE PackedCount(folder)
        /\ \A c \in Coders(folder) :
              \E o \in OutPorts(folder) : folder.outOwner[o] = c
    BY <1>1 DEF RawFolder
  <1>6. PackedCount(folder) \in Nat \ {0}
    BY <1>5 DEF PackedCount
  <1>7. Len(folder.pairs) \in Nat
    BY <1>2
  <1> QED
    BY <1>4, <1>5, <1>6, <1>7

\* An interval that starts at 0 is finite and has as many elements as its
\* bound says.
LEMMA IntervalFacts ==
  ASSUME NEW n \in Nat \ {0}
  PROVE  IsFiniteSet(0 .. n - 1) /\ Cardinality(0 .. n - 1) = n
  <1>1. 0 \in Int /\ n - 1 \in Int /\ ~ (0 > n - 1) /\ (n - 1) - 0 + 1 = n
    OBVIOUS
  <1>2. /\ IsFiniteSet(0 .. n - 1)
        /\ Cardinality(0 .. n - 1) = IF 0 > n - 1 THEN 0 ELSE (n - 1) - 0 + 1
    BY <1>1, FS_Interval, Zenon
  <1> QED
    BY <1>1, <1>2

\* The coders, ports and pairs are finite sets of numbers.
LEMMA FiniteFacts ==
  ASSUME TypeOK
  PROVE  /\ IsFiniteSet(Pairs(folder))
         /\ IsFiniteSet(Coders(folder))
         /\ Cardinality(Coders(folder)) = folder.coders
  <1>1. Len(folder.pairs) \in Nat /\ folder.coders \in Nat \ {0}
    BY RawFacts
  <1>2. IsFiniteSet(1 .. Len(folder.pairs))
    BY <1>1, FS_Interval
  <1>3. /\ IsFiniteSet(0 .. folder.coders - 1)
        /\ Cardinality(0 .. folder.coders - 1) = folder.coders
    BY <1>1, IntervalFacts
  <1> QED
    BY <1>2, <1>3 DEF Pairs, Coders

\* A set of bind pairs has a size; it is 0 only for the empty set.
LEMMA PairSetFacts ==
  ASSUME TypeOK, NEW S \in SUBSET Pairs(folder)
  PROVE  /\ IsFiniteSet(S)
         /\ Cardinality(S) \in Nat
         /\ Cardinality(S) = 0 <=> S = {}
  <1>1. IsFiniteSet(S)
    BY FiniteFacts, FS_Subset
  <1> QED
    BY <1>1, FS_CardinalityType, FS_EmptySet

\* An operation that ends without having accepted the folder owes nothing
\* more.
LEMMA HaltIInv ==
  ASSUME TypeOK', phase' = "done", result' \in {"format", "interrupted"}
  PROVE  IInv'
  BY DEF IInv, ResultInv, PairsInv, PackedInv, QueueEmpty, SeedInv, KahnInv, OrderInv,
         PortsEmpty, LoadInv, RunInv, FinishInv, NoInternalError, Accepted

\* One that ends after acceptance keeps what acceptance established.
LEMMA StopIInv ==
  ASSUME IInv, TypeOK', phase \in {"registration", "load", "run"},
         phase' = "done", result' \in {"refused", "decode"},
         UNCHANGED <<folder, graphVars>>
  PROVE  IInv'
  <1> USE DEF IInv
  <1>1. Accepted
    BY DEF Accepted
  <1>2. PairsInv'
    BY <1>1 DEF PairsInv, PairsChecked, graphVars
  <1>3. PackedInv'
    BY <1>1 DEF PackedInv, PackedOK, graphVars
  <1>4. OrderInv'
    BY <1>1 DEF OrderInv, ReadyOnce, ReadyInOrder, graphVars
  <1> QED
    BY <1>2, <1>3, <1>4
    DEF ResultInv, QueueEmpty, SeedInv, KahnInv, PortsEmpty, LoadInv, RunInv, FinishInv,
        NoInternalError

\* The initial state: no pair looked at, every port empty.
LEMMA InitIInv == Init => IInv
  <1> SUFFICES ASSUME Init PROVE IInv
    OBVIOUS
  <1>1. TypeOK
    BY DEF Init, TypeOK, Streams
  <1>2. Len(folder.pairs) \in Nat
    BY <1>1, RawFacts
  <1>3. ~ Accepted
    BY DEF Init, Accepted
  <1>4. PairsInv
    BY <1>2, <1>3 DEF Init, PairsInv, PairsChecked
  <1>5. PortsEmpty
    BY DEF Init, PortsEmpty
  <1> QED
    BY <1>1, <1>3, <1>4, <1>5
    DEF Init, IInv, ResultInv, PackedInv, QueueEmpty, SeedInv, KahnInv, OrderInv, LoadInv,
        RunInv, FinishInv, NoInternalError

-----------------------------------------------------------------------------
(***************************************************************************)
(* validate_folder_graph: bind pairs, root output, packed inputs.          *)
(***************************************************************************)
\* One bind pair: both its ends join the ports that are taken.
LEMMA BindIInv == IInv /\ Bind => IInv'
  <1> SUFFICES ASSUME IInv, Bind PROVE IInv'
    OBVIOUS
  <1> DEFINE pair == folder.pairs[at]
  <1>1. /\ phase = "bind" /\ at \in Pairs(folder)
        /\ UNCHANGED <<folder, packed, indegree, ready, cursor, inPort,
                       outPort, fed>>
    BY DEF Bind, portVars
  <1>2. TypeOK /\ result = "none" /\ PairsChecked(at - 1)
    BY <1>1 DEF IInv, ResultInv, PairsInv
  <1>3. Len(folder.pairs) \in Nat /\ at \in Nat
    BY <1>2, RawFacts DEF TypeOK
  <1>4. CASE ~ BindPairOK(pair)
    <2>1. phase' = "done" /\ result' = "format"
          /\ UNCHANGED <<inputUsed, outputUsed, at>>
      BY <1>4 DEF Bind, Return, Goto, pair
    <2>2. TypeOK'
      BY <1>1, <1>2, <2>1 DEF TypeOK
    <2> QED
      BY <2>1, <2>2, HaltIInv
  <1>5. CASE BindPairOK(pair)
    <2>1. /\ phase' = "bind" /\ at' = at + 1 /\ result' = "none"
          /\ inputUsed' = inputUsed \cup {pair.input}
          /\ outputUsed' = outputUsed \cup {pair.output}
      BY <1>2, <1>5 DEF Bind, Return, Goto, pair
    <2>2. /\ pair.input \in InPorts(folder) \ inputUsed
          /\ pair.output \in OutPorts(folder) \ outputUsed
      BY <1>5 DEF BindPairOK
    <2>3. TypeOK'
      BY <1>1, <1>2, <1>3, <2>1, <2>2 DEF TypeOK
    <2>4. at' \in 1 .. Len(folder.pairs) + 1
      BY <1>1, <1>3, <2>1 DEF Pairs
    <2>5. 1 .. at = 1 .. (at - 1) \cup {at} /\ at' - 1 = at
      BY <1>1, <1>3, <2>1 DEF Pairs
    <2>6. PairsChecked(at - 1)'
      <3>1. \A p \in 1 .. at : /\ folder.pairs[p].input \in InPorts(folder)
                               /\ folder.pairs[p].output \in OutPorts(folder)
        BY <1>2, <2>2, <2>5 DEF PairsChecked, pair
      <3>2. \A i \in InPorts(folder) :
               i \in inputUsed' <=> \E p \in 1 .. at : folder.pairs[p].input = i
        BY <1>2, <2>1, <2>5 DEF PairsChecked
      <3>3. \A o \in OutPorts(folder) :
               o \in outputUsed' <=> \E p \in 1 .. at : folder.pairs[p].output = o
        BY <1>2, <2>1, <2>5 DEF PairsChecked
      <3>4. \A p \in 1 .. at - 1 : /\ folder.pairs[p].input # pair.input
                                   /\ folder.pairs[p].output # pair.output
        BY <1>2, <2>2 DEF PairsChecked
      <3>5. \A p, q \in 1 .. at :
               p # q => /\ folder.pairs[p].input # folder.pairs[q].input
                        /\ folder.pairs[p].output # folder.pairs[q].output
        <4> SUFFICES ASSUME NEW p \in 1 .. at, NEW q \in 1 .. at, p # q
                     PROVE  /\ folder.pairs[p].input # folder.pairs[q].input
                            /\ folder.pairs[p].output # folder.pairs[q].output
          OBVIOUS
        <4>1. CASE p = at
          BY <2>5, <3>4, <4>1
        <4>2. CASE q = at
          BY <2>5, <3>4, <4>2
        <4>3. CASE p \in 1 .. at - 1 /\ q \in 1 .. at - 1
          BY <1>2, <4>3 DEF PairsChecked
        <4> QED
          BY <2>5, <4>1, <4>2, <4>3
      <3> QED
        BY <1>1, <2>1, <2>5, <3>1, <3>2, <3>3, <3>5 DEF PairsChecked
    <2>7. PairsInv'
      BY <1>1, <2>1, <2>4, <2>5, <2>6 DEF PairsInv, Accepted
    <2> QED
      BY <1>1, <2>1, <2>3, <2>7
      DEF IInv, ResultInv, PackedInv, QueueEmpty, SeedInv, KahnInv, OrderInv, PortsEmpty,
          LoadInv, RunInv, FinishInv, NoInternalError, Accepted
  <1> QED
    BY <1>4, <1>5

\* After the last bind pair: one output is left, or the folder is refused.
LEMMA FindRootIInv == IInv /\ FindRoot => IInv'
  <1> SUFFICES ASSUME IInv, FindRoot PROVE IInv'
    OBVIOUS
  <1> DEFINE free == OutPorts(folder) \ outputUsed
  <1>1. /\ phase = "bind" /\ at \notin Pairs(folder)
        /\ UNCHANGED <<folder, inputUsed, outputUsed, packed, indegree, ready,
                       cursor, inPort, outPort, fed>>
    BY DEF FindRoot, graphVars, portVars
  <1>2. /\ TypeOK /\ result = "none"
        /\ at \in 1 .. Len(folder.pairs) + 1 /\ PairsChecked(at - 1)
    BY <1>1 DEF IInv, ResultInv, PairsInv
  <1>3. Len(folder.pairs) \in Nat
    BY <1>2, RawFacts
  <1>4. at - 1 = Len(folder.pairs)
    BY <1>1, <1>2, <1>3 DEF Pairs
  <1>5. CASE ~ \E o \in free : free = {o}
    <2>1. phase' = "done" /\ result' = "format" /\ at' = at
      BY <1>5 DEF FindRoot, Return, Goto, free
    <2>2. TypeOK'
      BY <1>1, <1>2, <2>1 DEF TypeOK
    <2> QED
      BY <2>1, <2>2, HaltIInv
  <1>6. CASE \E o \in free : free = {o}
    <2>1. phase' = "packed" /\ result' = "none" /\ at' = 1
      BY <1>2, <1>6 DEF FindRoot, Return, Goto, free
    <2>2. TypeOK'
      BY <1>1, <1>2, <2>1 DEF TypeOK
    <2>3. PairsChecked(Len(folder.pairs))'
      BY <1>1, <1>2, <1>4 DEF PairsChecked
    <2>4. PairsInv'
      BY <1>1, <1>6, <2>1, <2>3 DEF PairsInv, free
    <2> QED
      BY <1>1, <2>1, <2>2, <2>4
      DEF IInv, ResultInv, PackedInv, QueueEmpty, SeedInv, KahnInv, OrderInv, PortsEmpty,
          LoadInv, RunInv, FinishInv, NoInternalError, Accepted
  <1> QED
    BY <1>5, <1>6

\* The packed indices: checked, and the queue still empty.
LEMMA AssignPackedIInv == IInv /\ AssignPacked => IInv'
  <1> SUFFICES ASSUME IInv, AssignPacked PROVE IInv'
    OBVIOUS
  <1>1. /\ phase = "packed"
        /\ UNCHANGED <<folder, inputUsed, outputUsed, ready, cursor, inPort,
                       outPort, fed>>
    BY DEF AssignPacked, portVars
  <1>2. TypeOK /\ result = "none" /\ ready = << >> /\ cursor = 0
    BY <1>1 DEF IInv, ResultInv, QueueEmpty
  <1>3. /\ folder.packed \in Seq(Nat) /\ PackedCount(folder) \in Nat \ {0}
        /\ Len(folder.packed) <= PackedCount(folder)
        /\ folder.inputs \in Nat /\ folder.coders \in Nat \ {0}
    BY <1>2, RawFacts
  <1>4. /\ packed' \in Seq(Nat)
        /\ Len(packed') <= PackedCount(folder)
        /\ PackedCount(folder) # 1 => packed' = folder.packed
    <2>1. CASE PackedCount(folder) # 1 /\ packed' = folder.packed
      BY <1>3, <2>1
    <2>2. CASE /\ PackedCount(folder) = 1
               /\ \E i \in InPorts(folder) : IsFirstFree(i) /\ packed' = <<i>>
      BY <1>3, <2>2 DEF InPorts
    <2>3. CASE PackedCount(folder) = 1 /\ packed' = << >>
      BY <1>3, <2>3
    <2> QED
      BY <2>1, <2>2, <2>3 DEF AssignPacked
  <1>5. CASE ~ PackedOK(packed')
    <2>1. phase' = "done" /\ result' = "format" /\ UNCHANGED <<at, indegree>>
      BY <1>5 DEF AssignPacked, Return, Goto
    <2>2. TypeOK'
      BY <1>1, <1>2, <1>4, <2>1 DEF TypeOK
    <2> QED
      BY <2>1, <2>2, HaltIInv
  <1>6. CASE PackedOK(packed')
    <2>1. /\ phase' = "seed" /\ result' = "none" /\ at' = 0
          /\ indegree' = [c \in Coders(folder) |-> Dependencies(c)]
      BY <1>2, <1>6 DEF AssignPacked, Return, Goto
    <2>2. ASSUME NEW c PROVE Dependencies(c) \in Nat
      <3> DEFINE S == {p \in Pairs(folder) : Destination(folder, p) = c}
      <3>1. S \in SUBSET Pairs(folder)
        OBVIOUS
      <3>2. Cardinality(S) \in Nat
        BY <1>2, <3>1, PairSetFacts
      <3> QED
        BY <3>2 DEF Dependencies
    <2>3. TypeOK'
      BY <1>1, <1>2, <1>4, <2>1, <2>2 DEF TypeOK
    <2>4. PairsInv'
      BY <1>1, <2>1 DEF IInv, PairsInv, PairsChecked
    <2>5. PackedInv'
      BY <1>1, <1>4, <1>6, <2>1 DEF PackedInv, PackedOK
    <2>6. \A c \in Coders(folder) : indegree'[c] = Dependencies(c)'
      BY <1>1, <2>1 DEF Dependencies
    <2>7. SeedInv'
      <3>1. ready' = << >> /\ cursor' = 0 /\ at' \in 0 .. folder'.coders
        BY <1>1, <1>2, <1>3, <2>1
      <3>2. 1 .. Len(ready') = {}
        BY <3>1
      <3>3. ReadyOnce' /\ ReadyInOrder'
        BY <3>2 DEF ReadyOnce, ReadyInOrder
      <3>4. \A c \in Coders(folder) : ~ InReady(c)' /\ ~ (c < at')
        BY <1>3, <2>1, <3>2 DEF InReady, Coders
      <3> QED
        BY <1>1, <2>6, <3>1, <3>3, <3>4 DEF SeedInv
    <2> QED
      BY <1>1, <2>1, <2>3, <2>4, <2>5, <2>7
      DEF IInv, ResultInv, QueueEmpty, KahnInv, OrderInv, PortsEmpty,
          LoadInv, RunInv, FinishInv, NoInternalError, Accepted
  <1> QED
    BY <1>5, <1>6
-----------------------------------------------------------------------------
(***************************************************************************)
(* topological_order                                                       *)
(***************************************************************************)

\* Pushing a coder that is not in the queue, after everything it reads from,
\* keeps the queue free of repetitions and in order.
LEMMA PushFacts ==
  ASSUME TypeOK, ReadyOnce, ReadyInOrder, folder' = folder,
         NEW d \in Coders(folder), ~ InReady(d), ready' = Append(ready, d),
         \A p \in Pairs(folder) : Destination(folder, p) = d =>
            \E j \in 1 .. Len(ready) : ready[j] = Source(folder, p)
  PROVE  /\ ready' \in Seq(Coders(folder))
         /\ Len(ready') = Len(ready) + 1
         /\ \A k \in 1 .. Len(ready) : ready'[k] = ready[k]
         /\ ReadyOnce'
         /\ ReadyInOrder'
         /\ \A c \in Coders(folder) : InReady(c)' <=> InReady(c) \/ c = d
  <1>1. ready \in Seq(Coders(folder)) /\ Len(ready) \in Nat
    BY DEF TypeOK
  <1>2. /\ ready' \in Seq(Coders(folder))
        /\ Len(ready') = Len(ready) + 1
        /\ \A k \in 1 .. Len(ready) : ready'[k] = ready[k]
        /\ ready'[Len(ready) + 1] = d
    BY <1>1
  <1>3. \A k \in 1 .. Len(ready') : k \in 1 .. Len(ready) \/ k = Len(ready) + 1
    BY <1>1, <1>2
  <1>4. ReadyOnce'
    <2> SUFFICES ASSUME NEW k \in 1 .. Len(ready'), NEW l \in 1 .. Len(ready'),
                        ready'[k] = ready'[l]
                 PROVE  k = l
      BY DEF ReadyOnce
    <2>1. \A m \in 1 .. Len(ready) : ready[m] # d
      BY DEF InReady
    <2> QED
      BY <1>2, <1>3, <2>1 DEF ReadyOnce
  <1>5. ReadyInOrder'
    <2> SUFFICES ASSUME NEW k \in 1 .. Len(ready'), NEW p \in Pairs(folder),
                        Destination(folder, p) = ready'[k]
                 PROVE  \E j \in 1 .. k - 1 : ready'[j] = Source(folder, p)
      BY DEF ReadyInOrder
    <2>1. CASE k \in 1 .. Len(ready)
      <3>1. PICK j \in 1 .. k - 1 : ready[j] = Source(folder, p)
        BY <1>2, <2>1 DEF ReadyInOrder
      <3>2. j \in 1 .. Len(ready)
        BY <1>1, <2>1
      <3> QED
        BY <1>2, <3>1, <3>2
    <2>2. CASE k = Len(ready) + 1
      BY <1>1, <1>2, <2>2
    <2> QED
      BY <1>3, <2>1, <2>2
  <1>6. \A c \in Coders(folder) : InReady(c)' <=> InReady(c) \/ c = d
    <2> SUFFICES ASSUME NEW c \in Coders(folder)
                 PROVE  InReady(c)' <=> InReady(c) \/ c = d
      OBVIOUS
    <2>1. InReady(c)' <=> \E k \in 1 .. Len(ready') : ready'[k] = c
      BY DEF InReady
    <2>2. 1 .. Len(ready') = 1 .. Len(ready) \cup {Len(ready) + 1}
      BY <1>1, <1>2
    <2> QED
      BY <1>2, <2>1, <2>2 DEF InReady
  <1> QED
    BY <1>2, <1>4, <1>5, <1>6

\* The bind pairs and packed indices stay checked.
LEMMA KeepPorts ==
  ASSUME IInv, phase \in {"seed", "kahn"} \/ Accepted, phase' # "bind",
         UNCHANGED <<folder, inputUsed, outputUsed, packed>>
  PROVE  PairsInv' /\ PackedInv'
  BY DEF IInv, PairsInv, PairsChecked, PackedInv, PackedOK

\* Seeding: the queue holds the coders looked at that depend on none.
LEMMA SeedIInv == IInv /\ Seed => IInv'
  <1> SUFFICES ASSUME IInv, Seed PROVE IInv'
    OBVIOUS
  <1>1. /\ phase = "seed"
        /\ UNCHANGED <<folder, inputUsed, outputUsed, packed, indegree,
                       cursor, inPort, outPort, fed>>
    BY DEF Seed, portVars
  <1>2. /\ TypeOK /\ result = "none" /\ at \in 0 .. folder.coders
        /\ cursor = 0 /\ ReadyOnce /\ ReadyInOrder
        /\ \A c \in Coders(folder) : indegree[c] = Dependencies(c)
        /\ \A c \in Coders(folder) : InReady(c) <=> c < at /\ indegree[c] = 0
    BY <1>1 DEF IInv, ResultInv, SeedInv
  <1>3. folder.coders \in Nat \ {0} /\ Len(folder.pairs) \in Nat
    BY <1>2, RawFacts
  <1>4. phase' # "bind" => PairsInv' /\ PackedInv'
    BY <1>1, KeepPorts
  <1>5. CASE at \in Coders(folder)
    <2>1. /\ phase' = "seed" /\ result' = "none" /\ at' = at + 1
          /\ ready' = IF indegree[at] = 0 THEN Append(ready, at) ELSE ready
      BY <1>2, <1>5 DEF Seed, Goto
    <2>2. at' \in 0 .. folder.coders
      BY <1>3, <1>5, <2>1 DEF Coders
    <2>3. /\ ready' \in Seq(Coders(folder))
          /\ ReadyOnce' /\ ReadyInOrder'
          /\ \A c \in Coders(folder) :
                InReady(c)' <=> c < at + 1 /\ indegree[c] = 0
      <3>1. CASE indegree[at] = 0
        <4>1. ~ InReady(at)
          BY <1>2, <1>3, <1>5 DEF Coders
        <4>2. \A p \in Pairs(folder) : Destination(folder, p) # at
          <5> DEFINE S == {p \in Pairs(folder) : Destination(folder, p) = at}
          <5>1. S \in SUBSET Pairs(folder)
            OBVIOUS
          <5>2. Cardinality(S) = 0
            BY <1>2, <1>5, <3>1 DEF Dependencies
          <5>3. S = {}
            BY <1>2, <5>1, <5>2, PairSetFacts
          <5> QED
            BY <5>3
        <4>3. ready' = Append(ready, at) /\ folder' = folder
          BY <1>1, <2>1, <3>1
        <4>4. /\ ready' \in Seq(Coders(folder))
              /\ ReadyOnce' /\ ReadyInOrder'
              /\ \A c \in Coders(folder) : InReady(c)' <=> InReady(c) \/ c = at
          BY <1>2, <1>5, <4>1, <4>2, <4>3, PushFacts
        <4> QED
          BY <1>2, <1>3, <3>1, <4>4 DEF Coders
      <3>2. CASE indegree[at] # 0
        <4>1. ready' = ready /\ folder' = folder
          BY <1>1, <2>1, <3>2
        <4>2. \A c \in Coders(folder) : c < at + 1 <=> c < at \/ c = at
          BY <1>3, <1>5 DEF Coders
        <4> QED
          BY <1>2, <3>2, <4>1, <4>2
          DEF ReadyOnce, ReadyInOrder, InReady, TypeOK
      <3> QED
        BY <3>1, <3>2
    <2>4. TypeOK'
      BY <1>1, <1>2, <2>1, <2>2, <2>3 DEF TypeOK
    <2>5. \A c \in Coders(folder) : indegree'[c] = Dependencies(c)'
      BY <1>1, <1>2 DEF Dependencies
    <2>6. SeedInv'
      BY <1>1, <1>2, <2>1, <2>2, <2>3, <2>5 DEF SeedInv
    <2> QED
      BY <1>1, <1>4, <2>1, <2>4, <2>6
      DEF IInv, ResultInv, QueueEmpty, KahnInv, OrderInv, PortsEmpty,
          LoadInv, RunInv, FinishInv, NoInternalError, Accepted
  <1>6. CASE at \notin Coders(folder)
    <2>1. /\ phase' = "kahn" /\ result' = "none" /\ ready' = ready
          /\ at' = Len(folder.pairs) + 1
      BY <1>2, <1>6 DEF Seed, Goto
    <2>2. at = folder.coders
      BY <1>2, <1>3, <1>6 DEF Coders
    <2>3. TypeOK'
      BY <1>1, <1>2, <1>3, <2>1 DEF TypeOK
    <2>4. at' \in 1 .. Len(folder.pairs) + 1 /\ at' \notin Pairs(folder)
      BY <1>3, <2>1 DEF Pairs
    <2>5. ReadyOnce' /\ ReadyInOrder'
      BY <1>1, <1>2, <2>1 DEF ReadyOnce, ReadyInOrder
    <2>6. ASSUME NEW c \in Coders(folder)
          PROVE  indegree'[c] = Cardinality(Unmet(c)')
      <3>1. \A p : ~ Relaxed(p)'
        BY <1>1, <1>2 DEF Relaxed
      <3>2. Unmet(c)' = {p \in Pairs(folder) : Destination(folder, p) = c}
        BY <1>1, <3>1 DEF Unmet
      <3> QED
        BY <1>1, <1>2, <3>2 DEF Dependencies
    <2>7. ASSUME NEW c \in Coders(folder)
          PROVE  InReady(c)' <=> indegree'[c] = 0
      BY <1>1, <1>2, <1>3, <2>1, <2>2, <2>7 DEF InReady, Coders
    <2>8. KahnInv'
      BY <1>1, <2>1, <2>4, <2>5, <2>6, <2>7 DEF KahnInv
    <2> QED
      BY <1>1, <1>4, <2>1, <2>3, <2>8
      DEF IInv, ResultInv, QueueEmpty, SeedInv, OrderInv, PortsEmpty,
          LoadInv, RunInv, FinishInv, NoInternalError, Accepted
  <1> QED
    BY <1>5, <1>6

\* What KahnInv' follows from when a step leaves the queue and the unmet
\* dependencies alone.
LEMMA KahnStill ==
  ASSUME IInv, TypeOK', phase = "kahn", phase' = "kahn", result' = "none",
         at' \in 1 .. Len(folder.pairs) + 1,
         cursor' = 0 => at' \notin Pairs(folder),
         \A p \in Pairs(folder) : Relaxed(p)' <=> Relaxed(p),
         UNCHANGED <<folder, inputUsed, outputUsed, packed, indegree, ready,
                     inPort, outPort, fed>>
  PROVE  IInv'
  <1>1. ReadyOnce' /\ ReadyInOrder'
    BY DEF IInv, KahnInv, ReadyOnce, ReadyInOrder
  <1>2. ASSUME NEW c \in Coders(folder)
        PROVE  indegree'[c] = Cardinality(Unmet(c)')
    <2>1. Unmet(c)' = Unmet(c)
      BY DEF Unmet
    <2> QED
      BY <2>1 DEF IInv, KahnInv
  <1>3. \A c \in Coders(folder) : InReady(c)' <=> indegree'[c] = 0
    BY DEF IInv, KahnInv, InReady
  <1>4. KahnInv'
    BY <1>1, <1>2, <1>3 DEF KahnInv
  <1>5. PairsInv' /\ PackedInv'
    BY KeepPorts
  <1> QED
    BY <1>4, <1>5
    DEF IInv, ResultInv, QueueEmpty, SeedInv, OrderInv, PortsEmpty,
        LoadInv, RunInv, FinishInv, NoInternalError, Accepted

\* Taking the next queue entry: every edge of the previous one was met.
LEMMA TakeReadyIInv == IInv /\ TakeReady => IInv'
  <1> SUFFICES ASSUME IInv, TakeReady PROVE IInv'
    OBVIOUS
  <1>1. /\ phase = "kahn" /\ at \notin Pairs(folder) /\ cursor < Len(ready)
        /\ cursor' = cursor + 1 /\ phase' = "kahn" /\ at' = 1
        /\ result' = result
        /\ UNCHANGED <<folder, inputUsed, outputUsed, packed, indegree, ready,
                       inPort, outPort, fed>>
    BY DEF TakeReady, Goto, portVars
  <1>2. TypeOK /\ result = "none" /\ at \in 1 .. Len(folder.pairs) + 1
    BY <1>1 DEF IInv, ResultInv, KahnInv
  <1>3. /\ Len(folder.pairs) \in Nat /\ cursor \in Nat /\ Len(ready) \in Nat
        /\ cursor \in 0 .. Len(ready)
    BY <1>2, RawFacts DEF TypeOK
  <1>4. cursor' \in 0 .. Len(ready) /\ cursor' # 0
    BY <1>1, <1>3
  <1>5. TypeOK'
    BY <1>1, <1>2, <1>4 DEF TypeOK
  <1>6. \A p \in Pairs(folder) : Relaxed(p)' <=> Relaxed(p)
    <2> SUFFICES ASSUME NEW p \in Pairs(folder) PROVE Relaxed(p)' <=> Relaxed(p)
      OBVIOUS
    <2>1. p < at /\ ~ (p < at')
      BY <1>1, <1>2, <1>3 DEF Pairs
    <2>2. Relaxed(p) <=> \E k \in 1 .. cursor : ready[k] = Source(folder, p)
      BY <2>1 DEF Relaxed
    <2>3. Relaxed(p)' <=> \E k \in 1 .. cursor + 1 :
                             ready[k] = Source(folder, p) /\ k < cursor + 1
      BY <1>1, <2>1 DEF Relaxed
    <2> QED
      BY <1>3, <2>2, <2>3
  <1> QED
    BY <1>1, <1>2, <1>3, <1>4, <1>5, <1>6, KahnStill

\* Passing over an edge of another coder.
LEMMA SkipEdgeIInv == IInv /\ SkipEdge => IInv'
  <1> SUFFICES ASSUME IInv, SkipEdge PROVE IInv'
    OBVIOUS
  <1>1. /\ phase = "kahn" /\ at \in Pairs(folder)
        /\ Source(folder, at) # ready[cursor]
        /\ phase' = "kahn" /\ at' = at + 1 /\ result' = result
        /\ UNCHANGED <<folder, inputUsed, outputUsed, packed, indegree, ready,
                       cursor, inPort, outPort, fed>>
    BY DEF SkipEdge, Goto, graphVars, portVars
  <1>2. TypeOK /\ result = "none" /\ (cursor = 0 => at \notin Pairs(folder))
    BY <1>1 DEF IInv, ResultInv, KahnInv
  <1>3. /\ Len(folder.pairs) \in Nat /\ Len(ready) \in Nat
        /\ cursor \in 0 .. Len(ready) /\ at \in Nat
    BY <1>2, RawFacts DEF TypeOK
  <1>4. at' \in 1 .. Len(folder.pairs) + 1 /\ cursor' # 0
    BY <1>1, <1>2, <1>3 DEF Pairs
  <1>5. TypeOK'
    BY <1>1, <1>2, <1>3 DEF TypeOK
  <1>6. \A p \in Pairs(folder) : Relaxed(p)' <=> Relaxed(p)
    <2> SUFFICES ASSUME NEW p \in Pairs(folder) PROVE Relaxed(p)' <=> Relaxed(p)
      OBVIOUS
    <2>1. Relaxed(p)' <=> \E k \in 1 .. cursor : /\ ready[k] = Source(folder, p)
                                                 /\ k < cursor \/ p < at + 1
      BY <1>1 DEF Relaxed
    <2>2. p < at + 1 <=> p < at \/ p = at
      BY <1>3 DEF Pairs
    <2>3. \A k \in 1 .. cursor : k < cursor \/ k = cursor
      BY <1>3
    <2> QED
      BY <1>1, <2>1, <2>2, <2>3 DEF Relaxed
  <1> QED
    BY <1>1, <1>2, <1>4, <1>5, <1>6, KahnStill

\* Both ends of a checked bind pair belong to coders of the folder.
LEMMA EndFacts ==
  ASSUME TypeOK, PairsChecked(Len(folder.pairs)), NEW p \in Pairs(folder)
  PROVE  /\ Source(folder, p) \in Coders(folder)
         /\ Destination(folder, p) \in Coders(folder)
  <1>1. /\ folder.pairs[p].input \in InPorts(folder)
        /\ folder.pairs[p].output \in OutPorts(folder)
    BY DEF PairsChecked, Pairs
  <1> QED
    BY <1>1, RawFacts DEF Source, Destination

\* Meeting one dependency: the edge was unmet, so the indegree of its
\* destination is not 0, and the destination is pushed when it was the last.
LEMMA RelaxEdgeIInv == IInv /\ RelaxEdge => IInv'
  <1> SUFFICES ASSUME IInv, RelaxEdge PROVE IInv'
    OBVIOUS
  <1> DEFINE d == Destination(folder, at)
  <1>1. /\ phase = "kahn" /\ at \in Pairs(folder)
        /\ Source(folder, at) = ready[cursor]
        /\ UNCHANGED <<folder, inputUsed, outputUsed, packed, cursor, inPort,
                       outPort, fed>>
    BY DEF RelaxEdge, portVars
  <1>2. /\ TypeOK /\ result = "none" /\ ReadyOnce /\ ReadyInOrder
        /\ cursor = 0 => at \notin Pairs(folder)
        /\ \A c \in Coders(folder) : indegree[c] = Cardinality(Unmet(c))
        /\ \A c \in Coders(folder) : InReady(c) <=> indegree[c] = 0
        /\ PairsChecked(Len(folder.pairs))
    BY <1>1 DEF IInv, ResultInv, KahnInv, PairsInv
  <1>3. /\ Len(folder.pairs) \in Nat /\ Len(ready) \in Nat
        /\ cursor \in 1 .. Len(ready) /\ at \in Nat
        /\ indegree \in [Coders(folder) -> Nat]
        /\ ready \in Seq(Coders(folder))
    <2>1. /\ cursor \in 0 .. Len(ready) /\ at \in Nat /\ cursor # 0
          /\ indegree \in [Coders(folder) -> Nat]
          /\ ready \in Seq(Coders(folder)) /\ Len(folder.pairs) \in Nat
      BY <1>1, <1>2, RawFacts DEF TypeOK
    <2>2. Len(ready) \in Nat
      BY <2>1
    <2> QED
      BY <2>1, <2>2
  <1>4. d \in Coders(folder)
    BY <1>1, <1>2, EndFacts DEF d
  <1>5. ~ Relaxed(at)
    <2> SUFFICES ASSUME NEW k \in 1 .. cursor, ready[k] = Source(folder, at),
                        k < cursor \/ at < at
                 PROVE  FALSE
      BY DEF Relaxed
    <2>1. k = cursor
      BY <1>1, <1>2, <1>3 DEF ReadyOnce
    <2> QED
      BY <1>3, <2>1
  <1>6. \A c : Unmet(c) \in SUBSET Pairs(folder)
    BY DEF Unmet
  <1>7. at \in Unmet(d)
    BY <1>1, <1>5 DEF Unmet
  <1>8. indegree[d] \in Nat \ {0}
    <2>1. Cardinality(Unmet(d)) \in Nat /\ Cardinality(Unmet(d)) # 0
      BY <1>2, <1>6, <1>7, PairSetFacts
    <2> QED
      BY <1>2, <1>4, <2>1
  <1>9. /\ indegree' = [indegree EXCEPT ![d] = @ - 1]
        /\ ready' = IF indegree[d] = 1 THEN Append(ready, d) ELSE ready
        /\ phase' = "kahn" /\ at' = at + 1 /\ result' = "none"
    BY <1>2, <1>8 DEF RelaxEdge, Goto
  <1>10. Cardinality(Unmet(d) \ {at}) = indegree[d] - 1
    <2>1. IsFiniteSet(Unmet(d))
      BY <1>2, <1>6, PairSetFacts
    <2>2. Cardinality(Unmet(d) \ {at}) = Cardinality(Unmet(d)) - 1
      BY <1>7, <2>1, FS_RemoveElement
    <2> QED
      BY <1>2, <1>4, <2>2
  <1>11. /\ ready' \in Seq(Coders(folder))
         /\ Len(ready') \in Nat /\ Len(ready') >= Len(ready)
         /\ \A k \in 1 .. Len(ready) : ready'[k] = ready[k]
         /\ ReadyOnce' /\ ReadyInOrder'
         /\ \A c \in Coders(folder) :
               InReady(c)' <=> InReady(c) \/ (c = d /\ indegree[d] = 1)
    <2>1. CASE indegree[d] = 1
      <3>1. Unmet(d) \ {at} = {}
        <4>1. Unmet(d) \ {at} \in SUBSET Pairs(folder)
          BY <1>6
        <4> QED
          BY <1>2, <1>10, <2>1, <4>1, PairSetFacts, SMTT(40)
      <3>2. ~ InReady(d)
        BY <1>2, <1>4, <2>1
      <3>3. ASSUME NEW p \in Pairs(folder), Destination(folder, p) = d
            PROVE  \E j \in 1 .. Len(ready) : ready[j] = Source(folder, p)
        <4>1. p = at \/ Relaxed(p)
          BY <3>1, <3>3 DEF Unmet
        <4> QED
          BY <1>1, <1>3, <4>1 DEF Relaxed
      <3>4. ready' = Append(ready, d) /\ folder' = folder
        BY <1>1, <1>9, <2>1
      <3>5. /\ ready' \in Seq(Coders(folder))
            /\ Len(ready') = Len(ready) + 1
            /\ \A k \in 1 .. Len(ready) : ready'[k] = ready[k]
            /\ ReadyOnce' /\ ReadyInOrder'
            /\ \A c \in Coders(folder) : InReady(c)' <=> InReady(c) \/ c = d
        BY <1>2, <1>4, <3>2, <3>3, <3>4, PushFacts
      <3> QED
        BY <1>3, <2>1, <3>5
    <2>2. CASE indegree[d] # 1
      <3>1. ready' = ready /\ folder' = folder
        BY <1>1, <1>9, <2>2
      <3> QED
        BY <1>2, <1>3, <2>2, <3>1 DEF ReadyOnce, ReadyInOrder, InReady
    <2> QED
      BY <2>1, <2>2
  <1>12. \A p \in Pairs(folder) : Relaxed(p)' <=> Relaxed(p) \/ p = at
    <2> SUFFICES ASSUME NEW p \in Pairs(folder)
                 PROVE  Relaxed(p)' <=> Relaxed(p) \/ p = at
      OBVIOUS
    <2>1. \A k \in 1 .. cursor : ready'[k] = ready[k]
      BY <1>3, <1>11, SMTT(40)
    <2>2. Relaxed(p)' <=> \E k \in 1 .. cursor : /\ ready[k] = Source(folder, p)
                                                 /\ k < cursor \/ p < at + 1
      BY <1>1, <1>9, <2>1 DEF Relaxed
    <2>3. p < at + 1 <=> p < at \/ p = at
      BY <1>3 DEF Pairs
    <2>4. cursor \in 1 .. cursor
      BY <1>3
    <2> QED
      BY <1>1, <2>2, <2>3, <2>4 DEF Relaxed
  <1>13. ASSUME NEW c \in Coders(folder)
         PROVE  indegree'[c] = Cardinality(Unmet(c)')
    <2>1. Unmet(c)' = Unmet(c) \ {at}
      BY <1>1, <1>12 DEF Unmet
    <2>2. CASE c = d
      BY <1>3, <1>4, <1>9, <1>10, <2>1, <2>2
    <2>3. CASE c # d
      <3>1. Unmet(c) \ {at} = Unmet(c)
        BY <2>3 DEF Unmet
      <3> QED
        BY <1>2, <1>3, <1>9, <2>1, <2>3, <3>1
    <2> QED
      BY <2>2, <2>3
  <1>14. \A c \in Coders(folder) : InReady(c)' <=> indegree'[c] = 0
    BY <1>2, <1>3, <1>4, <1>8, <1>9, <1>11
  <1>15. /\ at' \in 1 .. Len(folder.pairs) + 1 /\ cursor' # 0
         /\ cursor' \in 0 .. Len(ready') /\ at' \in Nat
    BY <1>1, <1>3, <1>9, <1>11 DEF Pairs
  <1>16. TypeOK'
    <2>1. indegree' \in [Coders(folder) -> Nat]
      BY <1>3, <1>4, <1>8, <1>9
    <2> QED
      BY <1>1, <1>2, <1>9, <1>11, <1>15, <2>1 DEF TypeOK
  <1>17. KahnInv'
    BY <1>1, <1>11, <1>13, <1>14, <1>15 DEF KahnInv
  <1>18. PairsInv' /\ PackedInv'
    BY <1>1, <1>9, KeepPorts
  <1> QED
    BY <1>1, <1>9, <1>16, <1>17, <1>18
    DEF IInv, ResultInv, QueueEmpty, SeedInv, OrderInv, PortsEmpty,
        LoadInv, RunInv, FinishInv, NoInternalError, Accepted

\* The end of the queue: as many entries as coders, or a cycle.
LEMMA OrderDoneIInv == IInv /\ OrderDone => IInv'
  <1> SUFFICES ASSUME IInv, OrderDone PROVE IInv'
    OBVIOUS
  <1>1. /\ phase = "kahn"
        /\ UNCHANGED <<folder, inputUsed, outputUsed, packed, indegree, ready,
                       cursor, inPort, outPort, fed>>
    BY DEF OrderDone, graphVars, portVars
  <1>2. TypeOK /\ result = "none" /\ ReadyOnce /\ ReadyInOrder
    BY <1>1 DEF IInv, ResultInv, KahnInv
  <1>3. CASE Len(ready) # folder.coders
    <2>1. phase' = "done" /\ result' = "format" /\ at' = at
      BY <1>3 DEF OrderDone, Return, Goto
    <2>2. TypeOK'
      BY <1>1, <1>2, <2>1 DEF TypeOK
    <2> QED
      BY <2>1, <2>2, HaltIInv
  <1>4. CASE Len(ready) = folder.coders
    <2>1. phase' = "registration" /\ result' = "none" /\ at' = 1
      BY <1>2, <1>4 DEF OrderDone, Return, Goto
    <2>2. TypeOK'
      BY <1>1, <1>2, <2>1 DEF TypeOK
    <2>3. OrderInv'
      BY <1>1, <1>2, <1>4 DEF OrderInv, ReadyOnce, ReadyInOrder
    <2>4. PairsInv' /\ PackedInv'
      BY <1>1, <2>1, KeepPorts
    <2> QED
      BY <1>1, <2>1, <2>2, <2>3, <2>4
      DEF IInv, ResultInv, QueueEmpty, SeedInv, KahnInv, PortsEmpty,
          LoadInv, RunInv, FinishInv, NoInternalError
  <1> QED
    BY <1>3, <1>4

-----------------------------------------------------------------------------
(***************************************************************************)
(* decode_folder                                                           *)
(***************************************************************************)

\* A packed stream or the output of a coder is not an empty port.
LEMMA StreamFacts ==
  /\ \A j : Packed(j) # Empty
  /\ \A c : Output(c) # Empty
  BY DEF Packed, Output, Empty

\* What acceptance established stays.
LEMMA KeepAccepted ==
  ASSUME IInv, Accepted, phase' # "bind", UNCHANGED <<folder, graphVars>>
  PROVE  PairsInv' /\ PackedInv' /\ OrderInv'
  <1>1. UNCHANGED <<folder, inputUsed, outputUsed, packed, ready>>
    BY DEF graphVars
  <1>2. PairsInv' /\ PackedInv'
    BY <1>1, KeepPorts
  <1>3. OrderInv'
    BY <1>1 DEF IInv, OrderInv, ReadyOnce, ReadyInOrder
  <1> QED
    BY <1>2, <1>3

\* Registration of the coders.
LEMMA CheckRegistrationIInv == IInv /\ CheckRegistration => IInv'
  <1> SUFFICES ASSUME IInv, CheckRegistration PROVE IInv'
    OBVIOUS
  <1>1. /\ phase = "registration" /\ UNCHANGED <<folder, graphVars, portVars>>
    BY DEF CheckRegistration
  <1>2. /\ TypeOK /\ result = "none" /\ Accepted /\ PackedOK(packed)
        /\ \A i \in InPorts(folder) : inPort[i] = Empty
        /\ \A o \in OutPorts(folder) : outPort[o] = Empty
    BY <1>1 DEF IInv, ResultInv, Accepted, PortsEmpty, PackedInv
  <1>3. CASE Return("refused") /\ at' = at
    <2>1. TypeOK'
      BY <1>1, <1>2, <1>3 DEF TypeOK, Return, graphVars, portVars
    <2> QED
      BY <1>1, <1>3, <2>1, StopIInv DEF Return
  <1>4. CASE SingleOutput /\ Goto("load", 1)
    <2>1. phase' = "load" /\ result' = "none" /\ at' = 1
      BY <1>2, <1>4 DEF Goto
    <2>2. TypeOK'
      BY <1>1, <1>2, <2>1 DEF TypeOK, graphVars, portVars
    <2>3. packed \in Seq(Nat) /\ inputUsed \subseteq InPorts(folder)
      BY <1>2 DEF TypeOK
    <2>4. \A j \in 1 .. Len(packed) : packed[j] \in InPorts(folder) /\ ~ (j < 1)
      BY <1>2, <2>3 DEF PackedOK
    <2>5. LoadInv'
      <3>1. SingleOutput'
        BY <1>1, <1>4 DEF SingleOutput
      <3>2. at' \in 1 .. Len(packed) + 1
        BY <2>1, <2>3
      <3> QED
        BY <1>1, <1>2, <2>1, <2>3, <2>4, <3>1, <3>2
        DEF LoadInv, graphVars, portVars
    <2>6. PairsInv' /\ PackedInv' /\ OrderInv'
      BY <1>1, <1>2, <2>1, KeepAccepted
    <2> QED
      BY <2>1, <2>2, <2>5, <2>6
      DEF IInv, ResultInv, QueueEmpty, SeedInv, KahnInv, PortsEmpty,
          RunInv, FinishInv, NoInternalError
  <1> QED
    BY <1>3, <1>4 DEF CheckRegistration

\* One packed stream: its port is still empty, since no index is repeated.
LEMMA LoadPackedIInv == IInv /\ LoadPacked => IInv'
  <1> SUFFICES ASSUME IInv, LoadPacked PROVE IInv'
    OBVIOUS
  <1>1. /\ phase = "load" /\ at \in 1 .. Len(packed)
        /\ UNCHANGED <<folder, graphVars, outPort, fed>>
    BY DEF LoadPacked
  <1>2. /\ TypeOK /\ result = "none" /\ Accepted /\ PackedOK(packed)
        /\ Len(packed) <= PackedCount(folder)
        /\ SingleOutput
        /\ \A j \in 1 .. Len(packed) :
              inPort[packed[j]] = IF j < at THEN Packed(j) ELSE Empty
        /\ \A i \in inputUsed : inPort[i] = Empty
        /\ \A o \in OutPorts(folder) : outPort[o] = Empty
    BY <1>1 DEF IInv, ResultInv, Accepted, PackedInv, LoadInv
  <1>3. /\ packed \in Seq(Nat) /\ inputUsed \subseteq InPorts(folder)
        /\ at \in Nat /\ Len(packed) \in Nat /\ PackedCount(folder) \in Nat
        /\ inPort \in [InPorts(folder) -> Streams(folder)]
    BY <1>2, RawFacts DEF TypeOK
  <1>4. /\ \A j \in 1 .. Len(packed) : packed[j] \in InPorts(folder) \ inputUsed
        /\ \A j, k \in 1 .. Len(packed) : packed[j] = packed[k] => j = k
    BY <1>2, <1>3 DEF PackedOK
  <1>5. inPort[packed[at]] = Empty
    BY <1>1, <1>2, <1>3
  <1>6. CASE Return("decode") /\ UNCHANGED <<at, inPort>>
    <2>1. TypeOK'
      BY <1>1, <1>2, <1>6 DEF TypeOK, Return, graphVars
    <2> QED
      BY <1>1, <1>6, <2>1, StopIInv DEF Return
  <1>7. CASE /\ inPort' = [inPort EXCEPT ![packed[at]] = Packed(at)]
             /\ Goto("load", at + 1)
    <2>1. phase' = "load" /\ result' = "none" /\ at' = at + 1
      BY <1>2, <1>7 DEF Goto
    <2>2. inPort' \in [InPorts(folder) -> Streams(folder)]
      <3>1. at \in 1 .. PackedCount(folder)
        BY <1>1, <1>2, <1>3
      <3>2. Packed(at) \in Streams(folder)
        BY <3>1 DEF Streams
      <3> QED
        BY <1>3, <1>7, <3>2
    <2>3. TypeOK'
      BY <1>1, <1>2, <1>3, <2>1, <2>2 DEF TypeOK, graphVars
    <2>4. \A j \in 1 .. Len(packed) :
             inPort'[packed[j]] = IF j < at + 1 THEN Packed(j) ELSE Empty
      <3> SUFFICES ASSUME NEW j \in 1 .. Len(packed)
                   PROVE  inPort'[packed[j]] =
                            IF j < at + 1 THEN Packed(j) ELSE Empty
        OBVIOUS
      <3>1. CASE j = at
        BY <1>1, <1>3, <1>4, <1>7, <3>1
      <3>2. CASE j # at
        <4>1. packed[j] # packed[at]
          BY <1>1, <1>4, <3>2
        <4>2. inPort'[packed[j]] = inPort[packed[j]]
          BY <1>3, <1>4, <1>7, <4>1
        <4>3. j < at + 1 <=> j < at
          BY <1>3, <3>2
        <4> QED
          BY <1>2, <4>2, <4>3
      <3> QED
        BY <3>1, <3>2
    <2>5. \A i \in inputUsed : inPort'[i] = Empty
      BY <1>1, <1>2, <1>3, <1>4, <1>7
    <2>6. LoadInv'
      <3>1. SingleOutput'
        BY <1>1, <1>2 DEF SingleOutput
      <3>2. at' \in 1 .. Len(packed) + 1
        BY <1>1, <1>3, <2>1
      <3> QED
        BY <1>1, <1>2, <2>1, <2>4, <2>5, <3>1, <3>2 DEF LoadInv, graphVars
    <2>7. PairsInv' /\ PackedInv' /\ OrderInv'
      BY <1>1, <1>2, <2>1, KeepAccepted
    <2> QED
      BY <2>1, <2>3, <2>6, <2>7
      DEF IInv, ResultInv, QueueEmpty, SeedInv, KahnInv, PortsEmpty,
          RunInv, FinishInv, NoInternalError
  <1> QED
    BY <1>5, <1>6, <1>7 DEF LoadPacked

\* Before the first coder runs: exactly the packed ports are full.
LEMMA LoadDoneIInv == IInv /\ LoadDone => IInv'
  <1> SUFFICES ASSUME IInv, LoadDone PROVE IInv'
    OBVIOUS
  <1>1. /\ phase = "load" /\ at \notin 1 .. Len(packed)
        /\ UNCHANGED <<folder, graphVars, portVars>>
        /\ phase' = "run" /\ at' = 1 /\ result' = result
    BY DEF LoadDone, Goto
  <1>2. /\ TypeOK /\ result = "none" /\ Accepted
        /\ PairsChecked(Len(folder.pairs))
        /\ at \in 1 .. Len(packed) + 1
        /\ SingleOutput
        /\ \A j \in 1 .. Len(packed) :
              inPort[packed[j]] = IF j < at THEN Packed(j) ELSE Empty
        /\ \A i \in inputUsed : inPort[i] = Empty
        /\ \A o \in OutPorts(folder) : outPort[o] = Empty
    BY <1>1 DEF IInv, ResultInv, Accepted, LoadInv, PairsInv
  <1>3. packed \in Seq(Nat) /\ ready \in Seq(Coders(folder))
    BY <1>2 DEF TypeOK
  <1>4. TypeOK'
    BY <1>1, <1>2 DEF TypeOK, graphVars, portVars
  <1>5. \A c : ~ Ran(c)'
    BY <1>1 DEF Ran
  <1>6. \A j \in 1 .. Len(packed) : inPort[packed[j]] = Packed(j)
    BY <1>1, <1>2, <1>3
  <1>7. \A p \in Pairs(folder) : inPort[folder.pairs[p].input] = Empty
    BY <1>2 DEF PairsChecked, Pairs
  <1>8. RunInv'
    <2>1. SingleOutput'
      BY <1>1, <1>2 DEF SingleOutput
    <2>2. at' \in 1 .. Len(ready) + 1
      BY <1>1, <1>3
    <2> QED
      BY <1>1, <1>2, <1>5, <1>6, <1>7, <2>1, <2>2 DEF RunInv, graphVars, portVars
  <1>9. PairsInv' /\ PackedInv' /\ OrderInv'
    BY <1>1, <1>2, KeepAccepted
  <1> QED
    BY <1>1, <1>2, <1>4, <1>8, <1>9
    DEF IInv, ResultInv, QueueEmpty, SeedInv, KahnInv, PortsEmpty,
        LoadInv, FinishInv, NoInternalError

\* An order as long as the folder has coders, with no repetition, is a
\* permutation of them.
LEMMA OrderIsComplete ==
  ASSUME TypeOK, ReadyOnce, Len(ready) = folder.coders
  PROVE  \A c \in Coders(folder) : InReady(c)
  <1>1. ready \in Seq(Coders(folder)) /\ Len(ready) \in Nat \ {0}
    BY RawFacts DEF TypeOK
  <1>2. IsFiniteSet(Coders(folder)) /\ Cardinality(Coders(folder)) = Len(ready)
    BY FiniteFacts
  <1>3. ready \in [1 .. Len(ready) -> Coders(folder)]
    BY <1>1
  <1>4. ready \in Injection(1 .. Len(ready), Coders(folder))
    BY <1>3 DEF ReadyOnce, Injection, IsInjective
  <1>5. Cardinality(1 .. Len(ready)) = Len(ready)
    <2>1. 1 \in Int /\ Len(ready) \in Int
      BY <1>1
    <2>2. Cardinality(1 .. Len(ready)) =
            IF 1 > Len(ready) THEN 0 ELSE Len(ready) - 1 + 1
      BY <2>1, FS_Interval, Zenon
    <2> QED
      BY <1>1, <2>2
  <1>6. ready \in Surjection(1 .. Len(ready), Coders(folder))
    BY <1>2, <1>4, <1>5, FS_Injection
  <1> QED
    BY <1>6 DEF Surjection, InReady

\* The state in which coder ready[at] runs: it has not run, the coders it
\* reads from have, no coder that reads from it has, and its inputs are full.
LEMMA TurnFacts ==
  ASSUME IInv, phase = "run", at \in 1 .. Len(ready)
  PROVE  /\ TypeOK /\ result = "none" /\ Accepted /\ SingleOutput
         /\ PairsChecked(Len(folder.pairs)) /\ PackedOK(packed)
         /\ packed \in Seq(Nat) /\ at \in Nat /\ Len(ready) \in Nat
         /\ ready[at] \in Coders(folder)
         /\ ~ Ran(ready[at])
         /\ \A p \in Pairs(folder) :
               Destination(folder, p) = ready[at] => Ran(Source(folder, p))
         /\ \A p \in Pairs(folder) :
               Source(folder, p) = ready[at] =>
                  /\ Destination(folder, p) # ready[at]
                  /\ ~ Ran(Destination(folder, p))
         /\ \A i \in InputsOf(ready[at]) : inPort[i] # Empty
  <1>1. /\ TypeOK /\ result = "none" /\ Accepted /\ SingleOutput
        /\ PairsChecked(Len(folder.pairs)) /\ PackedOK(packed)
        /\ ReadyOnce /\ ReadyInOrder /\ RunInv
    BY DEF IInv, ResultInv, Accepted, RunInv, PairsInv, PackedInv, OrderInv
  <1>2. /\ packed \in Seq(Nat) /\ at \in Nat /\ ready \in Seq(Coders(folder))
    BY <1>1 DEF TypeOK
  <1>3. Len(ready) \in Nat /\ ready[at] \in Coders(folder)
    BY <1>2
  <1>4. ~ Ran(ready[at])
    BY <1>1, <1>2, <1>3 DEF Ran, ReadyOnce
  <1>5. \A p \in Pairs(folder) :
           Destination(folder, p) = ready[at] => Ran(Source(folder, p))
    BY <1>1 DEF ReadyInOrder, Ran
  <1>6. ASSUME NEW p \in Pairs(folder), Source(folder, p) = ready[at]
        PROVE  /\ Destination(folder, p) # ready[at]
               /\ ~ Ran(Destination(folder, p))
    <2>1. ASSUME NEW k \in 1 .. at, ready[k] = Destination(folder, p)
          PROVE  FALSE
      <3>1. k \in 1 .. Len(ready)
        BY <1>2, <1>3
      <3>2. PICK j \in 1 .. k - 1 : ready[j] = Source(folder, p)
        BY <1>1, <2>1, <3>1 DEF ReadyInOrder
      <3>3. j \in 1 .. Len(ready) /\ j # at
        BY <1>2, <1>3, <3>1
      <3> QED
        BY <1>1, <1>6, <3>2, <3>3 DEF ReadyOnce
    <2>2. at \in 1 .. at /\ \A k \in 1 .. at - 1 : k \in 1 .. at
      BY <1>2
    <2> QED
      BY <2>1, <2>2 DEF Ran
  <1>7. ASSUME NEW i \in InputsOf(ready[at])
        PROVE  inPort[i] # Empty
    <2>1. i \in InPorts(folder) /\ folder.inOwner[i] = ready[at]
      BY DEF InputsOf
    <2>2. CASE i \in inputUsed
      <3>1. PICK p \in Pairs(folder) : folder.pairs[p].input = i
        BY <1>1, <2>1, <2>2 DEF PairsChecked, Pairs
      <3>2. Destination(folder, p) = ready[at]
        BY <2>1, <3>1 DEF Destination
      <3>3. inPort[i] = Output(Source(folder, p))
        BY <1>1, <1>4, <1>5, <3>1, <3>2 DEF RunInv
      <3> QED
        BY <3>3, StreamFacts
    <2>3. CASE i \notin inputUsed
      <3>1. PICK j \in 1 .. Len(packed) : packed[j] = i
        BY <1>1, <1>2, <2>1, <2>3 DEF PackedOK
      <3>2. inPort[i] = Packed(j)
        BY <1>1, <1>4, <2>1, <3>1 DEF RunInv
      <3> QED
        BY <3>2, StreamFacts
    <2> QED
      BY <2>2, <2>3
  <1> QED
    BY <1>1, <1>2, <1>3, <1>4, <1>5, <1>6, <1>7

\* What a delivery does to the ports: the destination was empty, so that it
\* never ends with an internal error.
LEMMA DeliverFacts ==
  ASSUME IInv, phase = "run", at \in 1 .. Len(ready),
         NEW o \in OutputsOf(ready[at]), Deliver(ready[at], o)
  PROVE  /\ phase' = "run" /\ at' = at + 1 /\ result' = "none"
         /\ inPort' \in [InPorts(folder) -> Streams(folder)]
         /\ outPort' \in [OutPorts(folder) -> Streams(folder)]
         /\ \A i \in InPorts(folder) :
               inPort'[i] = IF BoundTo(o, i) THEN Output(ready[at])
                            ELSE IF i \in InputsOf(ready[at]) THEN Empty
                            ELSE inPort[i]
         /\ \A q \in OutPorts(folder) :
               outPort'[q] = IF q = o /\ o \notin outputUsed
                             THEN Output(ready[at]) ELSE outPort[q]
  <1> DEFINE c == ready[at]
  <1> DEFINE taken == [i \in InPorts(folder) |->
                         IF i \in InputsOf(c) THEN Empty ELSE inPort[i]]
  <1>1. /\ TypeOK /\ result = "none" /\ PairsChecked(Len(folder.pairs))
        /\ c \in Coders(folder) /\ ~ Ran(c)
    BY TurnFacts
  <1>2. o \in OutPorts(folder) /\ folder.outOwner[o] = c
    BY DEF OutputsOf
  <1>3. /\ inPort \in [InPorts(folder) -> Streams(folder)]
        /\ outPort \in [OutPorts(folder) -> Streams(folder)]
    BY <1>1 DEF TypeOK
  <1>4. Output(c) \in Streams(folder) /\ Empty \in Streams(folder)
    BY <1>1 DEF Streams
  <1>5. taken \in [InPorts(folder) -> Streams(folder)]
    BY <1>3, <1>4
  <1>6. RunInv
    BY DEF IInv
  <1>7. CASE \E i \in InPorts(folder) : BoundTo(o, i)
    <2>1. PICK i \in InPorts(folder) :
             /\ BoundTo(o, i)
             /\ \/ /\ taken[i] = Empty
                   /\ inPort' = [taken EXCEPT ![i] = Output(c)]
                   /\ Goto("run", at + 1)
                \/ /\ taken[i] # Empty
                   /\ Return("internal")
                   /\ UNCHANGED <<at, inPort>>
             /\ UNCHANGED outPort
      BY <1>7 DEF Deliver
    <2>2. PICK p \in Pairs(folder) : /\ folder.pairs[p].output = o
                                     /\ folder.pairs[p].input = i
      BY <2>1 DEF BoundTo
    <2>3. Source(folder, p) = c
      BY <1>2, <2>2 DEF Source
    <2>4. inPort[i] = Empty
      BY <1>1, <1>6, <2>2, <2>3 DEF RunInv
    <2>5. taken[i] = Empty
      BY <2>4
    <2>6. /\ inPort' = [taken EXCEPT ![i] = Output(c)]
          /\ outPort' = outPort
          /\ phase' = "run" /\ at' = at + 1 /\ result' = "none"
      BY <1>1, <2>1, <2>5 DEF Goto
    <2>7. o \in outputUsed
      BY <1>1, <1>2, <2>2 DEF PairsChecked, Pairs
    <2>8. \A j \in InPorts(folder) : BoundTo(o, j) <=> j = i
      BY <1>1, <2>1, <2>2 DEF BoundTo, PairsChecked, Pairs
    <2>9. \A j \in InPorts(folder) :
             inPort'[j] = IF BoundTo(o, j) THEN Output(c)
                          ELSE IF j \in InputsOf(c) THEN Empty ELSE inPort[j]
      BY <1>5, <2>6, <2>8
    <2>10. inPort' \in [InPorts(folder) -> Streams(folder)]
      BY <1>4, <1>5, <2>6
    <2> QED
      BY <1>3, <2>6, <2>7, <2>9, <2>10
  <1>8. CASE ~ \E i \in InPorts(folder) : BoundTo(o, i)
    <2>1. o \notin outputUsed
      BY <1>1, <1>2, <1>8 DEF PairsChecked, Pairs, BoundTo
    <2>2. outPort[o] = Empty
      BY <1>1, <1>2, <1>6 DEF RunInv
    <2>3. /\ outPort' = [outPort EXCEPT ![o] = Output(c)]
          /\ inPort' = taken
          /\ phase' = "run" /\ at' = at + 1 /\ result' = "none"
      BY <1>1, <1>8, <2>2 DEF Deliver, Goto
    <2>4. \A q \in OutPorts(folder) :
             outPort'[q] = IF q = o THEN Output(c) ELSE outPort[q]
      BY <1>2, <1>3, <2>3
    <2>5. outPort' \in [OutPorts(folder) -> Streams(folder)]
      BY <1>3, <1>4, <2>3
    <2> QED
      BY <1>5, <1>8, <2>1, <2>3, <2>4, <2>5
  <1> QED
    BY <1>7, <1>8

\* A coder runs and its output is delivered.
LEMMA DeliverIInv ==
  ASSUME IInv, phase = "run", at \in 1 .. Len(ready),
         NEW o \in OutputsOf(ready[at]), Deliver(ready[at], o),
         fed' = [i \in InPorts(folder) |->
                   IF i \in InputsOf(ready[at]) THEN inPort[i] ELSE fed[i]],
         UNCHANGED <<folder, graphVars>>
  PROVE  IInv'
  <1> DEFINE c == ready[at]
  <1>1. /\ TypeOK /\ result = "none" /\ Accepted /\ SingleOutput
        /\ PairsChecked(Len(folder.pairs)) /\ PackedOK(packed)
        /\ packed \in Seq(Nat) /\ at \in Nat /\ Len(ready) \in Nat
        /\ c \in Coders(folder) /\ ~ Ran(c)
        /\ \A p \in Pairs(folder) :
              Destination(folder, p) = c => Ran(Source(folder, p))
        /\ \A p \in Pairs(folder) :
              Source(folder, p) = c => /\ Destination(folder, p) # c
                                       /\ ~ Ran(Destination(folder, p))
    BY TurnFacts
  <1>2. /\ phase' = "run" /\ at' = at + 1 /\ result' = "none"
        /\ inPort' \in [InPorts(folder) -> Streams(folder)]
        /\ outPort' \in [OutPorts(folder) -> Streams(folder)]
        /\ \A i \in InPorts(folder) :
              inPort'[i] = IF BoundTo(o, i) THEN Output(c)
                           ELSE IF i \in InputsOf(c) THEN Empty ELSE inPort[i]
        /\ \A q \in OutPorts(folder) :
              outPort'[q] = IF q = o /\ o \notin outputUsed
                            THEN Output(c) ELSE outPort[q]
    BY DeliverFacts
  <1>3. o \in OutPorts(folder) /\ folder.outOwner[o] = c
    BY DEF OutputsOf
  <1>4. RunInv
    BY DEF IInv
  <1>5. UNCHANGED <<folder, inputUsed, outputUsed, packed, indegree, ready,
                    cursor>>
    BY DEF graphVars
  <1>6. \A x : Ran(x)' <=> Ran(x) \/ x = c
    BY <1>1, <1>2, <1>5 DEF Ran
  <1>7. /\ \A p \in Pairs(folder) :
              /\ folder.pairs[p].input \in InPorts(folder) \cap inputUsed
              /\ folder.pairs[p].output \in OutPorts(folder) \cap outputUsed
        /\ \A p, q \in Pairs(folder) :
              p # q => /\ folder.pairs[p].input # folder.pairs[q].input
                       /\ folder.pairs[p].output # folder.pairs[q].output
    BY <1>1 DEF PairsChecked, Pairs
  <1>8. \A j \in 1 .. Len(packed) : packed[j] \in InPorts(folder) \ inputUsed
    BY <1>1 DEF PackedOK
  <1>9. \A p \in Pairs(folder) :
           Source(folder, p) = c <=> folder.pairs[p].output = o
    BY <1>1, <1>3, <1>7 DEF Source, SingleOutput
  <1>10. \A p \in Pairs(folder) :
            BoundTo(o, folder.pairs[p].input) <=> Source(folder, p) = c
    BY <1>7, <1>9 DEF BoundTo
  <1>11. \A j \in 1 .. Len(packed) : ~ BoundTo(o, packed[j])
    BY <1>7, <1>8 DEF BoundTo
  <1>12. /\ \A j \in 1 .. Len(packed) :
               packed[j] \in InputsOf(c) <=> folder.inOwner[packed[j]] = c
         /\ \A p \in Pairs(folder) :
               folder.pairs[p].input \in InputsOf(c)
                 <=> Destination(folder, p) = c
    BY <1>7, <1>8 DEF InputsOf, Destination
  <1>13. TypeOK'
    <2>1. fed' \in [InPorts(folder) -> Streams(folder)]
      BY <1>1 DEF TypeOK
    <2> QED
      BY <1>1, <1>2, <1>5, <2>1 DEF TypeOK
  <1>14. \A j \in 1 .. Len(packed) :
            inPort'[packed[j]] = IF Ran(folder.inOwner[packed[j]])'
                                 THEN Empty ELSE Packed(j)
    BY <1>2, <1>4, <1>5, <1>6, <1>8, <1>11, <1>12 DEF RunInv
  <1>15. ASSUME NEW p \in Pairs(folder)
         PROVE  inPort'[folder.pairs[p].input] =
                  IF Ran(Source(folder, p))' /\ ~ Ran(Destination(folder, p))'
                  THEN Output(Source(folder, p)) ELSE Empty
    <2>1. CASE Source(folder, p) = c
      <3>1. /\ Ran(Source(folder, p))' /\ ~ Ran(Destination(folder, p))'
            /\ BoundTo(o, folder.pairs[p].input)
        BY <1>1, <1>5, <1>6, <1>10, <2>1
      <3> QED
        BY <1>2, <1>7, <2>1, <3>1
    <2>2. CASE Source(folder, p) # c
      <3>1. ~ BoundTo(o, folder.pairs[p].input)
        BY <1>10, <2>2
      <3>2. inPort'[folder.pairs[p].input] =
              IF Destination(folder, p) = c THEN Empty
              ELSE inPort[folder.pairs[p].input]
        BY <1>2, <1>7, <1>12, <3>1
      <3>3. /\ Ran(Source(folder, p))' <=> Ran(Source(folder, p))
            /\ Ran(Destination(folder, p))' <=>
                  Ran(Destination(folder, p)) \/ Destination(folder, p) = c
        BY <1>5, <1>6, <2>2
      <3> QED
        BY <1>4, <3>2, <3>3 DEF RunInv
    <2> QED
      BY <2>1, <2>2
  <1>16. ASSUME NEW q \in OutPorts(folder)
         PROVE  outPort'[q] = IF q \notin outputUsed /\ Ran(folder.outOwner[q])'
                              THEN Output(folder.outOwner[q]) ELSE Empty
    <2>1. folder.outOwner[q] = c <=> q = o
      BY <1>1, <1>3 DEF SingleOutput
    <2>2. Ran(folder.outOwner[q])' <=> Ran(folder.outOwner[q]) \/ q = o
      BY <1>5, <1>6, <2>1
    <2>3. outPort[q] = IF q \notin outputUsed /\ Ran(folder.outOwner[q])
                       THEN Output(folder.outOwner[q]) ELSE Empty
      BY <1>4 DEF RunInv
    <2> QED
      BY <1>2, <1>3, <2>1, <2>2, <2>3
  <1>17. ASSUME NEW j \in 1 .. Len(packed), Ran(folder.inOwner[packed[j]])'
         PROVE  fed'[packed[j]] = Packed(j)
    <2>1. CASE folder.inOwner[packed[j]] = c
      BY <1>1, <1>4, <1>8, <1>12, <2>1 DEF RunInv
    <2>2. CASE folder.inOwner[packed[j]] # c
      BY <1>4, <1>5, <1>6, <1>8, <1>12, <1>17, <2>2 DEF RunInv
    <2> QED
      BY <2>1, <2>2
  <1>18. ASSUME NEW p \in Pairs(folder), Ran(Destination(folder, p))'
         PROVE  fed'[folder.pairs[p].input] = Output(Source(folder, p))
    <2>1. CASE Destination(folder, p) = c
      BY <1>1, <1>4, <1>7, <1>12, <2>1 DEF RunInv
    <2>2. CASE Destination(folder, p) # c
      BY <1>4, <1>5, <1>6, <1>7, <1>12, <1>18, <2>2 DEF RunInv
    <2> QED
      BY <2>1, <2>2
  <1>19. RunInv'
    <2>1. SingleOutput'
      BY <1>1, <1>5 DEF SingleOutput
    <2>2. at' \in 1 .. Len(ready) + 1
      BY <1>1, <1>2
    <2> QED
      BY <1>2, <1>5, <1>14, <1>15, <1>16, <1>17, <1>18, <2>1, <2>2 DEF RunInv
  <1>20. PairsInv' /\ PackedInv' /\ OrderInv'
    BY <1>1, <1>2, KeepAccepted
  <1> QED
    BY <1>2, <1>13, <1>19, <1>20
    DEF IInv, ResultInv, QueueEmpty, SeedInv, KahnInv, PortsEmpty,
        LoadInv, FinishInv, NoInternalError

\* Running one coder: delivered, or stopped by its decoder.
LEMMA RunCoderIInv == IInv /\ RunCoder => IInv'
  <1> SUFFICES ASSUME IInv, RunCoder PROVE IInv'
    OBVIOUS
  <1>1. /\ phase = "run" /\ at \in 1 .. Len(ready)
        /\ UNCHANGED <<folder, graphVars>>
    BY DEF RunCoder
  <1>2. TypeOK /\ \A i \in InputsOf(ready[at]) : inPort[i] # Empty
    BY <1>1, TurnFacts
  <1>3. CASE Return("decode") /\ UNCHANGED <<at, portVars>>
    <2>1. TypeOK'
      BY <1>1, <1>2, <1>3 DEF TypeOK, Return, graphVars, portVars
    <2> QED
      BY <1>1, <1>3, <2>1, StopIInv DEF Return
  <1>4. CASE /\ fed' = [i \in InPorts(folder) |->
                          IF i \in InputsOf(ready[at]) THEN inPort[i]
                          ELSE fed[i]]
             /\ \E o \in OutputsOf(ready[at]) : Deliver(ready[at], o)
    BY <1>1, <1>4, DeliverIInv
  <1> QED
    BY <1>2, <1>3, <1>4 DEF RunCoder

\* After the last coder: every coder has run, and the ports are empty except
\* for the root output.
LEMMA RunDoneIInv == IInv /\ RunDone => IInv'
  <1> SUFFICES ASSUME IInv, RunDone PROVE IInv'
    OBVIOUS
  <1>1. /\ phase = "run" /\ at \notin 1 .. Len(ready)
        /\ UNCHANGED <<folder, graphVars, portVars>>
        /\ phase' = "finish" /\ at' = 1 /\ result' = result
    BY DEF RunDone, Goto
  <1>2. /\ TypeOK /\ result = "none" /\ Accepted /\ RunInv
        /\ PairsChecked(Len(folder.pairs)) /\ PackedOK(packed)
        /\ ReadyOnce /\ Len(ready) = folder.coders
        /\ at \in 1 .. Len(ready) + 1
    BY <1>1 DEF IInv, ResultInv, Accepted, RunInv, PairsInv, PackedInv, OrderInv
  <1>3. /\ packed \in Seq(Nat) /\ ready \in Seq(Coders(folder))
        /\ folder.inOwner \in [InPorts(folder) -> Coders(folder)]
        /\ folder.outOwner \in [OutPorts(folder) -> Coders(folder)]
    BY <1>2, RawFacts DEF TypeOK
  <1>4. at - 1 = Len(ready)
    BY <1>1, <1>2, <1>3
  <1>5. \A c \in Coders(folder) : Ran(c)
    BY <1>2, <1>4, OrderIsComplete DEF Ran, InReady
  <1>6. TypeOK'
    BY <1>1, <1>2 DEF TypeOK, graphVars, portVars
  <1>7. /\ \A p \in Pairs(folder) : folder.pairs[p].input \in InPorts(folder)
        /\ \A i \in inputUsed : \E p \in Pairs(folder) : folder.pairs[p].input = i
    <2>1. inputUsed \subseteq InPorts(folder)
      BY <1>2 DEF TypeOK
    <2> QED
      BY <1>2, <2>1 DEF PairsChecked, Pairs
  <1>8. /\ \A j \in 1 .. Len(packed) : packed[j] \in InPorts(folder)
        /\ \A i \in InPorts(folder) :
              i \in inputUsed \/ \E j \in 1 .. Len(packed) : packed[j] = i
    BY <1>2, <1>3 DEF PackedOK
  <1>9. /\ \A j \in 1 .. Len(packed) : Ran(folder.inOwner[packed[j]])
        /\ \A p \in Pairs(folder) : Ran(Destination(folder, p))
        /\ \A o \in OutPorts(folder) : Ran(folder.outOwner[o])
    BY <1>3, <1>5, <1>7, <1>8 DEF Destination
  <1>10. \A i \in InPorts(folder) : inPort[i] = Empty
    <2>1. \A j \in 1 .. Len(packed) : inPort[packed[j]] = Empty
      BY <1>1, <1>2, <1>9 DEF RunInv
    <2>2. \A p \in Pairs(folder) : inPort[folder.pairs[p].input] = Empty
      BY <1>1, <1>2, <1>9 DEF RunInv
    <2> QED
      BY <1>7, <1>8, <2>1, <2>2
  <1>11. \A o \in OutPorts(folder) : outPort[o] # Empty <=> o \notin outputUsed
    BY <1>1, <1>2, <1>9, StreamFacts DEF RunInv
  <1>12. FedAsWired
    BY <1>1, <1>2, <1>9 DEF RunInv, FedAsWired
  <1>13. FinishInv'
    BY <1>1, <1>10, <1>11, <1>12
    DEF FinishInv, FedAsWired, graphVars, portVars
  <1>14. PairsInv' /\ PackedInv' /\ OrderInv'
    BY <1>1, <1>2, KeepAccepted
  <1> QED
    BY <1>1, <1>2, <1>6, <1>13, <1>14
    DEF IInv, ResultInv, QueueEmpty, SeedInv, KahnInv, PortsEmpty,
        LoadInv, RunInv, NoInternalError

\* The last check finds the root output, and nothing else.
LEMMA FinishIInv == IInv /\ Finish => IInv'
  <1> SUFFICES ASSUME IInv, Finish PROVE IInv'
    OBVIOUS
  <1>1. /\ phase = "finish" /\ phase' = "done"
        /\ UNCHANGED <<folder, graphVars, at, portVars>>
    BY DEF Finish, Return
  <1>2. /\ TypeOK /\ Accepted /\ FedAsWired
        /\ \A i \in InPorts(folder) : inPort[i] = Empty
        /\ \A o \in OutPorts(folder) : outPort[o] # Empty <=> o \notin outputUsed
        /\ \E o \in OutPorts(folder) : OutPorts(folder) \ outputUsed = {o}
    BY <1>1 DEF IInv, Accepted, FinishInv, PairsInv
  <1>3. PICK root \in OutPorts(folder) : OutPorts(folder) \ outputUsed = {root}
    BY <1>2
  <1>4. \A o \in OutPorts(folder) : o \notin outputUsed <=> o = root
    BY <1>3
  <1>5. RootOutput = root
    BY <1>4 DEF RootOutput
  <1>6. result' = "ok"
    BY <1>2, <1>4, <1>5 DEF Finish, Return
  <1>7. TypeOK'
    BY <1>1, <1>2, <1>6 DEF TypeOK, graphVars, portVars
  <1>8. FinishInv'
    BY <1>1, <1>2 DEF FinishInv, FedAsWired, graphVars, portVars
  <1>9. PairsInv' /\ PackedInv' /\ OrderInv'
    BY <1>1, <1>2, KeepAccepted
  <1> QED
    BY <1>1, <1>6, <1>7, <1>8, <1>9
    DEF IInv, ResultInv, QueueEmpty, SeedInv, KahnInv, PortsEmpty,
        LoadInv, RunInv, NoInternalError

\* An interrupted operation.
LEMMA InterruptIInv == IInv /\ Interrupt => IInv'
  <1> SUFFICES ASSUME IInv, Interrupt PROVE IInv'
    OBVIOUS
  <1>1. /\ phase' = "done" /\ result' = "interrupted"
        /\ UNCHANGED <<folder, graphVars, at, portVars>>
    BY DEF Interrupt, Return
  <1>2. TypeOK'
    BY <1>1 DEF IInv, TypeOK, graphVars, portVars
  <1> QED
    BY <1>1, <1>2, HaltIInv

\* A step that changes nothing.
LEMMA StutterIInv == IInv /\ UNCHANGED vars => IInv'
  <1> SUFFICES ASSUME IInv, UNCHANGED vars PROVE IInv'
    OBVIOUS
  <1> USE DEF IInv, vars
  <1>1. TypeOK' /\ ResultInv' /\ QueueEmpty' /\ PortsEmpty' /\ NoInternalError'
    BY DEF TypeOK, ResultInv, QueueEmpty, PortsEmpty, NoInternalError
  <1>2. PairsInv' /\ PackedInv'
    BY DEF PairsInv, PairsChecked, PackedInv, PackedOK, Accepted
  <1>3. SeedInv'
    BY DEF SeedInv, ReadyOnce, ReadyInOrder, InReady, Dependencies
  <1>4. KahnInv'
    <2>1. \A p : Relaxed(p)' <=> Relaxed(p)
      BY DEF Relaxed
    <2>2. \A c : Unmet(c)' = Unmet(c)
      BY <2>1 DEF Unmet
    <2> QED
      BY <2>2 DEF KahnInv, ReadyOnce, ReadyInOrder, InReady
  <1>5. OrderInv'
    BY DEF OrderInv, Accepted, ReadyOnce, ReadyInOrder
  <1>6. LoadInv'
    BY DEF LoadInv, SingleOutput
  <1>7. RunInv'
    BY DEF RunInv, SingleOutput, Ran
  <1>8. FinishInv'
    BY DEF FinishInv, FedAsWired
  <1> QED
    BY <1>1, <1>2, <1>3, <1>4, <1>5, <1>6, <1>7, <1>8

\* Every step keeps the invariant.
LEMMA NextIInv == IInv /\ [Next]_vars => IInv'
  BY BindIInv, FindRootIInv, AssignPackedIInv, SeedIInv, TakeReadyIInv,
     SkipEdgeIInv, RelaxEdgeIInv, OrderDoneIInv, CheckRegistrationIInv,
     LoadPackedIInv, LoadDoneIInv, RunCoderIInv, RunDoneIInv, FinishIInv,
     InterruptIInv, StutterIInv
  DEF Next, Step

\* The invariant holds throughout every behaviour.
LEMMA SpecIInv == Spec => []IInv
  BY InitIInv, NextIInv, PTL DEF Spec
-----------------------------------------------------------------------------
\* The position of a coder in the order, counted from 0, is a rank that
\* grows along every bind pair.
LEMMA OrderIsRank ==
  ASSUME TypeOK, PairsChecked(Len(folder.pairs)), ReadyOnce, ReadyInOrder,
         Len(ready) = folder.coders
  PROVE  Ranked(folder)
  <1> DEFINE position(c) == CHOOSE k \in 1 .. Len(ready) : ready[k] = c
  <1> DEFINE rank == [c \in Coders(folder) |-> position(c) - 1]
  <1>1. folder.coders \in Nat \ {0} /\ ready \in Seq(Coders(folder))
    BY RawFacts DEF TypeOK
  <1>2. ASSUME NEW c \in Coders(folder)
        PROVE  position(c) \in 1 .. Len(ready) /\ ready[position(c)] = c
    BY OrderIsComplete DEF InReady
  <1>3. rank \in [Coders(folder) -> Coders(folder)]
    <2>1. \A k \in 1 .. Len(ready) : k - 1 \in Coders(folder)
      BY <1>1 DEF Coders
    <2>2. \A c \in Coders(folder) : position(c) - 1 \in Coders(folder)
      BY <1>2, <2>1
    <2> HIDE DEF position
    <2> QED
      BY <2>2
  <1>4. ASSUME NEW p \in Pairs(folder)
        PROVE  rank[Source(folder, p)] < rank[Destination(folder, p)]
    <2> DEFINE s == Source(folder, p)
               d == Destination(folder, p)
    <2>1. s \in Coders(folder) /\ d \in Coders(folder)
      BY EndFacts
    <2>2. /\ position(s) \in 1 .. Len(ready) /\ ready[position(s)] = s
          /\ position(d) \in 1 .. Len(ready) /\ ready[position(d)] = d
      BY <1>2, <2>1
    <2> HIDE DEF position
    <2>3. PICK j \in 1 .. position(d) - 1 : ready[j] = s
      BY <2>2 DEF ReadyInOrder
    <2>4. j \in 1 .. Len(ready) /\ j < position(d)
      BY <1>1, <2>2
    <2>5. j = position(s)
      BY <2>2, <2>3, <2>4 DEF ReadyOnce
    <2>6. position(s) \in Int /\ position(d) \in Int /\ position(s) < position(d)
      BY <2>2, <2>4, <2>5
    <2>7. rank[s] = position(s) - 1 /\ rank[d] = position(d) - 1
      BY <2>1
    <2> QED
      BY <2>6, <2>7
  <1> HIDE DEF rank
  <1> QED
    BY <1>3, <1>4 DEF Ranked

\* The checks of validate_folder_graph add up to well-formed ports.
LEMMA CheckedIsWellFormed ==
  ASSUME TypeOK, PairsChecked(Len(folder.pairs)), PackedOK(packed),
         PackedCount(folder) # 1 => packed = folder.packed
  PROVE  PortsWellFormed(folder)
  <1>1. /\ folder.packed \in Seq(Nat)
        /\ PackedCount(folder) = 1 => Len(folder.packed) = 0
        /\ packed \in Seq(Nat)
    BY RawFacts DEF TypeOK
  <1>2. \A p \in Pairs(folder) : folder.pairs[p].input \in inputUsed
    BY DEF PairsChecked, Pairs
  <1>3. \A j \in DOMAIN folder.packed :
           /\ folder.packed[j] \in InPorts(folder)
           /\ \A p \in Pairs(folder) : folder.pairs[p].input # folder.packed[j]
           /\ \A k \in DOMAIN folder.packed :
                 folder.packed[j] = folder.packed[k] => j = k
    <2>1. CASE PackedCount(folder) = 1
      BY <1>1, <2>1
    <2>2. CASE PackedCount(folder) # 1
      BY <1>1, <1>2, <2>2 DEF PackedOK
    <2> QED
      BY <2>1, <2>2
  <1> QED
    BY <1>3 DEF PortsWellFormed, PairsChecked, Pairs

\* What the invariant says of a decoded folder is what the declarations wire.
LEMMA FedIsWired == IInv => DecodedAsWired
  <1> SUFFICES ASSUME IInv, result = "ok", NEW i \in InPorts(folder)
               PROVE  fed[i] = Wired(i)
    BY DEF DecodedAsWired
  <1>1. /\ TypeOK /\ PairsChecked(Len(folder.pairs)) /\ PackedOK(packed)
        /\ FedAsWired
    BY DEF IInv, PairsInv, PackedInv, FinishInv, Accepted
  <1>2. packed \in Seq(Nat)
    BY <1>1 DEF TypeOK
  <1>3. CASE i \in inputUsed
    <2> DEFINE p == CHOOSE q \in Pairs(folder) : folder.pairs[q].input = i
    <2>1. p \in Pairs(folder) /\ folder.pairs[p].input = i
      BY <1>1, <1>3 DEF PairsChecked, Pairs
    <2> HIDE DEF p
    <2>2. fed[i] = Output(Source(folder, p))
      BY <1>1, <2>1 DEF FedAsWired
    <2> QED
      BY <1>3, <2>2 DEF Wired, p
  <1>4. CASE i \notin inputUsed
    <2> DEFINE j == CHOOSE k \in DOMAIN packed : packed[k] = i
    <2>1. j \in DOMAIN packed /\ packed[j] = i
      BY <1>1, <1>4 DEF PackedOK
    <2> HIDE DEF j
    <2>2. j \in 1 .. Len(packed)
      BY <1>2, <2>1
    <2>3. fed[i] = Packed(j)
      BY <1>1, <2>1, <2>2 DEF FedAsWired
    <2> QED
      BY <1>4, <2>3 DEF Wired, j
  <1> QED
    BY <1>3, <1>4

-----------------------------------------------------------------------------
(***************************************************************************)
(* The converse of acceptance: each refusal of validate_folder_graph has a *)
(* reason in the folder.  The counts of parse_folder leave one output and  *)
(* PackedCount inputs over, and a rank has a least coder among those the   *)
(* queue never reached.                                                    *)
(***************************************************************************)

\* A set numbered from 1 to n without repetition has n elements.
LEMMA NumberedSet ==
  ASSUME NEW n \in Nat, NEW g, NEW T,
         \A k \in 1 .. n : g[k] \in T,
         \A k, l \in 1 .. n : g[k] = g[l] => k = l,
         \A t \in T : \E k \in 1 .. n : g[k] = t
  PROVE  IsFiniteSet(T) /\ Cardinality(T) = n
  <1> DEFINE h == [k \in 1 .. n |-> g[k]]
  <1>1. h \in Bijection(1 .. n, T)
    <2>1. h \in [1 .. n -> T]
      OBVIOUS
    <2>2. h \in Injection(1 .. n, T)
      BY <2>1 DEF Injection, IsInjective
    <2>3. h \in Surjection(1 .. n, T)
      BY <2>1 DEF Surjection
    <2> QED
      BY <2>2, <2>3 DEF Bijection
  <1>2. ExistsBijection(1 .. n, T)
    BY <1>1 DEF ExistsBijection
  <1>3. IsFiniteSet(1 .. n)
    BY FS_Interval
  <1> QED
    BY <1>2, <1>3, FS_Bijection, FS_CountingElements

\* Distinct bind pairs take one input and one output port each.
LEMMA UsedCount ==
  ASSUME TypeOK, PairsChecked(Len(folder.pairs))
  PROVE  /\ IsFiniteSet(inputUsed) /\ Cardinality(inputUsed) = folder.outputs - 1
         /\ IsFiniteSet(outputUsed) /\ Cardinality(outputUsed) = folder.outputs - 1
  <1> DEFINE n == Len(folder.pairs)
             gi == [k \in 1 .. n |-> folder.pairs[k].input]
             go == [k \in 1 .. n |-> folder.pairs[k].output]
  <1>1. n \in Nat
    BY RawFacts
  <1>2. inputUsed \subseteq InPorts(folder) /\ outputUsed \subseteq OutPorts(folder)
    BY DEF TypeOK
  <1>3. /\ \A k \in 1 .. n : gi[k] \in inputUsed
        /\ \A k, l \in 1 .. n : gi[k] = gi[l] => k = l
        /\ \A t \in inputUsed : \E k \in 1 .. n : gi[k] = t
    BY <1>2 DEF PairsChecked
  <1>4. /\ \A k \in 1 .. n : go[k] \in outputUsed
        /\ \A k, l \in 1 .. n : go[k] = go[l] => k = l
        /\ \A t \in outputUsed : \E k \in 1 .. n : go[k] = t
    BY <1>2 DEF PairsChecked
  <1> HIDE DEF gi, go, n
  <1>5. IsFiniteSet(inputUsed) /\ Cardinality(inputUsed) = n
    BY <1>1, <1>3, NumberedSet, Zenon
  <1>6. IsFiniteSet(outputUsed) /\ Cardinality(outputUsed) = n
    BY <1>1, <1>4, NumberedSet, Zenon
  <1>7. n = folder.outputs - 1
    BY FoldersAssumption DEF TypeOK, RawFolder, n
  <1> QED
    BY <1>5, <1>6, <1>7

\* The ports are as many as parse_folder counted.
LEMMA PortCount ==
  ASSUME TypeOK
  PROVE  /\ IsFiniteSet(InPorts(folder))
         /\ Cardinality(InPorts(folder)) = folder.inputs
         /\ IsFiniteSet(OutPorts(folder))
         /\ Cardinality(OutPorts(folder)) = folder.outputs
  BY RawFacts, IntervalFacts DEF InPorts, OutPorts

\* A folder turned away in the loop over the bind pairs has a pair that leaves
\* the port table or names a port twice.
LEMMA BindRejects ==
  ASSUME IInv, Bind, result' = "format"
  PROVE  ~ PortsWellFormed(folder)
  <1>1. phase = "bind" /\ at \in Pairs(folder)
    BY DEF Bind
  <1>2. TypeOK /\ PairsChecked(at - 1) /\ result = "none"
    BY <1>1 DEF IInv, ResultInv, PairsInv
  <1>3. ~ BindPairOK(folder.pairs[at])
    BY <1>2 DEF Bind, Goto
  <1>4. Len(folder.pairs) \in Nat /\ at \in 1 .. Len(folder.pairs)
    BY <1>1, <1>2, RawFacts DEF Pairs
  <1>5. \A p \in 1 .. at - 1 : p \in Pairs(folder) /\ p # at
    BY <1>4 DEF Pairs
  <1> QED
    BY <1>1, <1>2, <1>3, <1>5 DEF BindPairOK, PairsChecked, PortsWellFormed

\* The root is always found: one pair fewer than outputs, and no output twice.
LEMMA RootIsFound ==
  ASSUME IInv, FindRoot
  PROVE  result' # "format"
  <1> DEFINE free == OutPorts(folder) \ outputUsed
  <1>1. phase = "bind" /\ at \notin Pairs(folder)
    BY DEF FindRoot
  <1>2. /\ TypeOK /\ result = "none"
        /\ at \in 1 .. Len(folder.pairs) + 1 /\ PairsChecked(at - 1)
    BY <1>1 DEF IInv, ResultInv, PairsInv
  <1>3. Len(folder.pairs) \in Nat /\ folder.outputs \in Nat
    BY <1>2, RawFacts
  <1>4. at - 1 = Len(folder.pairs)
    BY <1>1, <1>2, <1>3 DEF Pairs
  <1>5. /\ IsFiniteSet(outputUsed) /\ Cardinality(outputUsed) = folder.outputs - 1
        /\ IsFiniteSet(OutPorts(folder))
        /\ Cardinality(OutPorts(folder)) = folder.outputs
    BY <1>2, <1>4, UsedCount, PortCount
  <1>6. OutPorts(folder) \cap outputUsed = outputUsed
    BY <1>2 DEF TypeOK
  <1>7. IsFiniteSet(free) /\ Cardinality(free) = 1
    <2>1. /\ IsFiniteSet(free)
          /\ Cardinality(free) = Cardinality(OutPorts(folder))
                                  - Cardinality(OutPorts(folder) \cap outputUsed)
      BY <1>5, FS_Difference, Zenon
    <2>2. Cardinality(OutPorts(folder) \cap outputUsed) = folder.outputs - 1
      BY <1>5, <1>6
    <2> HIDE DEF free
    <2> QED
      BY <1>3, <1>5, <2>1, <2>2
  <1>8. \E o \in free : free = {o}
    BY <1>7, FS_Singleton
  <1> QED
    BY <1>2, <1>8 DEF FindRoot, Goto

\* Indices that the parser counted, none bound and none repeated, leave no
\* input over.
LEMMA PackedCovers ==
  ASSUME TypeOK, PairsChecked(Len(folder.pairs)), NEW s \in Seq(Nat),
         Len(s) = PackedCount(folder),
         \A j \in DOMAIN s : s[j] \in InPorts(folder) \ inputUsed,
         \A j, k \in DOMAIN s : s[j] = s[k] => j = k
  PROVE  PackedOK(s)
  <1> DEFINE T == {s[j] : j \in 1 .. Len(s)}
  <1>1. Len(s) \in Nat /\ DOMAIN s = 1 .. Len(s)
    OBVIOUS
  <1>2. /\ folder.inputs \in Nat /\ folder.outputs \in Nat
        /\ PackedCount(folder) \in Nat
    BY RawFacts
  <1>3. IsFiniteSet(T) /\ Cardinality(T) = Len(s)
    <2>1. /\ \A k \in 1 .. Len(s) : s[k] \in T
          /\ \A k, l \in 1 .. Len(s) : s[k] = s[l] => k = l
          /\ \A t \in T : \E k \in 1 .. Len(s) : s[k] = t
      BY <1>1
    <2> HIDE DEF T
    <2> QED
      BY <1>1, <2>1, NumberedSet, Zenon
  <1>4. /\ IsFiniteSet(inputUsed) /\ Cardinality(inputUsed) = folder.outputs - 1
        /\ IsFiniteSet(InPorts(folder))
        /\ Cardinality(InPorts(folder)) = folder.inputs
    BY UsedCount, PortCount
  <1>5. inputUsed \cap T = {}
    BY <1>1
  <1>6. \A t \in T : t \in InPorts(folder)
    BY <1>1
  <1>7. \A i \in T : \E j \in DOMAIN s : s[j] = i
    BY <1>1
  <1> HIDE DEF T
  <1>8. Cardinality(inputUsed \cup T) = (folder.outputs - 1) + Len(s)
    <2>1. Cardinality(inputUsed \cup T) =
            Cardinality(inputUsed) + Cardinality(T) - Cardinality(inputUsed \cap T)
      BY <1>3, <1>4, FS_Union, Zenon
    <2>2. Cardinality(inputUsed \cap T) = 0
      BY <1>5, FS_EmptySet
    <2> QED
      BY <1>1, <1>2, <1>3, <1>4, <2>1, <2>2
  <1>9. Cardinality(inputUsed \cup T) = Cardinality(InPorts(folder))
    BY <1>2, <1>4, <1>8 DEF PackedCount
  <1>10. inputUsed \cup T \in SUBSET InPorts(folder)
    BY <1>6 DEF TypeOK
  <1>11. inputUsed \cup T = InPorts(folder)
    BY <1>4, <1>9, <1>10, FS_Subset
  <1> QED
    BY <1>7, <1>11 DEF PackedOK

\* A folder turned away for its packed inputs names one that is out of range,
\* bound or repeated; a single packed input is never at fault.
LEMMA PackedRejects ==
  ASSUME IInv, AssignPacked, result' = "format"
  PROVE  ~ PortsWellFormed(folder)
  <1>1. phase = "packed"
    BY DEF AssignPacked
  <1>2. TypeOK /\ result = "none" /\ PairsChecked(Len(folder.pairs))
    BY <1>1 DEF IInv, ResultInv, PairsInv
  <1>3. ~ PackedOK(packed')
    BY <1>2 DEF AssignPacked, Goto
  <1>4. /\ folder.packed \in Seq(Nat) /\ PackedCount(folder) \in Nat
        /\ folder.inputs \in Nat /\ folder.outputs \in Nat
        /\ inputUsed \subseteq InPorts(folder)
    BY <1>2, RawFacts DEF TypeOK
  <1>5. CASE PackedCount(folder) # 1 /\ packed' = folder.packed
    <2> SUFFICES ASSUME PortsWellFormed(folder) PROVE FALSE
      OBVIOUS
    <2>1. Len(folder.packed) = PackedCount(folder)
      BY <1>2, <1>5, FoldersAssumption DEF TypeOK, RawFolder
    <2>2. \A i \in inputUsed : \E p \in Pairs(folder) : folder.pairs[p].input = i
      BY <1>2, <1>4 DEF PairsChecked, Pairs
    <2>3. /\ \A j \in DOMAIN folder.packed :
                folder.packed[j] \in InPorts(folder) \ inputUsed
          /\ \A j, k \in DOMAIN folder.packed :
                folder.packed[j] = folder.packed[k] => j = k
      BY <2>2 DEF PortsWellFormed
    <2> QED
      BY <1>2, <1>3, <1>4, <1>5, <2>1, <2>3, PackedCovers
  <1>6. CASE /\ PackedCount(folder) = 1
             /\ \E i \in InPorts(folder) : IsFirstFree(i) /\ packed' = <<i>>
    <2>1. PICK i \in InPorts(folder) : IsFirstFree(i) /\ packed' = <<i>>
      BY <1>6
    <2>2. i \in InPorts(folder) \ inputUsed /\ i \in Nat
      BY <1>4, <2>1 DEF IsFirstFree, InPorts
    <2>3. <<i>> \in Seq(Nat) /\ Len(<<i>>) = 1 /\ DOMAIN <<i>> = {1} /\ <<i>>[1] = i
      BY <2>2
    <2> QED
      BY <1>2, <1>3, <1>6, <2>1, <2>2, <2>3, PackedCovers
  <1>7. CASE PackedCount(folder) = 1 /\ InPorts(folder) \subseteq inputUsed
    <2>1. InPorts(folder) = inputUsed
      BY <1>4, <1>7
    <2>2. folder.inputs = folder.outputs - 1
      BY <1>2, <2>1, UsedCount, PortCount
    <2> QED
      BY <1>4, <1>7, <2>2 DEF PackedCount
  <1> QED
    BY <1>5, <1>6, <1>7 DEF AssignPacked

\* A folder turned away at the end of the queue has no rank: of the coders the
\* queue never reached, the one of least rank would have been reached.
LEMMA OrderRejects ==
  ASSUME IInv, OrderDone, result' = "format"
  PROVE  ~ Ranked(folder)
  <1> SUFFICES ASSUME NEW rank \in [Coders(folder) -> Coders(folder)],
                      \A p \in Pairs(folder) :
                         rank[Source(folder, p)] < rank[Destination(folder, p)]
               PROVE  FALSE
    BY DEF Ranked
  <1> DEFINE Left == {c \in Coders(folder) : ~ InReady(c)}
             Ranks == {rank[c] : c \in Left}
  <1>1. phase = "kahn" /\ at \notin Pairs(folder) /\ cursor = Len(ready)
    BY DEF OrderDone
  <1>2. /\ TypeOK /\ result = "none" /\ PairsChecked(Len(folder.pairs))
        /\ at \in 1 .. Len(folder.pairs) + 1 /\ ReadyOnce
        /\ \A c \in Coders(folder) : indegree[c] = Cardinality(Unmet(c))
        /\ \A c \in Coders(folder) : InReady(c) <=> indegree[c] = 0
    BY <1>1 DEF IInv, ResultInv, PairsInv, KahnInv
  <1>3. /\ Len(folder.pairs) \in Nat /\ folder.coders \in Nat \ {0}
        /\ ready \in Seq(Coders(folder)) /\ Len(ready) \in Nat
    BY <1>2, RawFacts DEF TypeOK
  <1>4. Len(ready) # folder.coders
    BY <1>2 DEF OrderDone, Goto
  <1>5. CASE Left = {}
    <2>1. \A c \in Coders(folder) : \E k \in 1 .. Len(ready) : ready[k] = c
      BY <1>5 DEF InReady
    <2>2. \A k \in 1 .. Len(ready) : ready[k] \in Coders(folder)
      BY <1>3
    <2>3. Cardinality(Coders(folder)) = Len(ready)
      <3>1. \A k, l \in 1 .. Len(ready) : ready[k] = ready[l] => k = l
        BY <1>2 DEF ReadyOnce
      <3> QED
        BY <1>3, <2>1, <2>2, <3>1, NumberedSet, Zenon
    <2> QED
      BY <1>2, <1>4, <2>3, FiniteFacts
  <1>6. CASE Left # {}
    <2>1. Ranks \in SUBSET Nat /\ Ranks # {}
      BY <1>3, <1>6 DEF Coders
    <2>2. PICK x \in Ranks : \A y \in Ranks : x <= y
      BY <2>1, LeastElement
    <2>3. PICK c \in Left : x = rank[c]
      OBVIOUS
    <2>4. Unmet(c) \in SUBSET Pairs(folder) /\ Cardinality(Unmet(c)) # 0
      BY <1>2, <2>3 DEF Unmet
    <2>5. PICK p \in Unmet(c) : TRUE
      BY <1>2, <2>4, PairSetFacts
    <2>6. /\ p \in Pairs(folder) /\ Destination(folder, p) = c
          /\ ~ Relaxed(p)
      BY <2>5 DEF Unmet
    <2>7. p < at
      BY <1>1, <1>2, <1>3, <2>6 DEF Pairs
    <2>8. ~ InReady(Source(folder, p))
      BY <1>1, <2>6, <2>7 DEF InReady, Relaxed
    <2>9. Source(folder, p) \in Left
      BY <1>2, <2>6, <2>8, EndFacts
    <2>10. rank[Source(folder, p)] < x /\ x <= rank[Source(folder, p)]
      BY <2>2, <2>3, <2>6, <2>9
    <2>11. rank[Source(folder, p)] \in Nat /\ x \in Nat
      BY <1>3, <2>1, <2>9 DEF Coders
    <2> QED
      BY <2>10, <2>11
  <1> QED
    BY <1>5, <1>6

\* A step that refuses the folder has one of these reasons.
LEMMA NextRejected ==
  IInv /\ RejectedIsMalformed /\ [Next]_vars => RejectedIsMalformed'
  <1> SUFFICES ASSUME IInv, RejectedIsMalformed, [Next]_vars, result' = "format"
               PROVE  ~ WellFormed(folder)'
    BY DEF RejectedIsMalformed
  <1>1. CASE UNCHANGED vars
    BY <1>1 DEF vars, RejectedIsMalformed
  <1>2. ASSUME Next PROVE folder' = folder /\ result = "none"
    BY <1>2
    DEF Next, Step, Bind, FindRoot, AssignPacked, Seed, TakeReady, SkipEdge,
        RelaxEdge, OrderDone, CheckRegistration, LoadPacked, LoadDone,
        RunCoder, RunDone, Finish, Interrupt, AtCheckpoint, IInv, ResultInv
  <1>3. ASSUME Next PROVE ~ WellFormed(folder)
    <2>1. CASE Bind
      BY <2>1, BindRejects DEF WellFormed
    <2>2. CASE FindRoot
      BY <2>2, RootIsFound
    <2>3. CASE AssignPacked
      BY <2>3, PackedRejects DEF WellFormed
    <2>4. CASE OrderDone
      BY <2>4, OrderRejects DEF WellFormed
    <2>5. CASE Seed \/ TakeReady \/ SkipEdge \/ LoadDone \/ RunDone
      BY <1>2, <1>3, <2>5 DEF Seed, TakeReady, SkipEdge, LoadDone, RunDone, Goto
    <2>6. CASE RelaxEdge
      BY <1>2, <1>3, <2>6 DEF RelaxEdge, Goto, Return
    <2>7. CASE CheckRegistration \/ LoadPacked \/ Finish \/ Interrupt
      BY <1>2, <1>3, <2>7
      DEF CheckRegistration, LoadPacked, Finish, Interrupt, Goto, Return
    <2>8. CASE RunCoder
      BY <1>2, <1>3, <2>8 DEF RunCoder, Deliver, Goto, Return
    <2> QED
      BY <1>3, <2>1, <2>2, <2>3, <2>4, <2>5, <2>6, <2>7, <2>8 DEF Next, Step
  <1> QED
    BY <1>1, <1>2, <1>3

\* The variables of validation and execution keep their types: no index ever
\* leaves the port tables, the queue or the coder list.
THEOREM GraphTypeOK == Spec => []TypeOK
  <1>1. IInv => TypeOK
    BY DEF IInv
  <1> QED
    BY <1>1, SpecIInv, PTL

\* validate_folder_graph accepts only well-formed folders: ports bound once,
\* and an order of the coders that respects every bind pair.
THEOREM GraphAccepted == Spec => []AcceptedIsWellFormed
  <1>1. IInv => AcceptedIsWellFormed
    <2> SUFFICES ASSUME IInv, Accepted PROVE WellFormed(folder)
      BY DEF AcceptedIsWellFormed
    <2>1. /\ TypeOK /\ PairsChecked(Len(folder.pairs)) /\ PackedOK(packed)
          /\ PackedCount(folder) # 1 => packed = folder.packed
          /\ ReadyOnce /\ ReadyInOrder /\ Len(ready) = folder.coders
      BY DEF IInv, PairsInv, PackedInv, OrderInv
    <2> QED
      BY <2>1, OrderIsRank, CheckedIsWellFormed DEF WellFormed
  <1> QED
    BY <1>1, SpecIInv, PTL

\* validate_folder_graph refuses only folders that are not well formed: no
\* legal graph of coders is turned away, whatever order it is declared in.
THEOREM GraphRejected == Spec => []RejectedIsMalformed
  <1>1. Init => RejectedIsMalformed
    BY DEF Init, RejectedIsMalformed
  <1> QED
    BY <1>1, NextRejected, SpecIInv, PTL DEF Spec

\* decode_folder never meets an empty, taken or left-over port, and
\* topological_order never underflows an indegree.
THEOREM GraphNoInternalError == Spec => []NoInternalError
  <1>1. IInv => NoInternalError
    BY DEF IInv
  <1> QED
    BY <1>1, SpecIInv, PTL

\* A folder that decodes has fed every coder the streams its bind pairs and
\* packed indices wire to it.
THEOREM GraphDecodedAsWired == Spec => []DecodedAsWired
  BY FedIsWired, SpecIInv, PTL
=============================================================================
