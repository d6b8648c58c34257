----------------------------- MODULE FolderGraph -----------------------------
(***************************************************************************)
(* One 7z folder, from the raw coder graph the parser returns to the end   *)
(* of its execution.                                                       *)
(*                                                                         *)
(*   raw.rs      parse_folder          the raw graph (RawFolder)           *)
(*   graph.rs    validate_folder_graph phases bind, root, packed,          *)
(*               topological_order     seed, kahn                          *)
(*   execute.rs  decode_folder         phases registration, load, run,     *)
(*                                     finish                              *)
(*                                                                         *)
(* Ports and coders are numbered from 0 as in the code; loops over vectors *)
(* use TLA+ sequences, numbered from 1.  A stream of bytes is abstracted   *)
(* to where it came from, so that a port holds a provenance.               *)
(***************************************************************************)
EXTENDS Naturals, Sequences, FiniteSets

CONSTANT Folders    \* the raw folders parse_folder may hand over

VARIABLES
  folder,       \* the raw folder under way
  phase,        \* the loop the operation is in, or "done"
  result,       \* "none" while it runs, then how it ended
  inputUsed,    \* input_used: the input ports some bind pair names
  outputUsed,   \* output_used: the output ports some bind pair names
  packed,       \* packed_input_indices
  indegree,     \* the unmet dependencies of each coder
  ready,        \* the queue of topological_order; at the end, the order
  cursor,       \* queue entries already taken
  at,           \* index of the loop of the current phase
  inPort,       \* input_ports: the stream waiting in each input port
  outPort,      \* output_ports: the stream waiting in each output port
  fed           \* history: the stream each input port gave its coder

vars == <<folder, phase, result, inputUsed, outputUsed, packed, indegree,
          ready, cursor, at, inPort, outPort, fed>>

graphVars == <<inputUsed, outputUsed, packed, indegree, ready, cursor>>
portVars  == <<inPort, outPort, fed>>

Coders(f)      == 0 .. f.coders - 1
InPorts(f)     == 0 .. f.inputs - 1
OutPorts(f)    == 0 .. f.outputs - 1
PackedCount(f) == f.inputs - (f.outputs - 1)
Pairs(f)       == 1 .. Len(f.pairs)

(***************************************************************************)
(* parse_coder and parse_folder: at least one coder, every coder has at    *)
(* least one port of each kind and owns a contiguous range of them, there  *)
(* is one bind pair fewer than outputs, and the packed indices are         *)
(* explicit only when more than one input is left over.  The indices in    *)
(* bind pairs and packed indices are whatever the file says.               *)
(***************************************************************************)
RawFolder(f) ==
  /\ f.coders \in Nat \ {0}
  /\ f.inputs \in Nat \ {0}
  /\ f.outputs \in Nat \ {0}
  /\ f.inOwner \in [InPorts(f) -> Coders(f)]
  /\ f.outOwner \in [OutPorts(f) -> Coders(f)]
  /\ \A i, j \in InPorts(f) : i <= j => f.inOwner[i] <= f.inOwner[j]
  /\ \A i, j \in OutPorts(f) : i <= j => f.outOwner[i] <= f.outOwner[j]
  /\ \A c \in Coders(f) : /\ \E i \in InPorts(f) : f.inOwner[i] = c
                          /\ \E o \in OutPorts(f) : f.outOwner[o] = c
  /\ f.inputs >= f.outputs
  /\ f.pairs \in Seq([input : Nat, output : Nat])
  /\ Len(f.pairs) = f.outputs - 1
  /\ f.packed \in Seq(Nat)
  /\ Len(f.packed) = IF PackedCount(f) = 1 THEN 0 ELSE PackedCount(f)

ASSUME FoldersAssumption == \A f \in Folders : RawFolder(f)

\* The coder that produces, and the one that consumes, bind pair p.
Source(f, p)      == f.outOwner[f.pairs[p].output]
Destination(f, p) == f.inOwner[f.pairs[p].input]

\* Provenances: no stream, the j-th packed stream, the output of coder c.
Empty     == <<"empty", 0>>
Packed(j) == <<"packed", j>>
Output(c) == <<"coder", c>>

Streams(f) ==
  {Empty} \cup {Packed(j) : j \in 1 .. PackedCount(f)}
          \cup {Output(c) : c \in Coders(f)}

TypeOK ==
  /\ folder \in Folders
  /\ phase \in {"bind", "packed", "seed", "kahn", "registration",
                "load", "run", "finish", "done"}
  /\ result \in {"none", "ok", "format", "refused", "decode",
                 "interrupted", "internal"}
  /\ inputUsed \subseteq InPorts(folder)
  /\ outputUsed \subseteq OutPorts(folder)
  /\ packed \in Seq(Nat)
  /\ indegree \in [Coders(folder) -> Nat]
  /\ ready \in Seq(Coders(folder))
  /\ cursor \in 0 .. Len(ready)
  /\ at \in Nat
  /\ inPort \in [InPorts(folder) -> Streams(folder)]
  /\ outPort \in [OutPorts(folder) -> Streams(folder)]
  /\ fed \in [InPorts(folder) -> Streams(folder)]
-----------------------------------------------------------------------------
Init ==
  /\ folder \in Folders
  /\ phase = "bind"
  /\ result = "none"
  /\ inputUsed = {}
  /\ outputUsed = {}
  /\ packed = << >>
  /\ indegree = [c \in Coders(folder) |-> 0]
  /\ ready = << >>
  /\ cursor = 0
  /\ at = 1
  /\ inPort = [i \in InPorts(folder) |-> Empty]
  /\ outPort = [o \in OutPorts(folder) |-> Empty]
  /\ fed = [i \in InPorts(folder) |-> Empty]

\* An early return with an error, or the last return.
Return(r) ==
  /\ phase' = "done"
  /\ result' = r

Goto(p, k) ==
  /\ phase' = p
  /\ at' = k
  /\ UNCHANGED result

(***************************************************************************)
(* graph.rs validate_folder_graph                                          *)
(***************************************************************************)

\* Mutant: the input index is not looked up in the port table.
BindPairOK_UncheckedInput(pair) ==
  pair.output \in OutPorts(folder) \ outputUsed

\* validate_bind_pair: both ends in range and not named before.
BindPairOK(pair) ==
  /\ pair.input \in InPorts(folder) \ inputUsed
  /\ pair.output \in OutPorts(folder) \ outputUsed

\* The loop over raw.bind_pairs.
Bind ==
  /\ phase = "bind"
  /\ at \in Pairs(folder)
  /\ LET pair == folder.pairs[at] IN
     \/ /\ BindPairOK(pair)
        /\ inputUsed' = inputUsed \cup {pair.input}
        /\ outputUsed' = outputUsed \cup {pair.output}
        /\ Goto("bind", at + 1)
     \/ /\ ~ BindPairOK(pair)
        /\ Return("format")
        /\ UNCHANGED <<inputUsed, outputUsed, at>>
  /\ UNCHANGED <<folder, packed, indegree, ready, cursor, portVars>>

\* Exactly one output must be left unbound: the root.
FindRoot ==
  /\ phase = "bind"
  /\ at \notin Pairs(folder)
  /\ LET free == OutPorts(folder) \ outputUsed IN
     \/ /\ \E o \in free : free = {o}
        /\ Goto("packed", 1)
     \/ /\ ~ \E o \in free : free = {o}
        /\ Return("format")
        /\ UNCHANGED at
  /\ UNCHANGED <<folder, graphVars, portVars>>

RootOutput == CHOOSE o \in OutPorts(folder) : o \notin outputUsed

\* packed_indices: the file's, or the first input that is not bound.
IsFirstFree(i) ==
  /\ i \in InPorts(folder) \ inputUsed
  /\ \A j \in InPorts(folder) \ inputUsed : i <= j

\* Mutant: repeated packed indices pass, and the inputs they leave out.
PackedOK_Repeated(s) ==
  \A j \in DOMAIN s : s[j] \in InPorts(folder) \ inputUsed

\* Each index in range, not repeated, not bound; every input bound or packed.
PackedOK(s) ==
  /\ \A j \in DOMAIN s : s[j] \in InPorts(folder) \ inputUsed
  /\ \A j, k \in DOMAIN s : s[j] = s[k] => j = k
  /\ \A i \in InPorts(folder) :
        i \in inputUsed \/ \E j \in DOMAIN s : s[j] = i

\* The number of bind pairs that end in coder c: its initial indegree.
Dependencies(c) ==
  Cardinality({p \in Pairs(folder) : Destination(folder, p) = c})

AssignPacked ==
  /\ phase = "packed"
  /\ \/ /\ PackedCount(folder) # 1
        /\ packed' = folder.packed
     \/ /\ PackedCount(folder) = 1
        /\ \E i \in InPorts(folder) : /\ IsFirstFree(i)
                                      /\ packed' = <<i>>
     \/ /\ PackedCount(folder) = 1
        /\ InPorts(folder) \subseteq inputUsed
        /\ packed' = << >>
  /\ \/ /\ PackedOK(packed')
        /\ indegree' = [c \in Coders(folder) |-> Dependencies(c)]
        /\ Goto("seed", 0)
     \/ /\ ~ PackedOK(packed')
        /\ Return("format")
        /\ UNCHANGED <<at, indegree>>
  /\ UNCHANGED <<folder, inputUsed, outputUsed, ready, cursor, portVars>>

(***************************************************************************)
(* graph.rs topological_order: Kahn's algorithm over a queue.  at is the   *)
(* coder the seeding loop looks at, then the bind pair the inner loop      *)
(* looks at; the inner loop is over when at has passed the last pair.      *)
(***************************************************************************)
Seed ==
  /\ phase = "seed"
  /\ \/ /\ at \in Coders(folder)
        /\ ready' = IF indegree[at] = 0 THEN Append(ready, at) ELSE ready
        /\ Goto("seed", at + 1)
     \/ /\ at \notin Coders(folder)
        /\ Goto("kahn", Len(folder.pairs) + 1)
        /\ UNCHANGED ready
  /\ UNCHANGED <<folder, inputUsed, outputUsed, packed, indegree, cursor,
                 portVars>>

TakeReady ==
  /\ phase = "kahn"
  /\ at \notin Pairs(folder)
  /\ cursor < Len(ready)
  /\ cursor' = cursor + 1
  /\ Goto("kahn", 1)
  /\ UNCHANGED <<folder, inputUsed, outputUsed, packed, indegree, ready,
                 portVars>>

\* Mutant: the inner loop does not advance past an edge of another coder.
SkipEdge_Stuck ==
  /\ phase = "kahn"
  /\ at \in Pairs(folder)
  /\ Source(folder, at) # ready[cursor]
  /\ UNCHANGED vars

SkipEdge ==
  /\ phase = "kahn"
  /\ at \in Pairs(folder)
  /\ Source(folder, at) # ready[cursor]
  /\ Goto("kahn", at + 1)
  /\ UNCHANGED <<folder, graphVars, portVars>>

\* Mutant: the inner loop ends with the first edge of the coder.
RelaxEdge_FirstOnly ==
  /\ phase = "kahn"
  /\ at \in Pairs(folder)
  /\ Source(folder, at) = ready[cursor]
  /\ LET d == Destination(folder, at) IN
     /\ indegree[d] # 0
     /\ indegree' = [indegree EXCEPT ![d] = @ - 1]
     /\ ready' = IF indegree[d] = 1 THEN Append(ready, d) ELSE ready
     /\ Goto("kahn", Len(folder.pairs) + 1)
  /\ UNCHANGED <<folder, inputUsed, outputUsed, packed, cursor, portVars>>

\* One met dependency; the checked subtraction cannot underflow.
RelaxEdge ==
  /\ phase = "kahn"
  /\ at \in Pairs(folder)
  /\ Source(folder, at) = ready[cursor]
  /\ LET d == Destination(folder, at) IN
     \/ /\ indegree[d] # 0
        /\ indegree' = [indegree EXCEPT ![d] = @ - 1]
        /\ ready' = IF indegree[d] = 1 THEN Append(ready, d) ELSE ready
        /\ Goto("kahn", at + 1)
     \/ /\ indegree[d] = 0
        /\ Return("internal")
        /\ UNCHANGED <<indegree, ready, at>>
  /\ UNCHANGED <<folder, inputUsed, outputUsed, packed, cursor, portVars>>

\* Mutant: the length of the order is not compared with the coder count.
OrderDone_NoCount ==
  /\ phase = "kahn"
  /\ at \notin Pairs(folder)
  /\ cursor = Len(ready)
  /\ Goto("registration", 1)
  /\ UNCHANGED <<folder, graphVars, portVars>>

OrderDone ==
  /\ phase = "kahn"
  /\ at \notin Pairs(folder)
  /\ cursor = Len(ready)
  /\ \/ /\ Len(ready) = folder.coders
        /\ Goto("registration", 1)
     \/ /\ Len(ready) # folder.coders
        /\ Return("format")
        /\ UNCHANGED at
  /\ UNCHANGED <<folder, graphVars, portVars>>

(***************************************************************************)
(* execute.rs decode_folder                                                *)
(***************************************************************************)

\* Every coder has one output; whether its method, arity and properties are
\* registered, and whether the size and dictionary limits hold, is open.
SingleOutput == \A o, q \in OutPorts(folder) :
                   folder.outOwner[o] = folder.outOwner[q] => o = q

CheckRegistration ==
  /\ phase = "registration"
  /\ \/ /\ SingleOutput
        /\ Goto("load", 1)
     \/ /\ Return("refused")
        /\ UNCHANGED at
  /\ UNCHANGED <<folder, graphVars, portVars>>

\* Mutant: the packed streams fill the packed ports in port order.
LoadPacked_InPortOrder ==
  /\ phase = "load"
  /\ at \in 1 .. Len(packed)
  /\ \E i \in {packed[j] : j \in DOMAIN packed} :
       /\ inPort[i] = Empty
       /\ \A j \in DOMAIN packed : inPort[packed[j]] = Empty => i <= packed[j]
       /\ inPort' = [inPort EXCEPT ![i] = Packed(at)]
  /\ Goto("load", at + 1)
  /\ UNCHANGED <<folder, graphVars, outPort, fed>>

\* load_packed_inputs: one packed stream into its port.  Its range or its
\* CRC may be wrong.
LoadPacked ==
  /\ phase = "load"
  /\ at \in 1 .. Len(packed)
  /\ \/ /\ inPort[packed[at]] = Empty
        /\ inPort' = [inPort EXCEPT ![packed[at]] = Packed(at)]
        /\ Goto("load", at + 1)
     \/ /\ inPort[packed[at]] # Empty
        /\ Return("internal")
        /\ UNCHANGED <<at, inPort>>
     \/ /\ Return("decode")
        /\ UNCHANGED <<at, inPort>>
  /\ UNCHANGED <<folder, graphVars, outPort, fed>>

LoadDone ==
  /\ phase = "load"
  /\ at \notin 1 .. Len(packed)
  /\ Goto("run", 1)
  /\ UNCHANGED <<folder, graphVars, portVars>>

InputsOf(c)  == {i \in InPorts(folder) : folder.inOwner[i] = c}
OutputsOf(c) == {o \in OutPorts(folder) : folder.outOwner[o] = c}

\* output_destinations: the input port the bind pairs connect to output o.
BoundTo(o, i) == \E p \in Pairs(folder) : /\ folder.pairs[p].output = o
                                          /\ folder.pairs[p].input = i

\* The inputs of coder c are taken, its output goes to the input bound to it
\* or, when none is, to its output port.
Deliver(c, o) ==
  LET taken == [i \in InPorts(folder) |->
                  IF i \in InputsOf(c) THEN Empty ELSE inPort[i]] IN
  \/ \E i \in InPorts(folder) :
       /\ BoundTo(o, i)
       /\ \/ /\ taken[i] = Empty
             /\ inPort' = [taken EXCEPT ![i] = Output(c)]
             /\ Goto("run", at + 1)
          \/ /\ taken[i] # Empty
             /\ Return("internal")
             /\ UNCHANGED <<at, inPort>>
       /\ UNCHANGED outPort
  \/ /\ ~ \E i \in InPorts(folder) : BoundTo(o, i)
     /\ \/ /\ outPort[o] = Empty
           /\ outPort' = [outPort EXCEPT ![o] = Output(c)]
           /\ inPort' = taken
           /\ Goto("run", at + 1)
        \/ /\ outPort[o] # Empty
           /\ Return("internal")
           /\ UNCHANGED <<at, inPort, outPort>>

RunCoder ==
  /\ phase = "run"
  /\ at \in 1 .. Len(ready)
  /\ LET c == ready[at] IN
     \/ /\ \A i \in InputsOf(c) : inPort[i] # Empty
        /\ fed' = [i \in InPorts(folder) |->
                     IF i \in InputsOf(c) THEN inPort[i] ELSE fed[i]]
        /\ \E o \in OutputsOf(c) : Deliver(c, o)
     \/ /\ \E i \in InputsOf(c) : inPort[i] = Empty
        /\ Return("internal")
        /\ UNCHANGED <<at, portVars>>
     \/ /\ \A i \in InputsOf(c) : inPort[i] # Empty
        /\ Return("decode")
        /\ UNCHANGED <<at, portVars>>
  /\ UNCHANGED <<folder, graphVars>>

RunDone ==
  /\ phase = "run"
  /\ at \notin 1 .. Len(ready)
  /\ Goto("finish", 1)
  /\ UNCHANGED <<folder, graphVars, portVars>>

\* Nothing left in an input port, the root output there, no other output.
Finish ==
  /\ phase = "finish"
  /\ Return(IF /\ \A i \in InPorts(folder) : inPort[i] = Empty
               /\ \A o \in OutPorts(folder) :
                     outPort[o] # Empty <=> o = RootOutput
            THEN "ok" ELSE "internal")
  /\ UNCHANGED <<folder, graphVars, at, portVars>>

\* Where control.checkpoint is called: before the bind loop, for every queue
\* entry and edge, and throughout execution.
AtCheckpoint ==
  \/ phase = "bind" /\ at = 1
  \/ phase = "kahn" /\ (at \in Pairs(folder) \/ cursor < Len(ready))
  \/ phase \in {"registration", "load", "run", "finish"}

\* A checkpoint fails: the caller cancelled or the work budget is spent.
Interrupt ==
  /\ AtCheckpoint
  /\ Return("interrupted")
  /\ UNCHANGED <<folder, graphVars, at, portVars>>

Step ==
  \/ Bind \/ FindRoot \/ AssignPacked
  \/ Seed \/ TakeReady \/ SkipEdge \/ RelaxEdge \/ OrderDone
  \/ CheckRegistration \/ LoadPacked \/ LoadDone
  \/ RunCoder \/ RunDone \/ Finish

Next == Step \/ Interrupt

\* The caller's thread keeps running: nothing in these loops blocks.
Spec == Init /\ [][Next]_vars /\ WF_vars(Step)
-----------------------------------------------------------------------------
(***************************************************************************)
(* What a folder must satisfy to be executed, stated without the           *)
(* algorithm: bind pairs connect existing ports, no port twice; explicit   *)
(* packed indices are the inputs that are left over; and the coders can be *)
(* ranked so that each one comes after the coders it reads from.           *)
(***************************************************************************)
Ranked(f) ==
  \E rank \in [Coders(f) -> Coders(f)] :
     \A p \in Pairs(f) : rank[Source(f, p)] < rank[Destination(f, p)]

PortsWellFormed(f) ==
  /\ \A p \in Pairs(f) : /\ f.pairs[p].input \in InPorts(f)
                         /\ f.pairs[p].output \in OutPorts(f)
  /\ \A p, q \in Pairs(f) : p # q => /\ f.pairs[p].input # f.pairs[q].input
                                     /\ f.pairs[p].output # f.pairs[q].output
  /\ \A j \in DOMAIN f.packed :
        /\ f.packed[j] \in InPorts(f)
        /\ \A p \in Pairs(f) : f.pairs[p].input # f.packed[j]
        /\ \A k \in DOMAIN f.packed : f.packed[j] = f.packed[k] => j = k

WellFormed(f) == PortsWellFormed(f) /\ Ranked(f)

Accepted ==
  \/ phase \in {"registration", "load", "run", "finish"}
  \/ result \in {"ok", "refused", "decode", "internal"}

\* Whatever validation lets through is well formed: the queue of
\* topological_order filled up only because the dependencies have no cycle.
AcceptedIsWellFormed == Accepted => WellFormed(folder)

\* Whatever validation turns away with a format error is not well formed: no
\* legal folder is refused, in whatever order it declares its coders.
RejectedIsMalformed == result = "format" => ~ WellFormed(folder)

\* The checks decode_folder repeats on ports ("unavailable during execution",
\* "populated more than once", "left an input stream unconsumed", "multiple
\* root streams") and the underflow check of topological_order never fire on
\* a folder validate_folder_graph accepted.
NoInternalError == result # "internal"

\* The stream the folder's declarations wire to input port i.
Wired(i) ==
  IF i \in inputUsed
  THEN Output(Source(folder, CHOOSE p \in Pairs(folder) :
                                folder.pairs[p].input = i))
  ELSE Packed(CHOOSE j \in DOMAIN packed : packed[j] = i)

\* A folder that decodes has run every coder on exactly the streams the bind
\* pairs and packed indices wire to its inputs.
DecodedAsWired ==
  result = "ok" => \A i \in InPorts(folder) : fed[i] = Wired(i)

\* Validation and execution come to an end on every folder.
Terminates == <>(phase = "done")
=============================================================================
