--------------------------- MODULE StreamPumpProofs ---------------------------
(***************************************************************************)
(* Extraction of a standalone stream, for frame tables of any length,      *)
(* decoders that produce, leave and fail as they please, any budgets and   *)
(* limits, and a token that is cancelled at any time: work is paid for     *)
(* before its output is written, output stays within the limits, success   *)
(* means that all frames were intact, and a frame that is blamed is bad.   *)
(*                                                                         *)
(* The state is related to the frame table: the frames in front of the one *)
(* under way add up to what was written and charged when it was begun, and *)
(* what the decoder of this one took and produced is, in each phase of     *)
(* pump_reader, divided into what is charged, written or in the buffer.    *)
(* That the table is well formed, whatever the input, is proved from the   *)
(* parsers, each of which is a scan that only goes forward.                *)
(***************************************************************************)
EXTENDS StreamPump, NaturalLemmas, SequenceTheorems

\* A row of the frame table.
FrameOK(f) ==
  /\ f.input \in Nat /\ f.output \in Nat /\ f.left \in Nat /\ f.working \in Int
  /\ f.content \in Nat \cup {Unknown}
  /\ f.damage \in Damages

\* The frame table of the stream, which no step after opening changes.
TableInv ==
  /\ job \in Jobs
  /\ Len(stream.frames) \in Nat /\ DOMAIN stream.frames = 1 .. Len(stream.frames)
  /\ \A i \in DOMAIN stream.frames : FrameOK(stream.frames[i])

\* A frame is under way, and a buffer of it is.
Active == phase \in {"pump", "decoder", "asked", "interrupted", "charge", "admit", "write", "end"}
\* Output is in the buffer and not yet written.
Pending == phase \in {"charge", "admit", "write"}

\* Where the session is goes with what is open.
PlaceInv ==
  /\ phase = "open" => /\ at = 0 /\ stream = Closed
                       /\ output = 0 /\ start = 0 /\ checksums = 0
  /\ phase = "frame" => at > 0
  /\ Active => at \in DOMAIN stream.frames
  /\ phase = "done" <=> result # "none"

\* The frames in front of this one were finished, and their checksums counted.
FinishedInv ==
  /\ \A i \in 1 .. at - 1 : Intact(stream.frames[i])
  /\ checksums = Cardinality({i \in 1 .. at - 1 : stream.frames[i].checksum})

\* The output of this frame is written but for what is in the buffer.
OutputInv ==
  /\ phase = "frame" => output = OutputBefore(at)
  /\ Active => /\ start = OutputBefore(at)
               /\ produced <= Frame.output
               /\ output + (IF Pending THEN buffered ELSE 0) = start + produced
               /\ ~ Frame.dictionary

\* The input of this frame is charged once its bytes are in the buffer.
InputInv ==
  /\ Active => charged <= consumed
  /\ phase \in {"charge", "admit", "write", "end"} => charged = consumed
  /\ phase = "charge" => delta <= charged /\ paid < buffered
  /\ phase \in {"admit", "write"} => paid = buffered
  /\ phase = "interrupted" => cancelled
  /\ phase = "end" => Exhausted

\* What was charged is enough for what was taken and written.
PaidInv ==
  /\ phase = "frame" => spent >= output + InputBefore(at)
  /\ Active =>
       spent >= output + InputBefore(at) + (IF Pending THEN paid ELSE 0)
                  + (IF phase = "charge" /\ paid = 0 THEN charged - delta ELSE charged)

\* A buffer to be written fits into the limits and the declared size.
LimitInv ==
  /\ OutputIsBounded
  /\ phase = "write" => /\ WithinLimits(buffered)
                        /\ Frame.content # Unknown => output + buffered - start <= Frame.content

\* What a return says of the frames.
ResultInv == OkIsIntact /\ BlamedFrameIsBad

\* The inductive invariant.
PumpInv ==
  /\ TypeOK /\ TableInv /\ PlaceInv /\ FinishedInv
  /\ OutputInv /\ InputInv /\ PaidInv /\ LimitInv /\ ResultInv
-----------------------------------------------------------------------------
(***************************************************************************)
(* The sums over the frames                                                *)
(***************************************************************************)
LEMMA PrefixSum ==
  ASSUME NEW l \in Nat, NEW f, \A i \in 1 .. l : f[i] \in Nat,
         NEW n \in 1 .. l + 1
  PROVE  /\ SumFunctionOnSet(f, 1 .. n - 1) \in Nat
         /\ n <= l => SumFunctionOnSet(f, 1 .. n + 1 - 1) = SumFunctionOnSet(f, 1 .. n - 1) + f[n]
  <1>1. PICK m \in Nat : n = m + 1 /\ n - 1 = m
    BY n - 1 \in Nat
  <1>2. SumFunctionOnSet(f, 1 .. m) \in Nat
    <2>1. IsFiniteSet(1 .. l) /\ 1 .. m \in SUBSET (1 .. l)
      BY <1>1, FS_Interval
    <2> QED
      BY <2>1, SumNatural
  <1>3. ASSUME n <= l
        PROVE  SumFunctionOnSet(f, 1 .. m + 1) = SumFunctionOnSet(f, 1 .. m) + f[m + 1]
    <2>1. \A i \in 1 .. m + 1 : f[i] \in Int
      BY <1>1, <1>3
    <2> QED
      BY <2>1, SumNext
  <1>4. n + 1 - 1 = m + 1
    BY <1>1
  <1> QED
    BY <1>1, <1>2, <1>3, <1>4

\* What one more frame adds to the input and the output in front of it.
LEMMA Sums ==
  ASSUME TableInv, NEW n \in 1 .. Len(stream.frames) + 1
  PROVE  /\ InputBefore(n) \in Nat /\ OutputBefore(n) \in Nat
         /\ n \in DOMAIN stream.frames =>
              /\ InputBefore(n + 1) = InputBefore(n) + stream.frames[n].input
              /\ OutputBefore(n + 1) = OutputBefore(n) + stream.frames[n].output
         /\ InputBefore(1) = 0 /\ OutputBefore(1) = 0
  <1>1. PICK l, f, g : /\ l = Len(stream.frames)
                       /\ f = [i \in DOMAIN stream.frames |-> stream.frames[i].input]
                       /\ g = [i \in DOMAIN stream.frames |-> stream.frames[i].output]
    OBVIOUS
  <1>2. l \in Nat /\ DOMAIN stream.frames = 1 .. l /\ n \in 1 .. l + 1
    BY <1>1 DEF TableInv
  <1>3. \A i \in 1 .. l : /\ f[i] = stream.frames[i].input /\ f[i] \in Nat
                          /\ g[i] = stream.frames[i].output /\ g[i] \in Nat
    BY <1>1, <1>2 DEF TableInv, FrameOK
  <1>4. /\ SumFunctionOnSet(f, 1 .. n - 1) \in Nat
        /\ n <= l => SumFunctionOnSet(f, 1 .. n + 1 - 1) = SumFunctionOnSet(f, 1 .. n - 1) + f[n]
    BY <1>2, <1>3, PrefixSum
  <1>5. /\ SumFunctionOnSet(g, 1 .. n - 1) \in Nat
        /\ n <= l => SumFunctionOnSet(g, 1 .. n + 1 - 1) = SumFunctionOnSet(g, 1 .. n - 1) + g[n]
    BY <1>2, <1>3, PrefixSum
  <1>6. 1 .. 1 - 1 = {}
    OBVIOUS
  <1>7. SumFunctionOnSet(f, 1 .. 1 - 1) = 0 /\ SumFunctionOnSet(g, 1 .. 1 - 1) = 0
    BY <1>6, SumEmpty
  <1>8. n \in DOMAIN stream.frames => n <= l /\ n \in 1 .. l
    BY <1>2
  <1> QED
    BY <1>1, <1>3, <1>4, <1>5, <1>7, <1>8 DEF InputBefore, OutputBefore
-----------------------------------------------------------------------------
(***************************************************************************)
(* The steps                                                               *)
(***************************************************************************)
Results ==
  {"ok", "opened", "format", "checksum", "unsupported", "limit", "cancelled", "io", "internal"}

\* The type invariant once more, as single facts.
LEMMA Types ==
  ASSUME PumpInv
  PROVE  /\ consumed \in Nat /\ charged \in Nat /\ delta \in Nat /\ start \in Nat
         /\ output \in Nat /\ checksums \in Nat /\ produced \in Nat /\ spent \in Nat
         /\ buffered \in Nat /\ buffered <= IoChunk /\ paid \in Nat /\ paid <= buffered
         /\ at \in Nat /\ at <= Len(stream.frames) + 1
         /\ cancelled \in BOOLEAN /\ opening \in BOOLEAN
         /\ phase \in Phases
         /\ IoChunk \in Nat /\ 0 < IoChunk /\ ControlChunk \in Nat /\ 0 < ControlChunk
         /\ Len(stream.frames) \in Nat /\ DOMAIN stream.frames = 1 .. Len(stream.frames)
         /\ Active => at \in DOMAIN stream.frames /\ FrameOK(Frame)
                      /\ InputBefore(at) \in Nat /\ OutputBefore(at) \in Nat
  <1>1. TypeOK /\ TableInv /\ PlaceInv
    BY DEF PumpInv
  <1>2. Len(stream.frames) \in Nat /\ DOMAIN stream.frames = 1 .. Len(stream.frames)
    BY <1>1 DEF TableInv
  <1>3. Active => at \in DOMAIN stream.frames /\ FrameOK(Frame)
    BY <1>1 DEF TableInv, PlaceInv, Frame
  <1>4. Active => InputBefore(at) \in Nat /\ OutputBefore(at) \in Nat
    <2>1. Active => at \in 1 .. Len(stream.frames) + 1
      BY <1>2, <1>3
    <2> QED
      BY <1>1, <2>1, Sums
  <1>5. /\ consumed \in Nat /\ charged \in Nat /\ delta \in Nat /\ start \in Nat
        /\ output \in Nat /\ checksums \in Nat /\ produced \in Nat /\ spent \in Nat
        /\ cancelled \in BOOLEAN /\ opening \in BOOLEAN /\ phase \in Phases
    BY <1>1 DEF TypeOK
  <1>6. /\ buffered \in Nat /\ buffered <= IoChunk /\ paid \in Nat /\ paid <= buffered
        /\ at \in Nat /\ at <= Len(stream.frames) + 1
    BY <1>1, <1>2, ChunksAssumption DEF TypeOK
  <1> QED
    BY <1>2, <1>3, <1>4, <1>5, <1>6, ChunksAssumption

\* The work on a frame ends with an error: nothing has to be shown but that a
\* frame that is blamed is bad.
LEMMA Stops ==
  ASSUME PumpInv, Active, TypeOK',
         phase' = "done", result' \in {"format", "checksum", "limit", "cancelled", "io"},
         UNCHANGED <<job, stream, at, output, start, checksums>>,
         result' \in {"format", "checksum"} => ~ Intact(Frame) \/ (opening' /\ cancelled')
  PROVE  PumpInv'
  <1> USE DEF PumpInv
  <1>1. at \in DOMAIN stream.frames /\ phase # "frame" /\ start = OutputBefore(at)
    BY DEF PlaceInv, OutputInv, Active
  <1>2. TableInv'
    BY DEF TableInv
  <1>3. PlaceInv'
    BY DEF PlaceInv, Active
  <1>4. FinishedInv'
    BY DEF FinishedInv
  <1>5. OutputInv' /\ InputInv' /\ PaidInv'
    BY DEF OutputInv, InputInv, PaidInv, Active
  <1>6. LimitInv'
    BY <1>1 DEF LimitInv, OutputIsBounded, Frame
  <1>7. ResultInv'
    <2>1. OkIsIntact'
      BY DEF OkIsIntact
    <2>2. OutputBefore(at)' = OutputBefore(at)
      BY DEF OutputBefore
    <2>3. BlamedFrameIsBad'
      BY <1>1, <2>2 DEF BlamedFrameIsBad, Intact, Frame
    <2> QED
      BY <2>1, <2>3 DEF ResultInv
  <1> QED
    BY <1>2, <1>3, <1>4, <1>5, <1>6, <1>7

\* The work on a frame goes on.
LEMMA Continues ==
  ASSUME PumpInv, Active, TypeOK', Active', phase' # "frame", phase' # "open", phase' # "done",
         UNCHANGED <<job, stream, at, start, checksums, result>>,
         OutputInv', InputInv', PaidInv', LimitInv'
  PROVE  PumpInv'
  <1> USE DEF PumpInv
  <1>1. result = "none"
    BY DEF PlaceInv, Active
  <1>2. TableInv'
    BY DEF TableInv
  <1>3. PlaceInv'
    BY <1>1 DEF PlaceInv, Active
  <1>4. FinishedInv'
    BY DEF FinishedInv
  <1>5. ResultInv'
    BY <1>1 DEF ResultInv, OkIsIntact, BlamedFrameIsBad
  <1> QED
    BY <1>2, <1>3, <1>4, <1>5

\* The decoder at work: input may be taken, and nothing else happens.
LEMMA Quiet ==
  ASSUME PumpInv, TypeOK',
         phase \in {"pump", "decoder", "asked", "interrupted"},
         phase' \in {"pump", "decoder", "asked", "interrupted"},
         phase' = "interrupted" => cancelled',
         UNCHANGED <<job, stream, at, pumpVars, output, checksums, produced, result>>,
         consumed' >= consumed, spent' >= spent
  PROVE  PumpInv'
  <1> USE DEF pumpVars
  <1>1. Active /\ Active' /\ ~ Pending /\ ~ Pending' /\ phase # "end" /\ phase' # "end"
        /\ phase # "charge" /\ phase' # "charge" /\ phase # "frame" /\ phase' # "frame"
        /\ phase' # "write"
    BY DEF Active, Pending
  <1>2. /\ consumed \in Nat /\ charged \in Nat /\ spent \in Nat /\ output \in Nat
        /\ InputBefore(at) \in Nat /\ at \in DOMAIN stream.frames
    BY <1>1, Types
  <1>3. consumed' \in Nat /\ spent' \in Nat
    BY DEF TypeOK
  <1>4. InputBefore(at)' = InputBefore(at) /\ OutputBefore(at)' = OutputBefore(at)
        /\ Frame' = Frame
    BY DEF InputBefore, OutputBefore, Frame
  <1>5. OutputInv'
    BY <1>1, <1>4 DEF PumpInv, OutputInv
  <1>6. InputInv'
    <2>1. charged <= consumed
      BY <1>1 DEF PumpInv, InputInv
    <2>2. charged' <= consumed'
      BY <1>2, <1>3, <2>1
    <2> QED
      BY <1>1, <2>2 DEF InputInv
  <1>7. PaidInv'
    <2>1. spent >= output + InputBefore(at) + 0 + charged
      BY <1>1 DEF PumpInv, PaidInv
    <2>2. spent' >= output + InputBefore(at) + 0 + charged
      BY <1>2, <1>3, <2>1
    <2> QED
      BY <1>1, <1>4, <2>2 DEF PaidInv
  <1>8. LimitInv'
    BY <1>1, <1>2, <1>4 DEF PumpInv, LimitInv, OutputIsBounded
  <1> QED
    BY <1>1, <1>5, <1>6, <1>7, <1>8, Continues

\* The decoder asks for input.
LEMMA AskPump ==
  ASSUME PumpInv, NEW kind \in {"read", "read_exact"}, Ask(kind)
  PROVE  PumpInv'
  <1>1. phase = "decoder" /\ phase' = "asked" /\ asking' = kind
        /\ UNCHANGED <<job, stream, cancelled, spent, at, pumpVars, output, checksums,
                       consumed, opening, produced, result>>
    BY DEF Ask, Goto
  <1>2. TypeOK'
    BY <1>1 DEF PumpInv, TypeOK, Phases, pumpVars
  <1>3. consumed' >= consumed /\ spent' >= spent
    BY <1>1, Types
  <1> QED
    BY <1>1, <1>2, <1>3, Quiet

\* ControlledInput answers, or finds the token cancelled.
LEMMA AnswerPump ==
  ASSUME PumpInv, Answer
  PROVE  PumpInv'
  <1>1. /\ phase = "asked" /\ phase' \in {"interrupted", "decoder"}
        /\ phase' = "interrupted" => cancelled'
        /\ asking' \in {asking, "eof", "none"}
        /\ \/ consumed' = consumed
           \/ \E n \in 1 .. Smaller(Wanted - consumed, ControlChunk) : consumed' = consumed + n
        /\ UNCHANGED <<job, stream, cancelled, spent, at, pumpVars, output, checksums,
                       opening, produced, result>>
    BY DEF Answer, Goto
  <1>2. consumed' >= consumed /\ consumed' \in Nat /\ spent' >= spent
    <2>1. consumed \in Nat /\ spent \in Nat
      BY Types
    <2>2. ASSUME NEW n \in 1 .. Smaller(Wanted - consumed, ControlChunk), consumed' = consumed + n
          PROVE  consumed' >= consumed /\ consumed' \in Nat
      <3>1. n \in Int /\ 1 <= n
        OBVIOUS
      <3> QED
        BY <2>1, <2>2, <3>1
    <2> QED
      BY <1>1, <2>1, <2>2
  <1>3. TypeOK'
    BY <1>1, <1>2 DEF PumpInv, TypeOK, Phases, pumpVars
  <1> QED
    BY <1>1, <1>2, <1>3, Quiet

\* The decoder asks once more, or its constructor is through.
LEMMA ResumePump ==
  ASSUME PumpInv, InterruptedReadExact \/ Opened
  PROVE  PumpInv'
  <1>1. /\ phase \in {"interrupted", "decoder"} /\ phase' \in {"asked", "pump"}
        /\ opening' \in {opening, FALSE}
        /\ UNCHANGED <<job, stream, cancelled, spent, at, pumpVars, output, checksums,
                       consumed, asking, produced, result>>
    BY DEF InterruptedReadExact, Opened, Goto, decoderVars
  <1>2. TypeOK'
    BY <1>1 DEF PumpInv, TypeOK, Phases, pumpVars
  <1>3. consumed' >= consumed /\ spent' >= spent
    BY <1>1, Types
  <1> QED
    BY <1>1, <1>2, <1>3, Quiet

\* pump_reader looks at the token and calls the decoder.
LEMMA CallPump ==
  ASSUME PumpInv, CallDecoder
  PROVE  PumpInv'
  <1>1. /\ phase = "pump" /\ Active /\ asking' = "none" /\ Checkpoint(0, "decoder")
        /\ UNCHANGED <<job, stream, cancelled, at, pumpVars, output, checksums, consumed,
                       opening, produced>>
    BY DEF CallDecoder, Active
  <1>2. spent \in Nat /\ consumed \in Nat
    BY Types
  <1>3. CASE CheckpointResult(0) = "ok"
    <2>1. phase' = "decoder" /\ result' = result /\ spent' = spent
      BY <1>1, <1>2, <1>3 DEF Checkpoint, Goto
    <2>2. TypeOK'
      BY <1>1, <2>1 DEF PumpInv, TypeOK, Phases, pumpVars
    <2>3. consumed' >= consumed /\ spent' >= spent
      BY <1>1, <1>2, <2>1
    <2> QED
      BY <1>1, <2>1, <2>2, <2>3, Quiet
  <1>4. CASE CheckpointResult(0) # "ok"
    <2>1. CheckpointResult(0) \in {"cancelled", "limit"}
      BY <1>4 DEF CheckpointResult
    <2>2. phase' = "done" /\ result' \in {"cancelled", "limit"} /\ spent' = spent
      BY <1>1, <1>4, <2>1 DEF Checkpoint, Return
    <2>3. TypeOK'
      BY <1>1, <2>2 DEF PumpInv, TypeOK, Phases, pumpVars
    <2> QED
      BY <1>1, <2>2, <2>3, Stops DEF pumpVars
  <1> QED
    BY <1>3, <1>4

\* An error of the decoder is the frame's, or else that of the token.
LEMMA FailPump ==
  ASSUME PumpInv, InterruptedRead \/ Fail
  PROVE  PumpInv'
  <1>1. /\ phase \in {"interrupted", "decoder"} /\ Active /\ phase' = "done"
        /\ result' \in {"format", "checksum", "cancelled"}
        /\ UNCHANGED <<job, stream, cancelled, spent, at, pumpVars, output, checksums,
                       consumed, opening, asking, produced>>
    BY DEF InterruptedRead, Fail, DecoderFails, Return, decoderVars, Active
  <1>2. result' \in {"format", "checksum"} => ~ Intact(Frame) \/ (opening' /\ cancelled')
    <2>1. CASE InterruptedRead
      <3>1. cancelled
        BY <2>1 DEF InterruptedRead, PumpInv, InputInv
      <3> QED
        BY <1>1, <2>1, <3>1 DEF InterruptedRead, DecoderFails, Return
    <2>2. CASE Fail
      BY <2>2 DEF Fail, Intact
    <2> QED
      BY <2>1, <2>2
  <1>3. TypeOK'
    BY <1>1 DEF PumpInv, TypeOK, Phases, pumpVars
  <1> QED
    BY <1>1, <1>2, <1>3, Stops DEF pumpVars

\* Output of the decoder is in the buffer, and the input it took for it counted.
LEMMA ReadPump ==
  ASSUME PumpInv, ReadOutput
  PROVE  PumpInv'
  <1>1. PICK n \in 1 .. Smaller(IoChunk, Frame.output - produced) :
          /\ buffered' = n /\ produced' = produced + n
    BY DEF ReadOutput
  <1>2. /\ phase = "decoder" /\ phase' = "charge" /\ Active /\ ~ Pending /\ Active' /\ Pending'
        /\ paid' = 0 /\ delta' = consumed - charged /\ charged' = consumed
        /\ UNCHANGED <<job, stream, cancelled, spent, at, start, output, checksums, consumed,
                       opening, asking, result>>
    BY DEF ReadOutput, Goto, Active, Pending
  <1>3. /\ consumed \in Nat /\ charged \in Nat /\ produced \in Nat /\ output \in Nat
        /\ start \in Nat /\ spent \in Nat /\ IoChunk \in Nat
        /\ at \in DOMAIN stream.frames /\ FrameOK(Frame) /\ InputBefore(at) \in Nat
    BY <1>2, Types
  <1>4. Frame.output \in Nat
    BY <1>3 DEF FrameOK
  <1>5. n \in Nat /\ 0 < n /\ n <= IoChunk /\ produced + n <= Frame.output
    BY <1>3, <1>4 DEF Smaller
  <1>6. /\ charged <= consumed /\ consumed - charged \in Nat
        /\ output + 0 = start + produced /\ start = OutputBefore(at) /\ ~ Frame.dictionary
        /\ spent >= output + InputBefore(at) + 0 + charged
    <2>1. charged <= consumed
      BY <1>2 DEF PumpInv, InputInv
    <2>2. output + 0 = start + produced /\ start = OutputBefore(at) /\ ~ Frame.dictionary
      BY <1>2 DEF PumpInv, OutputInv
    <2>3. spent >= output + InputBefore(at) + 0 + charged
      BY <1>2 DEF PumpInv, PaidInv
    <2> QED
      BY <1>3, <2>1, <2>2, <2>3
  <1>7. InputBefore(at)' = InputBefore(at) /\ OutputBefore(at)' = OutputBefore(at)
        /\ Frame' = Frame
    BY <1>2 DEF InputBefore, OutputBefore, Frame
  <1>8. TypeOK'
    BY <1>1, <1>2, <1>3, <1>5, <1>6 DEF PumpInv, TypeOK, Phases
  <1>9. OutputInv'
    <2>1. output + n = start + (produced + n)
      BY <1>3, <1>5, <1>6
    <2> QED
      BY <1>1, <1>2, <1>5, <1>6, <1>7, <2>1 DEF OutputInv
  <1>10. InputInv'
    BY <1>1, <1>2, <1>3, <1>5, <1>6 DEF InputInv
  <1>11. PaidInv'
    <2>1. consumed - (consumed - charged) = charged
      BY <1>3
    <2> QED
      BY <1>2, <1>6, <1>7, <2>1 DEF PaidInv
  <1>12. LimitInv'
    BY <1>2, <1>7 DEF PumpInv, LimitInv, OutputIsBounded
  <1> QED
    BY <1>2, <1>8, <1>9, <1>10, <1>11, <1>12, Continues

\* What a checkpoint does.
LEMMA CheckpointSteps ==
  ASSUME NEW work, NEW p, Checkpoint(work, p)
  PROVE  \/ phase' = p /\ result' = result /\ spent' = spent + work
         \/ phase' = "done" /\ result' \in {"cancelled", "limit"} /\ spent' = spent
  <1>1. CASE CheckpointResult(work) = "ok"
    BY <1>1 DEF Checkpoint, Goto
  <1>2. CASE CheckpointResult(work) # "ok"
    <2>1. CheckpointResult(work) \in {"cancelled", "limit"}
      BY <1>2 DEF CheckpointResult
    <2> QED
      BY <1>2, <2>1 DEF Checkpoint, Return
  <1> QED
    BY <1>1, <1>2

\* The frame is at its end, and the rest of its input is charged.
LEMMA NothingPump ==
  ASSUME PumpInv, ReadNothing
  PROVE  PumpInv'
  <1>1. /\ phase = "decoder" /\ Active /\ ~ Pending /\ Exhausted /\ charged' = consumed
        /\ Checkpoint(consumed - charged + 1, "end")
        /\ UNCHANGED <<job, stream, cancelled, at, delta, start, buffered, paid, output,
                       checksums, consumed, opening, asking, produced>>
    BY DEF ReadNothing, Active, Pending, decoderVars
  <1>2. /\ consumed \in Nat /\ charged \in Nat /\ produced \in Nat /\ output \in Nat
        /\ spent \in Nat /\ at \in DOMAIN stream.frames /\ InputBefore(at) \in Nat
    BY <1>1, Types
  <1>3. charged <= consumed /\ spent >= output + InputBefore(at) + 0 + charged
    BY <1>1 DEF PumpInv, InputInv, PaidInv
  <1>4. spent + (consumed - charged + 1) \in Nat
    BY <1>2, <1>3
  <1>5. \/ phase' = "end" /\ result' = result /\ spent' = spent + (consumed - charged + 1)
        \/ phase' = "done" /\ result' \in {"cancelled", "limit"} /\ spent' = spent
    BY <1>1, CheckpointSteps
  <1>6. TypeOK'
    BY <1>1, <1>2, <1>4, <1>5 DEF PumpInv, TypeOK, Phases
  <1>7. CASE phase' = "end" /\ result' = result /\ spent' = spent + (consumed - charged + 1)
    <2>1. Active' /\ ~ Pending'
      BY <1>7 DEF Active, Pending
    <2>2. InputBefore(at)' = InputBefore(at) /\ OutputBefore(at)' = OutputBefore(at)
          /\ Frame' = Frame /\ stream'.format = stream.format
      BY <1>1 DEF InputBefore, OutputBefore, Frame
    <2>3. OutputInv'
      BY <1>1, <1>7, <2>1, <2>2 DEF PumpInv, OutputInv
    <2>4. InputInv'
      <3>1. Exhausted'
        BY <1>1, <2>2 DEF Exhausted
      <3>2. consumed' <= consumed
        BY <1>1, <1>2
      <3> QED
        BY <1>1, <1>7, <3>1, <3>2 DEF InputInv
    <2>5. PaidInv'
      <3>1. spent' >= output + InputBefore(at) + 0 + consumed
        BY <1>2, <1>3, <1>7
      <3> QED
        BY <1>1, <1>7, <2>1, <2>2, <3>1 DEF PaidInv
    <2>6. LimitInv'
      BY <1>1, <1>7, <2>2 DEF PumpInv, LimitInv, OutputIsBounded
    <2> QED
      BY <1>1, <1>6, <1>7, <2>1, <2>3, <2>4, <2>5, <2>6, Continues
  <1>8. CASE phase' = "done" /\ result' \in {"cancelled", "limit"} /\ spent' = spent
    BY <1>1, <1>6, <1>8, Stops
  <1> QED
    BY <1>5, <1>7, <1>8

\* A chunk of the buffer is charged, and its input with the first.
LEMMA ChargePump ==
  ASSUME PumpInv, ChargeChunk
  PROVE  PumpInv'
  <1> DEFINE length == Smaller(ControlChunk, buffered - paid)
             work == length + 1 + (IF paid = 0 THEN delta ELSE 0)
             then == IF paid + length = buffered THEN "admit" ELSE "charge"
  <1>1. /\ phase = "charge" /\ Active /\ Pending /\ paid' = paid + length
        /\ Checkpoint(work, then)
        /\ UNCHANGED <<job, stream, cancelled, at, charged, delta, start, buffered, output,
                       checksums, consumed, opening, asking, produced>>
    BY DEF ChargeChunk, Active, Pending, decoderVars
  <1>2. /\ charged \in Nat /\ delta \in Nat /\ output \in Nat /\ spent \in Nat
        /\ buffered \in Nat /\ paid \in Nat /\ ControlChunk \in Nat /\ 0 < ControlChunk
        /\ at \in DOMAIN stream.frames /\ InputBefore(at) \in Nat
    BY <1>1, Types
  <1>3. /\ charged = consumed /\ delta <= charged /\ paid < buffered
        /\ spent >= output + InputBefore(at) + paid
                      + (IF paid = 0 THEN charged - delta ELSE charged)
    <2>1. charged = consumed /\ delta <= charged /\ paid < buffered
      BY <1>1 DEF PumpInv, InputInv
    <2>2. spent >= output + InputBefore(at) + paid
                      + (IF paid = 0 THEN charged - delta ELSE charged)
      BY <1>1 DEF PumpInv, PaidInv
    <2> QED
      BY <2>1, <2>2
  <1>4. length \in Nat /\ 0 < length /\ paid + length <= buffered
    BY <1>2, <1>3 DEF Smaller
  <1> HIDE DEF length
  <1>5. work \in Nat
    BY <1>2, <1>4
  <1>6. spent + work >= output + InputBefore(at) + (paid + length) + charged
    <2>1. CASE paid = 0
      BY <1>2, <1>3, <1>4, <2>1
    <2>2. CASE paid # 0
      BY <1>2, <1>3, <1>4, <2>2
    <2> QED
      BY <2>1, <2>2
  <1>7. \/ phase' = then /\ result' = result /\ spent' = spent + work
        \/ phase' = "done" /\ result' \in {"cancelled", "limit"} /\ spent' = spent
    BY <1>1, CheckpointSteps
  <1>8. spent + work \in Nat /\ paid + length \in 0 .. buffered
    BY <1>2, <1>4, <1>5
  <1> HIDE DEF work
  <1>9. TypeOK'
    BY <1>1, <1>2, <1>7, <1>8 DEF PumpInv, TypeOK, Phases
  <1>10. CASE phase' = then /\ result' = result /\ spent' = spent + work
    <2>1. Active' /\ Pending' /\ phase' \in {"admit", "charge"}
      BY <1>10 DEF Active, Pending
    <2>2. /\ phase' = "charge" => paid + length < buffered
          /\ phase' = "admit" => paid + length = buffered
      BY <1>2, <1>4, <1>10
    <2>3. InputBefore(at)' = InputBefore(at) /\ OutputBefore(at)' = OutputBefore(at)
          /\ Frame' = Frame
      BY <1>1 DEF InputBefore, OutputBefore, Frame
    <2>4. OutputInv'
      BY <1>1, <2>1, <2>3 DEF PumpInv, OutputInv
    <2>5. InputInv'
      BY <1>1, <1>2, <1>3, <2>1, <2>2 DEF InputInv
    <2>6. PaidInv'
      <3>1. paid + length # 0
        BY <1>2, <1>4
      <3>2. phase' # "frame"
        BY <2>1
      <3>3. spent' >= output' + InputBefore(at)' + paid' + charged'
        BY <1>1, <1>6, <1>10, <2>3
      <3> QED
        BY <1>1, <2>1, <3>1, <3>2, <3>3 DEF PaidInv
    <2>7. LimitInv'
      BY <1>1, <2>1, <2>3 DEF PumpInv, LimitInv, OutputIsBounded
    <2> QED
      BY <1>1, <1>9, <1>10, <2>1, <2>4, <2>5, <2>6, <2>7, Continues
  <1>11. CASE phase' = "done" /\ result' \in {"cancelled", "limit"} /\ spent' = spent
    BY <1>1, <1>9, <1>11, Stops
  <1> QED
    BY <1>7, <1>10, <1>11

\* A buffer is admitted if it fits into the limits and the declared size, and
\* a frame is blamed only where its decoder made more than it declares.
LEMMA AdmitPump ==
  ASSUME PumpInv, Admit
  PROVE  PumpInv'
  <1>1. /\ phase = "admit" /\ Active /\ Pending
        /\ IF AdmitResult = "ok" THEN Goto("write") ELSE Return(AdmitResult)
        /\ UNCHANGED <<job, stream, cancelled, spent, at, pumpVars, output, checksums,
                       consumed, opening, asking, produced>>
    BY DEF Admit, Active, Pending, decoderVars
  <1>2. /\ output \in Nat /\ buffered \in Nat /\ start \in Nat /\ produced \in Nat
        /\ at \in DOMAIN stream.frames /\ FrameOK(Frame)
    BY <1>1, Types
  <1>3. /\ produced <= Frame.output /\ output + buffered = start + produced
    BY <1>1 DEF PumpInv, OutputInv
  <1> DEFINE over == output + buffered - start > Frame.content
  <1>6. /\ Frame.content = Unknown => AdmitResult \in {"limit", "cancelled", "ok"}
        /\ Frame.content # Unknown =>
             AdmitResult = IF ~ WithinLimits(buffered) THEN "limit"
                           ELSE IF over THEN "format"
                           ELSE IF cancelled THEN "cancelled" ELSE "ok"
        /\ AdmitResult = "ok" => WithinLimits(buffered)
    <2> DEFINE within == output + buffered <= Smaller(job.maxEntry, job.maxTotal)
    <2>1. AdmitResult =
            CASE Frame.content # Unknown /\ ~ within -> "limit"
              [] Frame.content # Unknown /\ within /\ over -> "format"
              [] OTHER -> IF cancelled THEN "cancelled" ELSE IF ~ within THEN "limit" ELSE "ok"
      BY DEF AdmitResult, WithinLimits
    <2>2. within \in BOOLEAN /\ over \in BOOLEAN /\ (WithinLimits(buffered) <=> within)
      BY DEF WithinLimits
    <2> HIDE DEF within, over
    <2> QED
      BY <2>1, <2>2
  <1> HIDE DEF over
  <1>4. CASE AdmitResult = "ok"
    <2>1. phase' = "write" /\ result' = result
      BY <1>1, <1>4 DEF Goto
    <2>2. TypeOK'
      BY <1>1, <2>1 DEF PumpInv, TypeOK, Phases, pumpVars
    <2>3. Active' /\ Pending'
      BY <2>1 DEF Active, Pending
    <2>4. InputBefore(at)' = InputBefore(at) /\ OutputBefore(at)' = OutputBefore(at)
          /\ Frame' = Frame
      BY <1>1 DEF InputBefore, OutputBefore, Frame
    <2>5. OutputInv'
      BY <1>1, <2>1, <2>3, <2>4 DEF PumpInv, OutputInv, pumpVars
    <2>6. InputInv'
      BY <1>1, <2>1 DEF PumpInv, InputInv, pumpVars
    <2>7. PaidInv'
      BY <1>1, <2>1, <2>3, <2>4 DEF PumpInv, PaidInv, pumpVars
    <2>8. LimitInv'
      <3>1. WithinLimits(buffered)
        BY <1>4, <1>6
      <3>2. Frame.content # Unknown => ~ (output + buffered - start > Frame.content)
        BY <1>4, <1>6 DEF over
      <3>3. Frame.content # Unknown => output + buffered - start <= Frame.content
        <4>1. Frame.content # Unknown => Frame.content \in Nat
          BY <1>2 DEF FrameOK
        <4> QED
          BY <1>2, <3>2, <4>1
      <3>4. WithinLimits(buffered)'
        BY <1>1, <3>1 DEF WithinLimits, pumpVars
      <3> QED
        BY <1>1, <2>1, <2>4, <3>3, <3>4 DEF PumpInv, LimitInv, OutputIsBounded, pumpVars
    <2> QED
      BY <1>1, <2>1, <2>2, <2>3, <2>5, <2>6, <2>7, <2>8, Continues DEF pumpVars
  <1>5. CASE AdmitResult # "ok"
    <2>1. /\ AdmitResult \in {"limit", "format", "cancelled"}
          /\ AdmitResult = "format" => /\ Frame.content # Unknown
                                       /\ output + buffered - start > Frame.content
      BY <1>5, <1>6 DEF over
    <2>2. phase' = "done" /\ result' = AdmitResult
      BY <1>1, <1>5 DEF Return
    <2>3. TypeOK'
      BY <1>1, <2>1, <2>2 DEF PumpInv, TypeOK, Phases, pumpVars
    <2>4. AdmitResult = "format" => ~ Intact(Frame)
      <3>1. Frame.output \in Nat /\ (Frame.content # Unknown => Frame.content \in Nat)
        BY <1>2 DEF FrameOK
      <3>2. AdmitResult = "format" => Frame.content # Unknown /\ Frame.content # Frame.output
        BY <1>2, <1>3, <2>1, <3>1
      <3> QED
        BY <3>2 DEF Intact
    <2> QED
      BY <1>1, <2>1, <2>2, <2>3, <2>4, Stops DEF pumpVars
  <1> QED
    BY <1>4, <1>5

\* The buffer is written, and was paid for and admitted before.
LEMMA WritePump ==
  ASSUME PumpInv, WriteOutput
  PROVE  PumpInv'
  <1>1. /\ phase = "write" /\ Active /\ Pending
        /\ \/ phase' = "pump" /\ result' = result /\ output' = output + buffered
           \/ phase' = "done" /\ result' = "io" /\ output' = output
        /\ UNCHANGED <<job, stream, cancelled, spent, at, charged, delta, start, buffered, paid,
                       checksums, consumed, opening, asking, produced>>
    BY DEF WriteOutput, Goto, Return, Active, Pending, decoderVars, pumpVars
  <1>2. /\ output \in Nat /\ buffered \in Nat /\ start \in Nat /\ produced \in Nat
        /\ spent \in Nat /\ charged \in Nat /\ InputBefore(at) \in Nat
        /\ at \in DOMAIN stream.frames
    BY <1>1, Types
  <1>3. TypeOK'
    <2>1. output' \in Nat
      BY <1>1, <1>2
    <2> QED
      BY <1>1, <2>1 DEF PumpInv, TypeOK, Phases
  <1>4. CASE phase' = "pump" /\ result' = result /\ output' = output + buffered
    <2>1. Active' /\ ~ Pending'
      BY <1>4 DEF Active, Pending
    <2>2. InputBefore(at)' = InputBefore(at) /\ OutputBefore(at)' = OutputBefore(at)
          /\ Frame' = Frame
      BY <1>1 DEF InputBefore, OutputBefore, Frame
    <2>3. OutputInv'
      <3>1. /\ start = OutputBefore(at) /\ produced <= Frame.output
            /\ output + buffered = start + produced /\ ~ Frame.dictionary
        BY <1>1 DEF PumpInv, OutputInv
      <3>2. output' + 0 = start + produced
        BY <1>2, <1>4, <3>1
      <3> QED
        BY <1>1, <1>4, <2>1, <2>2, <3>1, <3>2 DEF OutputInv
    <2>4. InputInv'
      BY <1>1, <1>4 DEF PumpInv, InputInv
    <2>5. PaidInv'
      <3>1. paid = buffered
        BY <1>1 DEF PumpInv, InputInv
      <3>2. spent >= output + InputBefore(at) + buffered + charged
        BY <1>1, <3>1 DEF PumpInv, PaidInv
      <3>3. spent >= output' + InputBefore(at) + 0 + charged
        BY <1>2, <1>4, <3>2
      <3> QED
        BY <1>1, <1>4, <2>1, <2>2, <3>3 DEF PaidInv
    <2>6. LimitInv'
      <3>1. /\ WithinLimits(buffered)
            /\ Frame.content # Unknown => output + buffered - start <= Frame.content
        BY <1>1 DEF PumpInv, LimitInv
      <3>2. output' <= Smaller(job'.maxEntry, job'.maxTotal)
        BY <1>1, <1>4, <3>1 DEF WithinLimits
      <3>3. Frame'.content # Unknown => output' - start' <= Frame'.content
        <4>1. PICK c : c = Frame.content /\ c = Frame'.content
          BY <2>2
        <4>2. c # Unknown => output + buffered - start <= c
          BY <3>1, <4>1
        <4>3. output' - start' = output + buffered - start
          <5>1. start' = start /\ output' = output + buffered
            BY <1>1, <1>4
          <5> QED
            BY <1>2, <5>1
        <4> QED
          BY <4>1, <4>2, <4>3
      <3> QED
        BY <1>4, <3>2, <3>3 DEF LimitInv, OutputIsBounded
    <2> QED
      BY <1>1, <1>3, <1>4, <2>1, <2>3, <2>4, <2>5, <2>6, Continues
  <1>5. CASE phase' = "done" /\ result' = "io" /\ output' = output
    BY <1>1, <1>3, <1>5, Stops
  <1> QED
    BY <1>1, <1>4, <1>5

\* A frame that ends without an error is intact, and one with an error is not.
LEMMA EndsIntact ==
  ASSUME PumpInv, phase = "end"
  PROVE  /\ EndResult = "ok" => Intact(Frame)
         /\ EndResult # "ok" => EndResult \in {"format", "checksum"} /\ ~ Intact(Frame)
         /\ output = start + Frame.output
  <1>1. Active /\ ~ Pending
    BY DEF Active, Pending
  <1>2. /\ consumed \in Nat /\ start \in Nat /\ output \in Nat /\ FrameOK(Frame)
    BY <1>1, Types
  <1>3. /\ charged = consumed /\ produced = Frame.output
        /\ Frame.damage = "none" \/ (Frame.damage = "checksum" /\ stream.format = "zstandard")
        /\ consumed = Frame.input - Frame.left
    BY DEF PumpInv, InputInv, Exhausted
  <1>4. output + 0 = start + produced /\ ~ Frame.dictionary
    BY <1>1 DEF PumpInv, OutputInv
  <1>5. /\ Frame.input \in Nat /\ Frame.left \in Nat /\ Frame.output \in Nat
        /\ Frame.content \in Nat \cup {Unknown}
    BY <1>2 DEF FrameOK
  <1>6. output = start + Frame.output /\ output - start = Frame.output
    <2>1. output = start + Frame.output
      BY <1>2, <1>3, <1>4, <1>5
    <2> QED
      BY <1>2, <1>5, <2>1
  <1>7. consumed # Frame.input <=> Frame.left # 0
    BY <1>3, <1>5
  <1>8. CASE Frame.content # Unknown /\ Frame.content # Frame.output
    BY <1>6, <1>8 DEF EndResult, Intact
  <1>9. CASE Frame.content = Unknown \/ Frame.content = Frame.output
    <2>1. EndResult = IF consumed # Frame.input THEN "format"
                      ELSE IF stream.format = "zstandard" /\ Frame.damage = "checksum"
                        THEN "checksum" ELSE "ok"
      BY <1>3, <1>6, <1>9 DEF EndResult
    <2> QED
      BY <1>3, <1>4, <1>6, <1>7, <1>9, <2>1 DEF Intact
  <1> QED
    BY <1>6, <1>8, <1>9

\* One more frame has one more checksum, or none.
LEMMA CountNext ==
  ASSUME NEW n \in Nat, NEW f
  PROVE  /\ Cardinality({i \in 1 .. n : f[i].checksum}) \in Nat
         /\ Cardinality({i \in 1 .. n + 1 : f[i].checksum})
              = Cardinality({i \in 1 .. n : f[i].checksum})
                  + (IF f[n + 1].checksum THEN 1 ELSE 0)
  <1> DEFINE S == {i \in 1 .. n : f[i].checksum}
             T == {i \in 1 .. n + 1 : f[i].checksum}
  <1>1. IsFiniteSet(S) /\ n + 1 \notin S
    <2>1. IsFiniteSet(1 .. n) /\ S \subseteq 1 .. n /\ n + 1 \notin 1 .. n
      BY FS_Interval
    <2> QED
      BY <2>1, FS_Subset
  <1>2. 1 .. n + 1 = (1 .. n) \cup {n + 1}
    OBVIOUS
  <1>3. CASE f[n + 1].checksum
    <2>1. T = S \cup {n + 1}
      BY <1>2, <1>3
    <2> HIDE DEF S, T
    <2>2. Cardinality(S) \in Nat /\ Cardinality(T) = Cardinality(S) + 1
      BY <1>1, <2>1, FS_CardinalityType, FS_AddElement
    <2> QED
      BY <1>3, <2>2 DEF S, T
  <1>4. CASE ~ f[n + 1].checksum
    <2>1. T = S
      BY <1>2, <1>4
    <2> HIDE DEF S, T
    <2>2. Cardinality(S) \in Nat /\ Cardinality(T) = Cardinality(S) + 0
      BY <1>1, <2>1, FS_CardinalityType
    <2> QED
      BY <1>4, <2>2 DEF S, T
  <1> QED
    BY <1>3, <1>4

\* A frame is finished: it is intact, written and paid for as a whole.
LEMMA FinishPump ==
  ASSUME PumpInv, EndFrame, EndResult = "ok"
  PROVE  PumpInv'
  <1>1. /\ phase = "end" /\ Active /\ ~ Pending /\ phase' = "frame" /\ result' = result
        /\ at' = at + 1 /\ checksums' = checksums + (IF Frame.checksum THEN 1 ELSE 0)
        /\ UNCHANGED <<job, stream, cancelled, spent, charged, delta, start, buffered, paid,
                       output, consumed, opening, asking, produced>>
    BY DEF EndFrame, Goto, Active, Pending, decoderVars, pumpVars
  <1>2. /\ consumed \in Nat /\ charged \in Nat /\ output \in Nat /\ start \in Nat /\ spent \in Nat
        /\ at \in DOMAIN stream.frames /\ FrameOK(Frame)
        /\ InputBefore(at) \in Nat /\ OutputBefore(at) \in Nat
        /\ Len(stream.frames) \in Nat /\ DOMAIN stream.frames = 1 .. Len(stream.frames)
        /\ checksums \in Nat
    BY <1>1, Types
  <1>3. at \in Nat /\ at - 1 \in Nat /\ at - 1 + 1 = at /\ at + 1 - 1 = at
        /\ at + 1 > 0 /\ at + 1 \in 0 .. Len(stream.frames) + 1
        /\ at \in 1 .. Len(stream.frames) + 1
    BY <1>2
  <1>4. Intact(Frame) /\ output = start + Frame.output
    BY <1>1, EndsIntact
  <1>5. result = "none" /\ start = OutputBefore(at)
    BY <1>1 DEF PumpInv, PlaceInv, OutputInv
  <1>6. charged = Frame.input - 0
    <2>1. charged = consumed /\ consumed = Frame.input - Frame.left
      BY <1>1 DEF PumpInv, InputInv, Exhausted
    <2> QED
      BY <1>4, <2>1 DEF Intact
  <1>7. /\ InputBefore(at + 1) = InputBefore(at) + Frame.input
        /\ OutputBefore(at + 1) = OutputBefore(at) + Frame.output
    BY <1>2, <1>3, Sums DEF PumpInv, Frame
  <1>8. InputBefore(at)' = InputBefore(at + 1) /\ OutputBefore(at)' = OutputBefore(at + 1)
    BY <1>1 DEF InputBefore, OutputBefore
  <1>9. TypeOK'
    <2>1. checksums' \in Nat
      BY <1>1, <1>2
    <2> QED
      BY <1>1, <1>3, <2>1 DEF PumpInv, TypeOK, Phases
  <1>10. TableInv'
    BY <1>1 DEF PumpInv, TableInv
  <1>11. ~ Active'
    BY <1>1 DEF Active
  <1>12. PlaceInv'
    BY <1>1, <1>3, <1>5, <1>11 DEF PlaceInv
  <1>13. FinishedInv'
    <2>1. /\ \A i \in 1 .. at - 1 : Intact(stream.frames[i])
          /\ checksums = Cardinality({i \in 1 .. at - 1 : stream.frames[i].checksum})
      BY DEF PumpInv, FinishedInv
    <2>2. \A i \in 1 .. at + 1 - 1 : Intact(stream.frames[i])
      <3>1. \A i \in 1 .. at : i \in 1 .. at - 1 \/ i = at
        BY <1>3
      <3> QED
        BY <1>3, <1>4, <2>1, <3>1 DEF Frame
    <2>3. Cardinality({i \in 1 .. at - 1 + 1 : stream.frames[i].checksum}) =
            Cardinality({i \in 1 .. at - 1 : stream.frames[i].checksum})
              + (IF stream.frames[at - 1 + 1].checksum THEN 1 ELSE 0)
      BY <1>3, CountNext
    <2>4. checksums' = Cardinality({i \in 1 .. at' - 1 : stream.frames[i].checksum})
      BY <1>1, <1>3, <2>1, <2>3 DEF Frame
    <2>5. \A i \in 1 .. at' - 1 : Intact(stream'.frames[i])
      <3>1. at' - 1 = at + 1 - 1 /\ stream' = stream
        BY <1>1, <1>3
      <3> QED
        BY <2>2, <3>1
    <2>6. checksums' = Cardinality({i \in 1 .. at' - 1 : stream'.frames[i].checksum})
      BY <1>1, <2>4
    <2> QED
      BY <2>5, <2>6 DEF FinishedInv, Intact
  <1>14. OutputInv'
    BY <1>1, <1>4, <1>5, <1>7, <1>8, <1>11 DEF OutputInv
  <1>15. InputInv'
    BY <1>1, <1>11 DEF InputInv
  <1>16. PaidInv'
    <2>1. spent >= output + InputBefore(at) + 0 + charged
      BY <1>1 DEF PumpInv, PaidInv
    <2>2. Frame.input \in Nat
      BY <1>2 DEF FrameOK
    <2>3. spent >= output + (InputBefore(at) + Frame.input)
      BY <1>2, <1>6, <2>1, <2>2
    <2> QED
      BY <1>1, <1>7, <1>8, <1>11, <2>3 DEF PaidInv
  <1>17. LimitInv'
    BY <1>1 DEF PumpInv, LimitInv, OutputIsBounded
  <1>18. ResultInv'
    BY <1>1, <1>5 DEF ResultInv, OkIsIntact, BlamedFrameIsBad
  <1> QED
    BY <1>9, <1>10, <1>12, <1>13, <1>14, <1>15, <1>16, <1>17, <1>18 DEF PumpInv

\* A frame ends: with an error, or finished.
LEMMA EndPump ==
  ASSUME PumpInv, EndFrame
  PROVE  PumpInv'
  <1>1. CASE EndResult # "ok"
    <2>1. /\ phase = "end" /\ Active /\ phase' = "done" /\ result' = EndResult
          /\ UNCHANGED <<job, stream, cancelled, spent, at, pumpVars, output, checksums,
                         consumed, opening, asking, produced>>
      BY <1>1 DEF EndFrame, Return, Active, decoderVars
    <2>2. EndResult \in {"format", "checksum"} /\ ~ Intact(Frame)
      BY <1>1, <2>1, EndsIntact
    <2>3. TypeOK'
      BY <2>1, <2>2 DEF PumpInv, TypeOK, Phases, pumpVars
    <2> QED
      BY <2>1, <2>2, <2>3, Stops DEF pumpVars
  <1> QED
    BY <1>1, FinishPump

\* A frame is begun, at its first byte of input and output.
LEMMA StartPump ==
  ASSUME PumpInv, StartFrame
  PROVE  PumpInv'
  <1>1. /\ phase = "frame" /\ at <= Len(stream.frames) /\ start' = output
        /\ consumed' = 0 /\ asking' = "none" /\ produced' = 0
        /\ charged' = 0 /\ delta' = 0 /\ buffered' = 0 /\ paid' = 0
        /\ opening' \in BOOLEAN
        /\ UNCHANGED <<job, stream, cancelled, spent, at, output, checksums>>
    BY DEF StartFrame
  <1>3. /\ result = "none" /\ at > 0 /\ output = OutputBefore(at)
        /\ spent >= output + InputBefore(at)
    BY <1>1 DEF PumpInv, PlaceInv, OutputInv, PaidInv
  <1>4. /\ at \in Nat /\ Len(stream.frames) \in Nat
        /\ DOMAIN stream.frames = 1 .. Len(stream.frames)
        /\ output \in Nat /\ spent \in Nat
    BY Types
  <1>2. /\ \/ /\ phase' \in {"decoder", "pump"} /\ result' = result /\ ~ Frame.dictionary
           \/ /\ phase' = "done" /\ result' \in {"cancelled", "limit", "unsupported"}
    <2>1. CASE FrameResult = "ok"
      <3>1. phase' \in {"decoder", "pump"} /\ result' = result
        BY <2>1 DEF StartFrame, Goto
      <3>2. ~ Frame.dictionary
        <4>1. at \in DOMAIN stream.frames
          BY <1>1, <1>3, <1>4
        <4>2. FrameOK(Frame) /\ JobOK(job)
          BY <4>1, JobsAssumption DEF PumpInv, TableInv, Frame
        <4>3. Frame.working \in Int /\ job.maxDictionary \in Nat
          BY <4>2 DEF FrameOK, JobOK
        <4>4. \/ cancelled
              \/ Frame.working > job.maxDictionary
              \/ Frame.working <= job.maxDictionary
          BY <4>3
        <4> QED
          BY <2>1, <4>4 DEF FrameResult
      <3> QED
        BY <3>1, <3>2
    <2>2. CASE FrameResult # "ok"
      <3>1. FrameResult \in {"cancelled", "limit", "unsupported"}
        BY <2>2 DEF FrameResult
      <3> QED
        BY <2>2, <3>1 DEF StartFrame, Return
    <2> QED
      BY <2>1, <2>2
  <1>5. at \in DOMAIN stream.frames /\ at \in 1 .. Len(stream.frames) + 1
    BY <1>1, <1>3, <1>4
  <1>6. /\ InputBefore(at) \in Nat
        /\ InputBefore(at)' = InputBefore(at) /\ OutputBefore(at)' = OutputBefore(at)
        /\ Frame' = Frame
    BY <1>1, <1>5, Sums DEF PumpInv, InputBefore, OutputBefore, Frame
  <1>7. FrameOK(Frame)
    BY <1>5 DEF PumpInv, TableInv, Frame
  <1>8. TypeOK'
    <2>1. 0 \in 0 .. IoChunk /\ 0 \in 0 .. 0
      BY ChunksAssumption
    <2> QED
      BY <1>1, <1>2, <2>1 DEF PumpInv, TypeOK, Phases
  <1>9. TableInv' /\ FinishedInv'
    BY <1>1 DEF PumpInv, TableInv, FinishedInv
  <1>10. phase' # "open" /\ phase' # "frame" /\ ~ Pending'
         /\ phase' \notin {"charge", "admit", "write", "end", "interrupted"}
    BY <1>2 DEF Pending
  <1>11. PlaceInv'
    BY <1>1, <1>2, <1>3, <1>5, <1>10 DEF PlaceInv
  <1>12. OutputInv'
    <2>1. Active' => ~ Frame.dictionary
      BY <1>2 DEF Active
    <2>2. output + 0 = output + 0 /\ 0 <= Frame.output
      BY <1>7 DEF FrameOK
    <2> QED
      BY <1>1, <1>3, <1>6, <1>10, <2>1, <2>2 DEF OutputInv
  <1>13. InputInv'
    BY <1>1, <1>10 DEF InputInv
  <1>14. PaidInv'
    <2>1. spent >= output + InputBefore(at) + 0 + 0
      BY <1>3, <1>4, <1>6
    <2> QED
      BY <1>1, <1>6, <1>10, <2>1 DEF PaidInv
  <1>15. LimitInv'
    <2>1. Frame.content # Unknown => output - output <= Frame.content
      <3>1. Frame.content # Unknown => Frame.content \in Nat
        BY <1>7 DEF FrameOK
      <3> QED
        BY <1>4, <3>1
    <2>2. output <= Smaller(job.maxEntry, job.maxTotal)
      BY DEF PumpInv, LimitInv, OutputIsBounded
    <2> QED
      BY <1>1, <1>6, <1>10, <2>1, <2>2 DEF LimitInv, OutputIsBounded
  <1>16. ResultInv'
    BY <1>2, <1>3 DEF ResultInv, OkIsIntact, BlamedFrameIsBad
  <1> QED
    BY <1>8, <1>9, <1>11, <1>12, <1>13, <1>14, <1>15, <1>16 DEF PumpInv

\* The declared sizes of intact frames add up to what was written, so that the
\* last check of extract_to never fails.
LEMMA DonePump ==
  ASSUME PumpInv, ExtractDone
  PROVE  PumpInv'
  <1>1. /\ phase = "frame" /\ at > Len(stream.frames) /\ phase' = "done"
        /\ result' = LET expected == UncompressedSize(stream.frames) IN
                     IF expected # Unknown /\ expected # output THEN "internal" ELSE "ok"
        /\ UNCHANGED <<job, stream, cancelled, spent, at, pumpVars, output, checksums,
                       consumed, opening, asking, produced>>
    BY DEF ExtractDone, Return, decoderVars
  <1>2. PICK l \in Nat : l = Len(stream.frames) /\ DOMAIN stream.frames = 1 .. l /\ at = l + 1
    BY <1>1, Types, SMTT(40)
  <1>3. /\ output = OutputBefore(l + 1)
        /\ \A i \in 1 .. l : Intact(stream.frames[i])
        /\ checksums = Cardinality({i \in 1 .. l : stream.frames[i].checksum})
    <2>1. at - 1 = l
      BY <1>2
    <2>2. /\ \A i \in 1 .. at - 1 : Intact(stream.frames[i])
          /\ checksums = Cardinality({i \in 1 .. at - 1 : stream.frames[i].checksum})
          /\ output = OutputBefore(at)
      BY <1>1 DEF PumpInv, FinishedInv, OutputInv
    <2> QED
      BY <1>2, <2>1, <2>2
  <1>4. UncompressedSize(stream.frames) \in {Unknown, output}
    <2> SUFFICES ASSUME ~ \E i \in DOMAIN stream.frames : stream.frames[i].content = Unknown
                 PROVE  UncompressedSize(stream.frames) = output
      BY DEF UncompressedSize
    <2>1. PICK f, g : /\ f = [i \in DOMAIN stream.frames |-> stream.frames[i].content]
                      /\ g = [i \in DOMAIN stream.frames |-> stream.frames[i].output]
      OBVIOUS
    <2>2. \A i \in 1 .. l : f[i] = g[i] /\ f[i] \in Int
      <3> SUFFICES ASSUME NEW i \in 1 .. l PROVE f[i] = g[i] /\ f[i] \in Int
        OBVIOUS
      <3>1. Intact(stream.frames[i]) /\ FrameOK(stream.frames[i])
        BY <1>2, <1>3 DEF PumpInv, TableInv
      <3>2. stream.frames[i].content = stream.frames[i].output /\ stream.frames[i].output \in Nat
        BY <1>2, <3>1 DEF Intact, FrameOK
      <3>3. f[i] = stream.frames[i].content /\ g[i] = stream.frames[i].output
        BY <1>2, <2>1
      <3> QED
        BY <3>2, <3>3
    <2>3. SumFunctionOnSet(f, 1 .. l) = SumFunctionOnSet(g, 1 .. l)
      <3>1. IsFiniteSet(1 .. l)
        BY <1>2, FS_Interval
      <3> QED
        BY <2>2, <3>1, SumCongruence
    <2>4. UncompressedSize(stream.frames) = SumFunctionOnSet(f, 1 .. l)
      BY <1>2, <2>1 DEF UncompressedSize
    <2>5. OutputBefore(l + 1) = SumFunctionOnSet(g, 1 .. l)
      <3>1. 1 .. l + 1 - 1 = 1 .. l
        BY <1>2
      <3> QED
        BY <2>1, <3>1 DEF OutputBefore
    <2> QED
      BY <1>3, <2>3, <2>4, <2>5
  <1>5. result' = "ok"
    BY <1>1, <1>4
  <1>6. TypeOK'
    BY <1>1, <1>5 DEF PumpInv, TypeOK, Phases, pumpVars
  <1>7. ~ Active'
    BY <1>1 DEF Active
  <1>8. TableInv' /\ FinishedInv' /\ PlaceInv'
    BY <1>1, <1>5, <1>7 DEF PumpInv, TableInv, FinishedInv, PlaceInv
  <1>9. OutputInv' /\ InputInv' /\ PaidInv'
    BY <1>1, <1>7 DEF OutputInv, InputInv, PaidInv
  <1>10. LimitInv'
    <2>1. at \notin DOMAIN stream.frames
      BY <1>2
    <2> QED
      BY <1>1, <2>1 DEF PumpInv, LimitInv, OutputIsBounded, pumpVars
  <1>11. OkIsIntact'
    <2>1. OutputBefore(Len(stream.frames) + 1)' = OutputBefore(l + 1)
      BY <1>1, <1>2 DEF OutputBefore
    <2> QED
      BY <1>1, <1>2, <1>3, <2>1 DEF OkIsIntact, Intact
  <1>12. ResultInv'
    BY <1>5, <1>11 DEF ResultInv, BlamedFrameIsBad
  <1> QED
    BY <1>6, <1>8, <1>9, <1>10, <1>12 DEF PumpInv

\* Cancellation disturbs nothing.
LEMMA CancelPump ==
  ASSUME PumpInv, UNCHANGED <<job, stream, phase, spent, at, pumpVars, output, checksums,
                              decoderVars, result>>,
         cancelled' = cancelled \/ (cancelled' = TRUE /\ phase # "done")
  PROVE  PumpInv'
  <1> USE DEF PumpInv, pumpVars, decoderVars
  <1>1. TypeOK'
    BY DEF TypeOK
  <1>2. TableInv' /\ PlaceInv' /\ FinishedInv'
    BY DEF TableInv, PlaceInv, FinishedInv, Active
  <1>3. InputBefore(at)' = InputBefore(at) /\ OutputBefore(at)' = OutputBefore(at)
        /\ Frame' = Frame /\ (Active' <=> Active) /\ (Pending' <=> Pending)
    BY DEF InputBefore, OutputBefore, Frame, Active, Pending
  <1>4. OutputInv' /\ PaidInv'
    BY <1>3 DEF OutputInv, PaidInv
  <1>5. InputInv'
    <2>1. Exhausted' <=> Exhausted
      BY <1>3 DEF Exhausted
    <2>2. cancelled \in BOOLEAN
      BY DEF TypeOK
    <2> QED
      BY <1>3, <2>1, <2>2 DEF InputInv
  <1>6. LimitInv'
    BY <1>3 DEF LimitInv, OutputIsBounded, WithinLimits
  <1>7. ResultInv'
    <2>1. OutputBefore(Len(stream.frames) + 1)' = OutputBefore(Len(stream.frames) + 1)
      BY DEF OutputBefore
    <2>2. OkIsIntact'
      BY <2>1 DEF ResultInv, OkIsIntact
    <2>3. BlamedFrameIsBad'
      <3>1. CASE cancelled' = cancelled
        BY <1>3, <3>1 DEF ResultInv, BlamedFrameIsBad
      <3>2. CASE phase # "done"
        BY <3>2 DEF PlaceInv, BlamedFrameIsBad
      <3> QED
        BY <3>1, <3>2
    <2> QED
      BY <2>2, <2>3 DEF ResultInv
  <1> QED
    BY <1>1, <1>2, <1>4, <1>5, <1>6, <1>7

\* What Parse may return.
ParsedOK(parsed) ==
  /\ parsed.k \in {"ok", "format", "limit", "checksum"}
  /\ parsed.k = "ok" =>
       /\ Len(parsed.frames) \in Nat /\ DOMAIN parsed.frames = 1 .. Len(parsed.frames)
       /\ \A i \in DOMAIN parsed.frames : FrameOK(FrameEntry(parsed.frames[i]))

\* A stream that opens has a table of well-formed rows, and nothing is done of it.
LEMMA OpenPump ==
  ASSUME PumpInv, Open,
         ParsedOK(Parse(ChosenFormat, job.input, job.maxFrames, job.maxDictionary))
  PROVE  PumpInv'
  <1> DEFINE Result == {"limit", "cancelled", "format", "checksum"}
  <1>1. PICK parsed :
          /\ ParsedOK(parsed)
          /\ IF OpenResult(parsed) # "ok"
               THEN Return(OpenResult(parsed)) /\ UNCHANGED <<stream, at>>
               ELSE /\ stream' = [format |-> ChosenFormat, info |-> FrameInfo(parsed),
                                  frames |-> [i \in DOMAIN parsed.frames |->
                                                FrameEntry(parsed.frames[i])]]
                    /\ at' = 1
                    /\ IF job.extract THEN Goto("frame") ELSE Return("opened")
    BY DEF Open
  <1>2. /\ phase = "open" /\ at = 0 /\ stream = Closed /\ result = "none"
        /\ output = 0 /\ start = 0 /\ checksums = 0
        /\ UNCHANGED <<job, cancelled, spent, pumpVars, output, checksums, consumed, opening,
                       asking, produced>>
    BY DEF Open, PumpInv, PlaceInv, decoderVars
  <1>3. OpenResult(parsed) \in {"limit", "cancelled", "format", "checksum", "ok"}
        /\ (OpenResult(parsed) = "ok" => parsed.k = "ok")
    <2> DEFINE over == Len(job.input) > job.maxInput
               within == Len(job.input) <= job.maxInput
    <2>1. OpenResult(parsed) \in {"limit", "cancelled"}
          \/ OpenResult(parsed) =
               IF job.openBudget # Unlimited /\ Len(job.input) > job.openBudget THEN "limit"
               ELSE IF ChosenFormat = "none" THEN "format"
               ELSE IF parsed.k # "ok" THEN parsed.k
               ELSE IF /\ UncompressedSize(parsed.frames) # Unknown
                       /\ UncompressedSize(parsed.frames) > Smaller(job.maxEntry, job.maxTotal)
                 THEN "limit" ELSE "ok"
      BY DEF OpenResult
    <2> QED
      BY <1>1, <2>1 DEF ParsedOK
  <1>4. spent \in Nat /\ JobOK(job)
    BY Types, JobsAssumption DEF PumpInv, TableInv
  <1>5. 0 <= Smaller(job.maxEntry, job.maxTotal)
    <2>1. job.maxEntry \in Nat /\ job.maxTotal \in Nat
      BY <1>4 DEF JobOK
    <2> QED
      BY <2>1 DEF Smaller
  <1>6. CASE OpenResult(parsed) # "ok"
    <2>1. phase' = "done" /\ result' \in Result /\ stream' = stream /\ at' = at
      BY <1>1, <1>3, <1>6 DEF Return
    <2>2. TypeOK'
      BY <1>2, <2>1 DEF PumpInv, TypeOK, Phases, pumpVars
    <2>3. ~ Active'
      BY <2>1 DEF Active
    <2>4. TableInv' /\ FinishedInv' /\ PlaceInv'
      BY <1>2, <2>1, <2>3 DEF PumpInv, TableInv, FinishedInv, PlaceInv
    <2>5. OutputInv' /\ InputInv' /\ PaidInv'
      BY <2>1, <2>3 DEF OutputInv, InputInv, PaidInv
    <2>6. LimitInv' /\ ResultInv'
      BY <1>2, <2>1 DEF PumpInv, LimitInv, OutputIsBounded, ResultInv, OkIsIntact,
                        BlamedFrameIsBad, Closed, Frame, pumpVars
    <2> QED
      BY <2>2, <2>4, <2>5, <2>6 DEF PumpInv
  <1>7. CASE OpenResult(parsed) = "ok"
    <2>1. PICK l \in Nat : l = Len(parsed.frames) /\ DOMAIN parsed.frames = 1 .. l
      BY <1>1, <1>3, <1>7 DEF ParsedOK
    <2>2. PICK frames : /\ frames = [i \in 1 .. l |-> FrameEntry(parsed.frames[i])]
                        /\ stream'.frames = frames
      BY <1>1, <1>7, <2>1
    <2>3. Len(frames) = l /\ DOMAIN frames = 1 .. l
          /\ \A i \in 1 .. l : FrameOK(frames[i])
      <3>1. \A i \in 1 .. l : FrameOK(FrameEntry(parsed.frames[i]))
        BY <1>1, <1>3, <1>7, <2>1 DEF ParsedOK
      <3>2. Len(frames) = l /\ DOMAIN frames = 1 .. l
        BY <2>2
      <3> QED
        BY <2>2, <3>1, <3>2
    <2>4. /\ at' = 1
          /\ \/ phase' = "frame" /\ result' = result
             \/ phase' = "done" /\ result' = "opened"
      BY <1>1, <1>7 DEF Goto, Return
    <2>5. ~ Active'
      BY <2>4 DEF Active
    <2>6. InputBefore(at)' = 0 /\ OutputBefore(at)' = 0
      <3>1. at' - 1 = 0 /\ 1 .. 0 = {}
        BY <2>4
      <3>2. \A f : SumFunctionOnSet(f, 1 .. at' - 1) = 0
        BY <3>1, SumEmpty
      <3> QED
        BY <3>2 DEF InputBefore, OutputBefore
    <2>7. TypeOK'
      <3>1. 1 \in 0 .. l + 1
        OBVIOUS
      <3> QED
        BY <1>2, <2>2, <2>3, <2>4, <3>1 DEF PumpInv, TypeOK, Phases, pumpVars
    <2>8. TableInv'
      BY <1>2, <2>2, <2>3 DEF PumpInv, TableInv
    <2>9. PlaceInv'
      BY <1>2, <2>4, <2>5 DEF PlaceInv
    <2>10. FinishedInv'
      <3>1. at' - 1 = 0 /\ 1 .. 0 = {}
        BY <2>4
      <3>2. {i \in 1 .. at' - 1 : stream'.frames[i].checksum} = {}
        BY <3>1
      <3>3. checksums' = Cardinality({i \in 1 .. at' - 1 : stream'.frames[i].checksum})
        BY <1>2, <3>2, FS_EmptySet
      <3>4. \A i \in 1 .. at' - 1 : Intact(stream'.frames[i])
        BY <3>1
      <3> QED
        BY <3>3, <3>4 DEF FinishedInv, Intact
    <2>11. OutputInv' /\ InputInv'
      BY <1>2, <2>4, <2>5, <2>6 DEF OutputInv, InputInv
    <2>12. PaidInv'
      <3>1. spent >= 0 + 0
        BY <1>4
      <3> QED
        BY <1>2, <2>4, <2>5, <2>6, <3>1 DEF PaidInv
    <2>13. LimitInv'
      <3>1. at' \in DOMAIN stream'.frames => FrameOK(stream'.frames[at'])
        BY <2>2, <2>3
      <3>2. at' \in DOMAIN stream'.frames /\ stream'.frames[at'].content # Unknown
              => 0 - 0 <= stream'.frames[at'].content
        <4>1. \A c \in Nat : 0 - 0 <= c
          OBVIOUS
        <4> QED
          BY <3>1, <4>1 DEF FrameOK
      <3>3. phase' # "write" /\ output' = 0 /\ start' = 0 /\ job' = job
        BY <1>2, <2>4 DEF pumpVars
      <3> QED
        BY <1>5, <3>2, <3>3 DEF LimitInv, OutputIsBounded, Frame
    <2>14. ResultInv'
      BY <1>2, <2>4 DEF ResultInv, OkIsIntact, BlamedFrameIsBad
    <2> QED
      BY <2>7, <2>8, <2>9, <2>10, <2>11, <2>12, <2>13, <2>14 DEF PumpInv
  <1> QED
    BY <1>6, <1>7

\* It holds before the stream is opened.
LEMMA InitPump ==
  ASSUME Init
  PROVE  PumpInv
  <1> USE DEF Init
  <1>1. job \in Jobs /\ JobOK(job)
    BY JobsAssumption
  <1>2. 0 <= Smaller(job.maxEntry, job.maxTotal)
    <2>1. job.maxEntry \in Nat /\ job.maxTotal \in Nat
      BY <1>1 DEF JobOK
    <2> QED
      BY <2>1 DEF Smaller
  <1>3. stream.frames = << >> /\ Len(stream.frames) = 0 /\ DOMAIN stream.frames = {}
    BY DEF Closed
  <1>4. 1 .. Len(stream.frames) = {} /\ 1 .. at - 1 = {}
    BY <1>3
  <1>5. TypeOK
    <2>1. /\ at \in 0 .. Len(stream.frames) + 1
          /\ buffered \in 0 .. IoChunk /\ paid \in 0 .. buffered
      BY <1>3, ChunksAssumption
    <2>2. \A n \in {consumed, charged, delta, start, output, checksums, produced} : n \in Nat
      OBVIOUS
    <2> QED
      BY <2>1, <2>2 DEF TypeOK, Phases
  <1>6. TableInv
    BY <1>1, <1>3, <1>4 DEF TableInv
  <1>7. ~ Active
    BY DEF Active
  <1>8. PlaceInv /\ OutputInv /\ InputInv /\ PaidInv
    BY <1>7 DEF PlaceInv, OutputInv, InputInv, PaidInv
  <1>9. FinishedInv
    <2>1. {i \in 1 .. at - 1 : stream.frames[i].checksum} = {}
      BY <1>4
    <2> QED
      BY <1>4, <2>1, FS_EmptySet DEF FinishedInv
  <1>10. LimitInv /\ ResultInv
    BY <1>2, <1>3 DEF LimitInv, OutputIsBounded, ResultInv, OkIsIntact, BlamedFrameIsBad
  <1> QED
    BY <1>5, <1>6, <1>8, <1>9, <1>10 DEF PumpInv
-----------------------------------------------------------------------------
(***************************************************************************)
(* The parsers.  Each runs through its input from the front: at a place it  *)
(* halts with a value, or goes on further behind, and may put something in  *)
(* front of what it finds there.                                            *)
(***************************************************************************)
ScanEntry(g, s, q) ==
  IF s[q].halt THEN s[q].value
  ELSE IF s[q].cons THEN s[q].head \o g[s[q].next] ELSE g[s[q].next]

\* g holds the value of the scan s at each place.
IsScan(g, s, first, top) == g = [q \in first .. top |-> ScanEntry(g, s, q)]

\* It does go on behind.
ScanOK(s, top) == \A q \in 1 .. top : s[q].halt \/ s[q].next \in q + 1 .. top

\* So the recursion is well founded.
LEMMA ScanExists ==
  ASSUME NEW top \in Nat, NEW s, ScanOK(s, top)
  PROVE  \E g : IsScan(g, s, 1, top)
  <1> DEFINE N == {m \in Nat : m <= top => \E g : IsScan(g, s, top - m + 1, top)}
  <1>1. 0 \in N
    <2>1. IsScan([q \in {} |-> 0], s, top - 0 + 1, top)
      <3>1. top - 0 + 1 .. top = {}
        OBVIOUS
      <3> QED
        BY <3>1 DEF IsScan
    <2> QED
      BY <2>1
  <1>2. ASSUME NEW m \in Nat, m \in N PROVE m + 1 \in N
    <2> SUFFICES ASSUME m + 1 <= top PROVE \E h : IsScan(h, s, top - (m + 1) + 1, top)
      OBVIOUS
    <2>1. PICK g : IsScan(g, s, top - m + 1, top)
      BY <1>2
    <2>2. PICK first \in 1 .. top : /\ top - m + 1 = first + 1
                                    /\ top - (m + 1) + 1 = first
                                    /\ first .. top = {first} \cup (first + 1 .. top)
      <3>1. top - m \in 1 .. top
        OBVIOUS
      <3> QED
        BY <3>1
    <2> DEFINE h == [q \in first .. top |-> IF q = first THEN ScanEntry(g, s, q) ELSE g[q]]
    <2>3. ASSUME NEW q \in first .. top PROVE h[q] = ScanEntry(h, s, q)
      <3>1. s[q].halt \/ (s[q].next \in first + 1 .. top /\ s[q].next # first
                            /\ s[q].next \in first .. top)
        BY <2>2, <2>3 DEF ScanOK
      <3>2. ~ s[q].halt => h[s[q].next] = g[s[q].next]
        BY <3>1
      <3>3. ScanEntry(h, s, q) = ScanEntry(g, s, q)
        <4> HIDE DEF h
        <4> QED
          BY <3>2 DEF ScanEntry
      <3>4. CASE q = first
        BY <3>3, <3>4
      <3>5. CASE q # first
        <4>1. q \in first + 1 .. top
          BY <2>2, <2>3, <3>5
        <4>2. g[q] = ScanEntry(g, s, q)
          BY <2>1, <2>2, <4>1 DEF IsScan
        <4> QED
          BY <3>3, <3>5, <4>2
      <3> QED
        BY <3>4, <3>5
    <2>4. h = [q \in first .. top |-> h[q]]
      OBVIOUS
    <2> HIDE DEF h
    <2>5. h = [q \in first .. top |-> ScanEntry(h, s, q)]
      BY <2>3, <2>4
    <2> QED
      BY <2>2, <2>5 DEF IsScan
  <1> HIDE DEF N
  <1>3. top \in N
    BY <1>1, <1>2, SetInduction
  <1>4. top - top + 1 = 1
    OBVIOUS
  <1> QED
    BY <1>3, <1>4 DEF N

\* What each place preserves holds of every place.
LEMMA ScanInduction ==
  ASSUME NEW top \in Nat, NEW s, ScanOK(s, top), NEW g, IsScan(g, s, 1, top), NEW good,
         \A q \in 1 .. top :
           /\ s[q].halt => s[q].value \in good[q]
           /\ ~ s[q].halt => \A v \in good[s[q].next] :
                               (IF s[q].cons THEN s[q].head \o v ELSE v) \in good[q]
  PROVE  \A q \in 1 .. top : g[q] \in good[q]
  <1> DEFINE Bad == {m \in Nat : m < top /\ g[top - m] \notin good[top - m]}
  <1> SUFFICES ASSUME NEW q \in 1 .. top, g[q] \notin good[q] PROVE FALSE
    OBVIOUS
  <1>1. top - q \in Bad
    <2>1. top - q \in Nat /\ top - q < top /\ top - (top - q) = q
      OBVIOUS
    <2> QED
      BY <2>1
  <1>2. PICK m \in Bad : \A n \in Bad : m <= n
    <2>1. Bad \in SUBSET Nat
      OBVIOUS
    <2> HIDE DEF Bad
    <2> QED
      BY <1>1, <2>1, LeastElement
  <1>3. PICK p \in 1 .. top : p = top - m /\ g[p] \notin good[p]
    BY <1>2
  <1>4. g[p] = ScanEntry(g, s, p)
    BY <1>3 DEF IsScan
  <1>5. CASE s[p].halt
    BY <1>3, <1>4, <1>5 DEF ScanEntry
  <1>6. CASE ~ s[p].halt
    <2>1. s[p].next \in p + 1 .. top
      BY <1>6 DEF ScanOK
    <2>2. g[s[p].next] \in good[s[p].next]
      <3>1. top - s[p].next \in Nat /\ top - s[p].next < m /\ top - s[p].next < top
            /\ top - (top - s[p].next) = s[p].next
        BY <1>3, <2>1
      <3>2. top - s[p].next \notin Bad
        BY <1>2, <3>1
      <3> QED
        BY <3>1, <3>2
    <2>3. ScanEntry(g, s, p) \in good[p]
      BY <1>6, <2>2 DEF ScanEntry
    <2> QED
      BY <1>3, <1>4, <2>3
  <1> QED
    BY <1>5, <1>6

\* The blocks of a frame.
Lz4Entry(g, cells, h, q) ==
  LET next == q + 1 + cells[q].size + (IF h.blocks THEN 1 ELSE 0) IN
  IF ~ Has(cells, q, "block") THEN 0
  ELSE IF cells[q].type = "end" THEN q + 1
  ELSE IF cells[q].size = 0 \/ cells[q].size > h.maximum THEN 0
  ELSE IF next > Len(cells) + 1 THEN 0
  ELSE g[next]

\* g is the recursion of Lz4Blocks.
IsLz4(g, cells, h) == g = [q \in 1 .. Len(cells) + 1 |-> Lz4Entry(g, cells, h, q)]

\* One block of a legacy frame.
LegacyEntry(g, cells, q) ==
  IF q > Len(cells) \/ IsFrameMagic(cells[q]) THEN q
  ELSE IF ~ Has(cells, q, "block") THEN 0
  ELSE IF cells[q].size = 0 THEN q + 1
  ELSE IF cells[q].size > LegacyBlockBytes
            \/ ~ Within(cells, q + 1, cells[q].size) THEN 0
  ELSE g[q + 1 + cells[q].size]

\* g is the recursion of LegacyBlocks.
IsLegacy(g, cells) == g = [q \in 1 .. Len(cells) + 1 |-> LegacyEntry(g, cells, q)]

\* One block of a Zstandard frame.
ZstandardEntry(g, cells, h, q) ==
  LET next == q + 1 + ZstandardPayload(cells[q]) IN
  IF ~ Has(cells, q, "block") THEN 0
  ELSE IF cells[q].size > Smaller(Window(h), MaximumBlockBytes) THEN 0
  ELSE IF cells[q].type = "reserved" \/ next > Len(cells) + 1 THEN 0
  ELSE IF cells[q].last THEN next
  ELSE g[next]

\* g is the recursion of ZstandardBlocks.
IsZstandard(g, cells, h) ==
  g = [q \in 1 .. Len(cells) + 1 |-> ZstandardEntry(g, cells, h, q)]

\* These are the functions the model defines by recursion.
LEMMA BlocksAre ==
  ASSUME NEW cells, NEW p, NEW h
  PROVE  /\ Lz4Blocks(cells, p, h) = (CHOOSE g : IsLz4(g, cells, h))[p]
         /\ LegacyBlocks(cells, p) = (CHOOSE g : IsLegacy(g, cells))[p]
         /\ ZstandardBlocks(cells, p, h) = (CHOOSE g : IsZstandard(g, cells, h))[p]
  BY DEF Lz4Blocks, LegacyBlocks, ZstandardBlocks, IsLz4, IsLegacy, IsZstandard,
         Lz4Entry, LegacyEntry, ZstandardEntry

\* An input, as far as parsers look at it.
InputOK(cells) ==
  /\ Len(cells) \in Nat
  /\ \A p \in 1 .. Len(cells) : CellOK(cells[p])

\* A scan that puts nothing in front ends nowhere, or not before its start.
LEMMA BlockScan ==
  ASSUME NEW top \in Nat, NEW s, ScanOK(s, top),
         \A q \in 1 .. top : ~ s[q].cons /\ (s[q].halt => s[q].value \in {0} \cup q .. top)
  PROVE  /\ \E g : IsScan(g, s, 1, top)
         /\ \A g : IsScan(g, s, 1, top) => \A q \in 1 .. top : g[q] \in {0} \cup q .. top
  <1>1. ASSUME NEW g, IsScan(g, s, 1, top), NEW q \in 1 .. top
        PROVE  g[q] \in {0} \cup q .. top
    <2>1. PICK good : good = [r \in 1 .. top |-> {0} \cup r .. top]
      OBVIOUS
    <2>2. ASSUME NEW r \in 1 .. top
          PROVE  /\ s[r].halt => s[r].value \in good[r]
                 /\ ~ s[r].halt => \A v \in good[s[r].next] :
                                     (IF s[r].cons THEN s[r].head \o v ELSE v) \in good[r]
      <3>1. s[r].halt \/ s[r].next \in r + 1 .. top
        BY DEF ScanOK
      <3>2. good[r] = {0} \cup r .. top
        BY <2>1
      <3>3. ASSUME s[r].next \in r + 1 .. top, NEW v \in good[s[r].next] PROVE v \in good[r]
        <4>1. v \in {0} \cup s[r].next .. top
          BY <2>1, <3>3
        <4> QED
          BY <3>2, <3>3, <4>1
      <3> QED
        BY <3>1, <3>2, <3>3
    <2>3. g[q] \in good[q]
      BY <1>1, <2>2, ScanInduction
    <2> QED
      BY <2>1, <2>3
  <1> QED
    BY <1>1, ScanExists

\* The blocks of a standard LZ4 frame end within the input.
LEMMA Lz4Type ==
  ASSUME NEW cells, InputOK(cells), NEW h, NEW p \in 1 .. Len(cells) + 1
  PROVE  Lz4Blocks(cells, p, h) \in {0} \cup p .. Len(cells) + 1
  <1>1. PICK top : top = Len(cells) + 1 /\ top \in Nat /\ Len(cells) \in Nat /\ p \in 1 .. top
    BY DEF InputOK
  <1> DEFINE next(q) == q + 1 + cells[q].size + (IF h.blocks THEN 1 ELSE 0)
             halt(q) == \/ ~ Has(cells, q, "block") \/ cells[q].type = "end"
                        \/ cells[q].size = 0 \/ cells[q].size > h.maximum
                        \/ next(q) > Len(cells) + 1
             value(q) == IF Has(cells, q, "block") /\ cells[q].type = "end" THEN q + 1 ELSE 0
  <1>2. PICK s : s = [q \in 1 .. top |-> [halt |-> halt(q), value |-> value(q), cons |-> FALSE,
                                          head |-> 0, next |-> next(q)]]
    OBVIOUS
  <1>3. \A q \in 1 .. top : /\ s[q].halt = halt(q) /\ s[q].value = value(q)
                            /\ s[q].cons = FALSE /\ s[q].next = next(q)
    <2> HIDE DEF halt, value, next
    <2> QED
      BY <1>2
  <1>4. ASSUME NEW q \in 1 .. top, Has(cells, q, "block")
        PROVE  q <= Len(cells) /\ q + 1 \in q .. top /\ cells[q].size \in Nat
    <2>1. q <= Len(cells) /\ cells[q].k = "block" /\ q \in 1 .. Len(cells)
      BY <1>1, <1>4 DEF Has
    <2>2. CellOK(cells[q])
      BY <2>1 DEF InputOK
    <2>3. cells[q].size \in Nat
      BY <2>1, <2>2 DEF CellOK
    <2> QED
      BY <1>1, <2>1, <2>3
  <1>5. \A q \in 1 .. top : /\ halt(q) => value(q) \in {0} \cup q .. top
                            /\ ~ halt(q) => next(q) \in q + 1 .. top
    <2> SUFFICES ASSUME NEW q \in 1 .. top
                 PROVE  /\ halt(q) => value(q) \in {0} \cup q .. top
                        /\ ~ halt(q) => next(q) \in q + 1 .. top
      OBVIOUS
    <2>1. CASE Has(cells, q, "block")
      <3>1. q <= Len(cells) /\ q + 1 \in q .. top /\ cells[q].size \in Nat
        BY <1>4, <2>1
      <3> QED
        BY <1>1, <2>1, <3>1
    <2>2. CASE ~ Has(cells, q, "block")
      BY <1>1, <2>2
    <2> QED
      BY <2>1, <2>2
  <1>6. \A g : \A q \in 1 .. top : Lz4Entry(g, cells, h, q) = ScanEntry(g, s, q)
    <2> SUFFICES ASSUME NEW g, NEW q \in 1 .. top PROVE Lz4Entry(g, cells, h, q) = ScanEntry(g, s, q)
      OBVIOUS
    <2>1. Lz4Entry(g, cells, h, q) = IF halt(q) THEN value(q) ELSE g[next(q)]
      BY <1>1, <1>4 DEF Lz4Entry
    <2> HIDE DEF halt, value, next
    <2>2. ScanEntry(g, s, q) = IF halt(q) THEN value(q) ELSE g[next(q)]
      BY <1>3 DEF ScanEntry
    <2> QED
      BY <2>1, <2>2
  <1> HIDE DEF halt, value, next
  <1>7. \A g : IsLz4(g, cells, h) <=> IsScan(g, s, 1, top)
    BY <1>1, <1>6 DEF IsLz4, IsScan
  <1>8. ScanOK(s, top) /\ \A q \in 1 .. top : ~ s[q].cons /\ (s[q].halt => s[q].value \in {0} \cup q .. top)
    BY <1>3, <1>5 DEF ScanOK
  <1>9. /\ \E g : IsScan(g, s, 1, top)
        /\ \A g : IsScan(g, s, 1, top) => \A q \in 1 .. top : g[q] \in {0} \cup q .. top
    BY <1>1, <1>8, BlockScan
  <1>10. PICK g : g = (CHOOSE f : IsLz4(f, cells, h))
    OBVIOUS
  <1>11. IsScan(g, s, 1, top)
    BY <1>7, <1>9, <1>10
  <1>12. Lz4Blocks(cells, p, h) = g[p]
    BY <1>10, BlocksAre
  <1> QED
    BY <1>1, <1>9, <1>11, <1>12

\* So do those of a legacy frame.
LEMMA LegacyType ==
  ASSUME NEW cells, InputOK(cells), NEW p \in 1 .. Len(cells) + 1
  PROVE  LegacyBlocks(cells, p) \in {0} \cup p .. Len(cells) + 1
  <1>1. PICK top : top = Len(cells) + 1 /\ top \in Nat /\ Len(cells) \in Nat /\ p \in 1 .. top
    BY DEF InputOK
  <1> DEFINE next(q) == q + 1 + cells[q].size
             halt(q) == \/ q > Len(cells) \/ IsFrameMagic(cells[q]) \/ ~ Has(cells, q, "block")
                        \/ cells[q].size = 0 \/ cells[q].size > LegacyBlockBytes
                        \/ next(q) > Len(cells) + 1
             value(q) == IF q > Len(cells) \/ IsFrameMagic(cells[q]) THEN q
                         ELSE IF Has(cells, q, "block") /\ cells[q].size = 0 THEN q + 1 ELSE 0
  <1>2. PICK s : s = [q \in 1 .. top |-> [halt |-> halt(q), value |-> value(q), cons |-> FALSE,
                                          head |-> 0, next |-> next(q)]]
    OBVIOUS
  <1>3. \A q \in 1 .. top : /\ s[q].halt = halt(q) /\ s[q].value = value(q)
                            /\ s[q].cons = FALSE /\ s[q].next = next(q)
    <2> HIDE DEF halt, value, next
    <2> QED
      BY <1>2
  <1>4. ASSUME NEW q \in 1 .. top, Has(cells, q, "block")
        PROVE  q <= Len(cells) /\ q + 1 \in q .. top /\ cells[q].size \in Nat
    <2>1. q <= Len(cells) /\ cells[q].k = "block" /\ q \in 1 .. Len(cells)
      BY <1>1, <1>4 DEF Has
    <2>2. CellOK(cells[q])
      BY <2>1 DEF InputOK
    <2>3. cells[q].size \in Nat
      BY <2>1, <2>2 DEF CellOK
    <2> QED
      BY <1>1, <2>1, <2>3
  <1>5. \A q \in 1 .. top : /\ halt(q) => value(q) \in {0} \cup q .. top
                            /\ ~ halt(q) => next(q) \in q + 1 .. top
    <2> SUFFICES ASSUME NEW q \in 1 .. top
                 PROVE  /\ halt(q) => value(q) \in {0} \cup q .. top
                        /\ ~ halt(q) => next(q) \in q + 1 .. top
      OBVIOUS
    <2>1. CASE Has(cells, q, "block")
      <3>1. q <= Len(cells) /\ q + 1 \in q .. top /\ cells[q].size \in Nat
        BY <1>4, <2>1
      <3> QED
        BY <1>1, <2>1, <3>1
    <2>2. CASE ~ Has(cells, q, "block")
      BY <1>1, <2>2
    <2> QED
      BY <2>1, <2>2
  <1>6. \A g : \A q \in 1 .. top : LegacyEntry(g, cells, q) = ScanEntry(g, s, q)
    <2> SUFFICES ASSUME NEW g, NEW q \in 1 .. top PROVE LegacyEntry(g, cells, q) = ScanEntry(g, s, q)
      OBVIOUS
    <2>1. LegacyEntry(g, cells, q) = IF halt(q) THEN value(q) ELSE g[next(q)]
      BY <1>1, <1>4 DEF LegacyEntry, Within
    <2> HIDE DEF halt, value, next
    <2>2. ScanEntry(g, s, q) = IF halt(q) THEN value(q) ELSE g[next(q)]
      BY <1>3 DEF ScanEntry
    <2> QED
      BY <2>1, <2>2
  <1> HIDE DEF halt, value, next
  <1>7. \A g : IsLegacy(g, cells) <=> IsScan(g, s, 1, top)
    BY <1>1, <1>6 DEF IsLegacy, IsScan
  <1>8. ScanOK(s, top) /\ \A q \in 1 .. top : ~ s[q].cons /\ (s[q].halt => s[q].value \in {0} \cup q .. top)
    BY <1>3, <1>5 DEF ScanOK
  <1>9. /\ \E g : IsScan(g, s, 1, top)
        /\ \A g : IsScan(g, s, 1, top) => \A q \in 1 .. top : g[q] \in {0} \cup q .. top
    BY <1>1, <1>8, BlockScan
  <1>10. PICK g : g = (CHOOSE f : IsLegacy(f, cells))
    OBVIOUS
  <1>11. IsScan(g, s, 1, top)
    BY <1>7, <1>9, <1>10
  <1>12. LegacyBlocks(cells, p) = g[p]
    BY <1>10, BlocksAre
  <1> QED
    BY <1>1, <1>9, <1>11, <1>12

\* And those of a Zstandard frame.
LEMMA ZstandardType ==
  ASSUME NEW cells, InputOK(cells), NEW h, NEW p \in 1 .. Len(cells) + 1
  PROVE  ZstandardBlocks(cells, p, h) \in {0} \cup p .. Len(cells) + 1
  <1>1. PICK top : top = Len(cells) + 1 /\ top \in Nat /\ Len(cells) \in Nat /\ p \in 1 .. top
    BY DEF InputOK
  <1> DEFINE next(q) == q + 1 + ZstandardPayload(cells[q])
             halt(q) == \/ ~ Has(cells, q, "block")
                        \/ cells[q].size > Smaller(Window(h), MaximumBlockBytes)
                        \/ cells[q].type = "reserved" \/ next(q) > Len(cells) + 1
                        \/ cells[q].last
             value(q) == IF /\ Has(cells, q, "block")
                            /\ ~ (cells[q].size > Smaller(Window(h), MaximumBlockBytes))
                            /\ cells[q].type # "reserved" /\ ~ (next(q) > Len(cells) + 1)
                           THEN next(q) ELSE 0
  <1>2. PICK s : s = [q \in 1 .. top |-> [halt |-> halt(q), value |-> value(q), cons |-> FALSE,
                                          head |-> 0, next |-> next(q)]]
    OBVIOUS
  <1>3. \A q \in 1 .. top : /\ s[q].halt = halt(q) /\ s[q].value = value(q)
                            /\ s[q].cons = FALSE /\ s[q].next = next(q)
    <2> HIDE DEF halt, value, next
    <2> QED
      BY <1>2
  <1>4. ASSUME NEW q \in 1 .. top, Has(cells, q, "block")
        PROVE  q <= Len(cells) /\ q + 1 \in q .. top /\ cells[q].size \in Nat
    <2>1. q <= Len(cells) /\ cells[q].k = "block" /\ q \in 1 .. Len(cells)
      BY <1>1, <1>4 DEF Has
    <2>2. CellOK(cells[q])
      BY <2>1 DEF InputOK
    <2>3. cells[q].size \in Nat
      BY <2>1, <2>2 DEF CellOK
    <2> QED
      BY <1>1, <2>1, <2>3
  <1>5. \A q \in 1 .. top : /\ halt(q) => value(q) \in {0} \cup q .. top
                            /\ ~ halt(q) => next(q) \in q + 1 .. top
    <2> SUFFICES ASSUME NEW q \in 1 .. top
                 PROVE  /\ halt(q) => value(q) \in {0} \cup q .. top
                        /\ ~ halt(q) => next(q) \in q + 1 .. top
      OBVIOUS
    <2>1. CASE Has(cells, q, "block")
      <3>1. q <= Len(cells) /\ q + 1 \in q .. top /\ cells[q].size \in Nat
        BY <1>4, <2>1
      <3> QED
        BY <1>1, <2>1, <3>1 DEF ZstandardPayload
    <2>2. CASE ~ Has(cells, q, "block")
      BY <1>1, <2>2
    <2> QED
      BY <2>1, <2>2
  <1>6. \A g : \A q \in 1 .. top : ZstandardEntry(g, cells, h, q) = ScanEntry(g, s, q)
    <2> SUFFICES ASSUME NEW g, NEW q \in 1 .. top PROVE ZstandardEntry(g, cells, h, q) = ScanEntry(g, s, q)
      OBVIOUS
    <2>1. ZstandardEntry(g, cells, h, q) = IF halt(q) THEN value(q) ELSE g[next(q)]
      BY <1>1, <1>4 DEF ZstandardEntry
    <2> HIDE DEF halt, value, next
    <2>2. ScanEntry(g, s, q) = IF halt(q) THEN value(q) ELSE g[next(q)]
      BY <1>3 DEF ScanEntry
    <2> QED
      BY <2>1, <2>2
  <1> HIDE DEF halt, value, next
  <1>7. \A g : IsZstandard(g, cells, h) <=> IsScan(g, s, 1, top)
    BY <1>1, <1>6 DEF IsZstandard, IsScan
  <1>8. ScanOK(s, top) /\ \A q \in 1 .. top : ~ s[q].cons /\ (s[q].halt => s[q].value \in {0} \cup q .. top)
    BY <1>3, <1>5 DEF ScanOK
  <1>9. /\ \E g : IsScan(g, s, 1, top)
        /\ \A g : IsScan(g, s, 1, top) => \A q \in 1 .. top : g[q] \in {0} \cup q .. top
    BY <1>1, <1>8, BlockScan
  <1>10. PICK g : g = (CHOOSE f : IsZstandard(f, cells, h))
    OBVIOUS
  <1>11. IsScan(g, s, 1, top)
    BY <1>7, <1>9, <1>10
  <1>12. ZstandardBlocks(cells, p, h) = g[p]
    BY <1>10, BlocksAre
  <1> QED
    BY <1>1, <1>9, <1>11, <1>12
-----------------------------------------------------------------------------
(***************************************************************************)
(* The frame table                                                         *)
(***************************************************************************)
Errors == {"format", "checksum", "limit"}

\* What the parser of one format finds behind the magic in front of p.
PartOK(cells, f, p) ==
  \/ f.k \in Errors
  \/ /\ f.k = "ok" /\ f.start = p - 1 /\ f.decoder = cells[p - 1].decoder
     /\ f.end \in p .. Len(cells) + 1
     /\ f.content \in Nat \cup {Unknown} /\ f.working \in Int

\* An error is a result a parser may have.
LEMMA FailedPart ==
  ASSUME NEW cells, NEW p, NEW e \in Errors
  PROVE  PartOK(cells, Failed(e), p)
  <1>1. Failed(e).k = e
    BY DEF Failed
  <1> QED
    BY <1>1 DEF PartOK

\* So is a frame that ends within the input.
LEMMA FoundPart ==
  ASSUME NEW cells, NEW p, NEW end \in p .. Len(cells) + 1, NEW h,
         h.content \in Nat \cup {Unknown}, h.working \in Int
  PROVE  PartOK(cells, FrameAt(cells, p - 1, end, h), p)
  BY DEF PartOK, FrameAt

\* parse_standard_frame returns nothing else.
LEMMA Lz4Part ==
  ASSUME NEW cells, InputOK(cells), NEW p \in 1 .. Len(cells) + 1
  PROVE  PartOK(cells, ParseStandardFrame(cells, p), p)
  <1> DEFINE h == cells[p]
             blocks == Lz4Blocks(cells, p + 1, h)
             end == blocks + (IF h.checksum THEN 1 ELSE 0)
             header ==
               [content |-> h.content, contentSum |-> h.checksum, blockSums |-> h.blocks,
                dictionary |-> h.dictionary, maximum |-> h.maximum,
                working |-> Lz4Working(h.maximum)]
  <1>1. ParseStandardFrame(cells, p) =
          IF ~ Has(cells, p, "flags") THEN Failed("format")
          ELSE IF Lz4HeaderError(h) # "ok" THEN Failed(Lz4HeaderError(h))
          ELSE IF blocks = 0 \/ end > Len(cells) + 1 THEN Failed("format")
          ELSE FrameAt(cells, p - 1, end, header)
    BY DEF ParseStandardFrame
  <1>2. Lz4HeaderError(h) # "ok" => Lz4HeaderError(h) \in Errors
    BY DEF Lz4HeaderError, Errors
  <1>3. "format" \in Errors
    BY DEF Errors
  <1>4. CASE ~ Has(cells, p, "flags")
    BY <1>1, <1>3, <1>4, FailedPart
  <1>5. CASE Has(cells, p, "flags") /\ Lz4HeaderError(h) # "ok"
    BY <1>1, <1>2, <1>5, FailedPart
  <1>6. CASE /\ Has(cells, p, "flags") /\ Lz4HeaderError(h) = "ok"
             /\ blocks = 0 \/ end > Len(cells) + 1
    BY <1>1, <1>3, <1>6, FailedPart
  <1>7. CASE /\ Has(cells, p, "flags") /\ Lz4HeaderError(h) = "ok"
             /\ ~ (blocks = 0 \/ end > Len(cells) + 1)
    <2>1. Len(cells) \in Nat /\ p \in 1 .. Len(cells) /\ p + 1 \in 1 .. Len(cells) + 1
          /\ cells[p].k = "flags" /\ CellOK(cells[p])
      BY <1>7 DEF Has, InputOK
    <2>2. h.maximum \in Nat /\ h.content \in Nat \cup {Unknown}
      BY <2>1 DEF CellOK
    <2>3. blocks \in p + 1 .. Len(cells) + 1
      BY <1>7, <2>1, Lz4Type
    <2>4. end \in p .. Len(cells) + 1
      <3> HIDE DEF blocks
      <3> QED
        BY <1>7, <2>1, <2>3
    <2>5. Lz4Working(h.maximum) \in Int
      BY <2>2, FramesAssumption DEF Lz4Working
    <2> HIDE DEF end, blocks, h
    <2>6. PartOK(cells, FrameAt(cells, p - 1, end, header), p)
      BY <2>2, <2>4, <2>5, FoundPart
    <2> QED
      BY <1>1, <1>7, <2>6
  <1> QED
    BY <1>4, <1>5, <1>6, <1>7

\* Nor does parse_legacy_frame.
LEMMA LegacyPart ==
  ASSUME NEW cells, InputOK(cells), NEW p \in 1 .. Len(cells) + 1
  PROVE  PartOK(cells, ParseLegacyFrame(cells, p), p)
  <1> DEFINE header ==
               [content |-> Unknown, contentSum |-> FALSE, blockSums |-> FALSE,
                dictionary |-> FALSE, maximum |-> LegacyBlockBytes,
                working |-> Lz4Working(LegacyBlockBytes)]
  <1>1. CASE LegacyBlocks(cells, p) = 0
    BY <1>1, FailedPart DEF ParseLegacyFrame, Errors
  <1>2. CASE LegacyBlocks(cells, p) # 0
    <2>1. LegacyBlocks(cells, p) \in p .. Len(cells) + 1
      BY <1>2, LegacyType
    <2>2. Lz4Working(LegacyBlockBytes) \in Int /\ Unknown \in Nat \cup {Unknown}
      BY FramesAssumption DEF Lz4Working
    <2>3. PartOK(cells, FrameAt(cells, p - 1, LegacyBlocks(cells, p), header), p)
      BY <2>1, <2>2, FoundPart
    <2> QED
      BY <1>2, <2>3 DEF ParseLegacyFrame
  <1> QED
    BY <1>1, <1>2

\* Nor does parse_frame of Zstandard.
LEMMA ZstandardPart ==
  ASSUME NEW cells, InputOK(cells), NEW p \in 1 .. Len(cells) + 1, NEW maxDictionary
  PROVE  PartOK(cells, ParseZstandardFrame(cells, p, maxDictionary), p)
  <1> DEFINE h == cells[p]
             blocks == ZstandardBlocks(cells, p + 1, h)
             end == blocks + (IF h.checksum THEN 1 ELSE 0)
             header ==
               [content |-> h.content, contentSum |-> h.checksum, blockSums |-> FALSE,
                dictionary |-> h.dictionary, maximum |-> Window(h), working |-> Window(h)]
  <1>1. ParseZstandardFrame(cells, p, maxDictionary) =
          IF ~ Has(cells, p, "descriptor") \/ h.reserved THEN Failed("format")
          ELSE IF blocks = 0 \/ end > Len(cells) + 1 THEN Failed("format")
          ELSE IF Window(h) > maxDictionary THEN Failed("limit")
          ELSE FrameAt(cells, p - 1, end, header)
    BY DEF ParseZstandardFrame
  <1>2. "limit" \in Errors /\ "format" \in Errors
    BY DEF Errors
  <1> DEFINE bad == ~ Has(cells, p, "descriptor") \/ h.reserved
             cut == blocks = 0 \/ end > Len(cells) + 1
             large == Window(h) > maxDictionary
  <1>3. CASE bad
    BY <1>1, <1>2, <1>3, FailedPart
  <1>4. CASE ~ bad /\ cut
    BY <1>1, <1>2, <1>4, FailedPart
  <1>5. CASE ~ bad /\ ~ cut /\ large
    BY <1>1, <1>2, <1>5, FailedPart
  <1>6. CASE ~ bad /\ ~ cut /\ ~ large
    <2>1. Len(cells) \in Nat /\ p \in 1 .. Len(cells) /\ p + 1 \in 1 .. Len(cells) + 1
          /\ cells[p].k = "descriptor" /\ CellOK(cells[p])
      BY <1>6 DEF Has, InputOK
    <2>2. h.window \in Nat /\ h.content \in Nat \cup {Unknown}
      BY <2>1 DEF CellOK
    <2>3. blocks \in p + 1 .. Len(cells) + 1
      BY <1>6, <2>1, ZstandardType
    <2>4. end \in p .. Len(cells) + 1
      <3> HIDE DEF blocks
      <3> QED
        BY <1>6, <2>1, <2>3
    <2>5. Window(h) \in Int
      BY <2>2 DEF Window, Unknown
    <2>6. PartOK(cells, FrameAt(cells, p - 1, end, header), p)
      <3> HIDE DEF end, blocks, h
      <3> QED
        BY <2>2, <2>4, <2>5, FoundPart
    <2> QED
      BY <1>1, <1>6, <2>6
  <1> QED
    BY <1>3, <1>4, <1>5, <1>6

\* What one round of parse finds, and that it gets on.
RowOK(f) ==
  \/ f.k \in Errors
  \/ f.k = "ok" /\ (f.type = "skip" \/ FrameOK(FrameEntry(f)))

\* One round of parse finds a well-formed row and gets on, or ends in an error.
LEMMA FrameFound ==
  ASSUME NEW cells, InputOK(cells), NEW format, NEW maxDictionary, NEW p \in 1 .. Len(cells),
         NEW f, f = ParseFrame(format, cells, p, maxDictionary)
  PROVE  RowOK(f) /\ (f.k = "ok" => f.end \in p + 1 .. Len(cells) + 1)
  <1> DEFINE top == Len(cells) + 1
             found == IF format = "zstandard"
                        THEN ParseZstandardFrame(cells, p + 1, maxDictionary)
                      ELSE IF cells[p].m = "lz4" THEN ParseStandardFrame(cells, p + 1)
                      ELSE ParseLegacyFrame(cells, p + 1)
             mine == IF format = "lz4" THEN {"lz4", "legacy"} ELSE {"zstandard"}
  <1>1. Len(cells) \in Nat /\ p \in Nat /\ p + 1 \in 1 .. top /\ CellOK(cells[p])
    BY DEF InputOK
  <1>2. f = IF cells[p].k # "magic" THEN Failed("format")
            ELSE IF cells[p].m = "skip" THEN
              IF SkipFrame(cells, p + 1) = 0 THEN Failed("format")
              ELSE [k |-> "ok", type |-> "skip", end |-> SkipFrame(cells, p + 1)]
            ELSE IF cells[p].m \notin mine THEN Failed("format")
            ELSE found
    BY DEF ParseFrame
  <1>3. Failed("format").k \in Errors /\ Failed("format").k # "ok"
    BY DEF Failed, Errors
  <1>4. PartOK(cells, found, p + 1)
    BY <1>1, Lz4Part, LegacyPart, ZstandardPart
  <1> HIDE DEF found, mine
  <1>5. CASE f = Failed("format")
    BY <1>3, <1>5 DEF RowOK
  <1>6. CASE /\ f = [k |-> "ok", type |-> "skip", end |-> SkipFrame(cells, p + 1)]
             /\ SkipFrame(cells, p + 1) # 0
    <2>1. p + 1 <= Len(cells) /\ cells[p + 1].k = "size"
          /\ SkipFrame(cells, p + 1) = p + 1 + 1 + cells[p + 1].n
          /\ p + 1 + 1 + cells[p + 1].n - 1 <= Len(cells)
      BY <1>6 DEF SkipFrame, Has, Within
    <2>2. cells[p + 1].n \in Nat
      <3>1. p + 1 \in 1 .. Len(cells)
        BY <1>1, <2>1
      <3> QED
        BY <2>1, <3>1 DEF InputOK, CellOK
    <2>3. SkipFrame(cells, p + 1) \in p + 1 .. top
      BY <1>1, <2>1, <2>2
    <2> QED
      BY <1>6, <2>3 DEF RowOK
  <1>7. CASE f = found /\ found.k \in Errors
    BY <1>7 DEF RowOK, Errors
  <1>8. CASE cells[p].k = "magic" /\ found.k \notin Errors /\ f = found
    <2>1. p + 1 - 1 = p
      BY <1>1
    <2>2. DecoderOK(cells[p].decoder)
      BY <1>1, <1>8 DEF CellOK
    <2>3. /\ f.k = "ok" /\ f.end \in p + 1 .. top /\ f.start = p
          /\ f.decoder = cells[p].decoder
          /\ f.content \in Nat \cup {Unknown} /\ f.working \in Int
      BY <1>4, <1>8, <2>1 DEF PartOK
    <2>4. f.end - f.start \in Nat
      BY <1>1, <2>3
    <2>5. FrameOK(FrameEntry(f))
      BY <2>2, <2>3, <2>4 DEF FrameOK, FrameEntry, DecoderOK
    <2> QED
      BY <2>3, <2>5 DEF RowOK
  <1> QED
    BY <1>2, <1>5, <1>6, <1>7, <1>8

\* The rows from one place on.
TableEntry(g, format, cells, maxDictionary, p) ==
  LET f == ParseFrame(format, cells, p, maxDictionary) IN
  IF p > Len(cells) THEN << >>
  ELSE IF f.k = "ok" THEN <<f>> \o g[f.end]
  ELSE <<f>>

\* g is the recursion of ParsedFrames.
IsTable(g, format, cells, maxDictionary) ==
  g = [p \in 1 .. Len(cells) + 1 |-> TableEntry(g, format, cells, maxDictionary, p)]

\* The rows of data from one row on.
DataEntry(g, found, n) ==
  IF n > Len(found) THEN << >>
  ELSE IF found[n].type = "skip" THEN g[n + 1]
  ELSE <<found[n]>> \o g[n + 1]

\* g is the recursion of DataFrames.
IsData(g, found) == g = [n \in 1 .. Len(found) + 1 |-> DataEntry(g, found, n)]

\* These too are the functions of the model.
LEMMA TablesAre ==
  ASSUME NEW format, NEW cells, NEW maxDictionary, NEW found
  PROVE  /\ ParsedFrames(format, cells, maxDictionary)
              = (CHOOSE g : IsTable(g, format, cells, maxDictionary))[1]
         /\ DataFrames(found) = (CHOOSE g : IsData(g, found))[1]
  BY DEF ParsedFrames, DataFrames, IsTable, IsData, TableEntry, DataEntry

\* Rows of which only the last may be an error.
Rows(S) == {v \in Seq(S) : \A i \in 1 .. Len(v) : i < Len(v) => v[i].k = "ok"}

\* Such rows are built from the back.
LEMMA RowsFacts ==
  ASSUME NEW S, NEW f \in S
  PROVE  /\ << >> \in Rows(S) /\ <<f>> \in Rows(S)
         /\ f.k = "ok" => \A v \in Rows(S) : <<f>> \o v \in Rows(S)
  <1>1. << >> \in Seq(S) /\ Len(<< >>) = 0 /\ <<f>> \in Seq(S) /\ Len(<<f>>) = 1 /\ <<f>>[1] = f
    OBVIOUS
  <1>2. << >> \in Rows(S) /\ <<f>> \in Rows(S)
    BY <1>1 DEF Rows
  <1>3. ASSUME f.k = "ok", NEW v \in Rows(S) PROVE <<f>> \o v \in Rows(S)
    <2>1. v \in Seq(S) /\ Len(v) \in Nat /\ \A i \in 1 .. Len(v) : i < Len(v) => v[i].k = "ok"
      BY LenProperties DEF Rows
    <2>2. /\ <<f>> \o v \in Seq(S) /\ Len(<<f>> \o v) = Len(<<f>>) + Len(v)
          /\ \A i \in 1 .. Len(<<f>>) + Len(v) :
               (<<f>> \o v)[i] = IF i <= Len(<<f>>) THEN <<f>>[i] ELSE v[i - Len(<<f>>)]
      BY <1>1, <2>1, ConcatProperties
    <2>3. ASSUME NEW i \in 1 .. Len(<<f>> \o v), i < Len(<<f>> \o v)
          PROVE  (<<f>> \o v)[i].k = "ok"
      <3>1. CASE i = 1
        BY <1>1, <1>3, <2>1, <2>2, <3>1
      <3>2. CASE i # 1
        <4>1. i - 1 \in 1 .. Len(v) /\ i - 1 < Len(v) /\ i \in 1 .. 1 + Len(v) /\ ~ i <= 1
          BY <1>1, <2>1, <2>2, <2>3, <3>2
        <4>2. (<<f>> \o v)[i] = v[i - 1]
          BY <1>1, <2>2, <4>1
        <4> QED
          BY <2>1, <4>1, <4>2
      <3> QED
        BY <3>1, <3>2
    <2> QED
      BY <2>2, <2>3 DEF Rows
  <1> QED
    BY <1>2, <1>3

\* ParsedFrames ends at the first error.
LEMMA TableType ==
  ASSUME NEW cells, InputOK(cells), NEW format, NEW maxDictionary, NEW S,
         \A p \in 1 .. Len(cells) : ParseFrame(format, cells, p, maxDictionary) \in S
  PROVE  ParsedFrames(format, cells, maxDictionary) \in Rows(S)
  <1>1. PICK top : top = Len(cells) + 1 /\ top \in Nat /\ Len(cells) \in Nat /\ 1 \in 1 .. top
    BY DEF InputOK
  <1> DEFINE f(p) == ParseFrame(format, cells, p, maxDictionary)
             halt(p) == p > Len(cells) \/ f(p).k # "ok"
             value(p) == IF p > Len(cells) THEN << >> ELSE <<f(p)>>
  <1>2. PICK s : s = [p \in 1 .. top |-> [halt |-> halt(p), value |-> value(p), cons |-> TRUE,
                                          head |-> <<f(p)>>, next |-> f(p).end]]
    OBVIOUS
  <1>3. \A p \in 1 .. top : /\ s[p].halt = halt(p) /\ s[p].value = value(p) /\ s[p].cons = TRUE
                            /\ s[p].head = <<f(p)>> /\ s[p].next = f(p).end
    <2> HIDE DEF halt, value, f
    <2> QED
      BY <1>2
  <1>4. \A p \in 1 .. top : ~ p > Len(cells) => p \in 1 .. Len(cells)
    BY <1>1
  <1>5. \A p \in 1 .. Len(cells) : f(p) \in S /\ (f(p).k = "ok" => f(p).end \in p + 1 .. top)
    BY <1>1, FrameFound
  <1>6. \A g : \A p \in 1 .. top :
          TableEntry(g, format, cells, maxDictionary, p) = ScanEntry(g, s, p)
    <2> SUFFICES ASSUME NEW g, NEW p \in 1 .. top
                 PROVE  TableEntry(g, format, cells, maxDictionary, p) = ScanEntry(g, s, p)
      OBVIOUS
    <2>1. TableEntry(g, format, cells, maxDictionary, p) =
            IF halt(p) THEN value(p) ELSE <<f(p)>> \o g[f(p).end]
      BY DEF TableEntry
    <2> HIDE DEF halt, value, f
    <2>2. ScanEntry(g, s, p) = IF halt(p) THEN value(p) ELSE <<f(p)>> \o g[f(p).end]
      BY <1>3 DEF ScanEntry
    <2> QED
      BY <2>1, <2>2
  <1> HIDE DEF f
  <1>7. ScanOK(s, top)
    BY <1>3, <1>4, <1>5 DEF ScanOK
  <1>8. PICK good : good = [p \in 1 .. top |-> Rows(S)]
    OBVIOUS
  <1>9. \A p \in 1 .. top :
          /\ s[p].halt => s[p].value \in good[p]
          /\ ~ s[p].halt => \A v \in good[s[p].next] :
                              (IF s[p].cons THEN s[p].head \o v ELSE v) \in good[p]
    <2> SUFFICES ASSUME NEW p \in 1 .. top
                 PROVE  /\ s[p].halt => s[p].value \in good[p]
                        /\ ~ s[p].halt => \A v \in good[s[p].next] :
                                            (IF s[p].cons THEN s[p].head \o v ELSE v) \in good[p]
      OBVIOUS
    <2>1. good[p] = Rows(S)
      BY <1>8
    <2>2. CASE p > Len(cells)
      <3>1. << >> \in Rows(S)
        BY DEF Rows
      <3> QED
        BY <1>3, <2>1, <2>2, <3>1
    <2>3. CASE ~ p > Len(cells) /\ f(p).k # "ok"
      <3>1. <<f(p)>> \in Rows(S)
        BY <1>4, <1>5, <2>3, RowsFacts
      <3> QED
        BY <1>3, <2>1, <2>3, <3>1
    <2>4. CASE ~ p > Len(cells) /\ f(p).k = "ok"
      <3>1. f(p).end \in 1 .. top
        BY <1>1, <1>4, <1>5, <2>4
      <3>2. good[s[p].next] = Rows(S) /\ ~ s[p].halt
        BY <1>3, <1>8, <2>4, <3>1
      <3>3. \A v \in Rows(S) : <<f(p)>> \o v \in Rows(S)
        BY <1>4, <1>5, <2>4, RowsFacts
      <3> QED
        BY <1>3, <2>1, <3>2, <3>3
    <2> QED
      BY <2>2, <2>3, <2>4
  <1> HIDE DEF halt, value
  <1>10. \A g : IsTable(g, format, cells, maxDictionary) <=> IsScan(g, s, 1, top)
    BY <1>1, <1>6 DEF IsTable, IsScan
  <1>11. PICK g : g = (CHOOSE h : IsTable(h, format, cells, maxDictionary))
    OBVIOUS
  <1>12. \E h : IsScan(h, s, 1, top)
    BY <1>1, <1>7, ScanExists
  <1>13. IsScan(g, s, 1, top)
    BY <1>10, <1>11, <1>12
  <1>14. g[1] \in good[1]
    BY <1>1, <1>7, <1>9, <1>13, ScanInduction
  <1>15. ParsedFrames(format, cells, maxDictionary) = g[1]
    BY <1>11, TablesAre
  <1> QED
    BY <1>1, <1>8, <1>14, <1>15

\* DataFrames has none but rows of data.
LEMMA DataType ==
  ASSUME NEW S, NEW found \in Seq(S)
  PROVE  DataFrames(found) \in Seq({f \in S : f.type # "skip"})
  <1> DEFINE T == {f \in S : f.type # "skip"}
  <1>1. PICK top : top = Len(found) + 1 /\ top \in Nat /\ Len(found) \in Nat /\ 1 \in 1 .. top
                   /\ \A n \in 1 .. Len(found) : found[n] \in S
    BY LenProperties, ElementOfSeq
  <1> DEFINE halt(n) == n > Len(found)
             cons(n) == found[n].type # "skip"
  <1>2. PICK s : s = [n \in 1 .. top |-> [halt |-> halt(n), value |-> << >>, cons |-> cons(n),
                                          head |-> <<found[n]>>, next |-> n + 1]]
    OBVIOUS
  <1>3. \A n \in 1 .. top : /\ s[n].halt = halt(n) /\ s[n].value = << >> /\ s[n].cons = cons(n)
                            /\ s[n].head = <<found[n]>> /\ s[n].next = n + 1
    <2> HIDE DEF halt, cons
    <2> QED
      BY <1>2
  <1>4. \A n \in 1 .. top : ~ halt(n) => n \in 1 .. Len(found) /\ n + 1 \in n + 1 .. top
                                         /\ n + 1 \in 1 .. top
    BY <1>1
  <1>5. \A g : \A n \in 1 .. top : DataEntry(g, found, n) = ScanEntry(g, s, n)
    <2> SUFFICES ASSUME NEW g, NEW n \in 1 .. top
                 PROVE  DataEntry(g, found, n) = ScanEntry(g, s, n)
      OBVIOUS
    <2>1. DataEntry(g, found, n) = IF halt(n) THEN << >>
                                   ELSE IF cons(n) THEN <<found[n]>> \o g[n + 1] ELSE g[n + 1]
      BY DEF DataEntry
    <2> HIDE DEF halt, cons
    <2>2. ScanEntry(g, s, n) = IF halt(n) THEN << >>
                               ELSE IF cons(n) THEN <<found[n]>> \o g[n + 1] ELSE g[n + 1]
      BY <1>3 DEF ScanEntry
    <2> QED
      BY <2>1, <2>2
  <1>6. ScanOK(s, top)
    BY <1>3, <1>4 DEF ScanOK
  <1>7. PICK good : good = [n \in 1 .. top |-> Seq(T)]
    OBVIOUS
  <1>8. \A n \in 1 .. top :
          /\ s[n].halt => s[n].value \in good[n]
          /\ ~ s[n].halt => \A v \in good[s[n].next] :
                              (IF s[n].cons THEN s[n].head \o v ELSE v) \in good[n]
    <2> SUFFICES ASSUME NEW n \in 1 .. top
                 PROVE  /\ s[n].halt => s[n].value \in good[n]
                        /\ ~ s[n].halt => \A v \in good[s[n].next] :
                                            (IF s[n].cons THEN s[n].head \o v ELSE v) \in good[n]
      OBVIOUS
    <2>1. good[n] = Seq(T) /\ << >> \in Seq(T)
      BY <1>7
    <2>2. CASE halt(n)
      BY <1>3, <2>1, <2>2
    <2>3. CASE ~ halt(n)
      <3>1. good[s[n].next] = Seq(T) /\ ~ s[n].halt
        BY <1>3, <1>4, <1>7, <2>3
      <3>2. ASSUME cons(n), NEW v \in Seq(T) PROVE <<found[n]>> \o v \in Seq(T)
        <4>1. found[n] \in T
          BY <1>1, <1>4, <2>3, <3>2
        <4> HIDE DEF T
        <4>2. <<found[n]>> \in Seq(T)
          BY <4>1
        <4> QED
          BY <3>2, <4>2, ConcatProperties
      <3> HIDE DEF cons, T
      <3> QED
        BY <1>3, <2>1, <3>1, <3>2
    <2> QED
      BY <2>2, <2>3
  <1> HIDE DEF halt, cons, T
  <1>9. \A g : IsData(g, found) <=> IsScan(g, s, 1, top)
    BY <1>1, <1>5 DEF IsData, IsScan
  <1>10. PICK g : g = (CHOOSE h : IsData(h, found))
    OBVIOUS
  <1>11. \E h : IsScan(h, s, 1, top)
    BY <1>1, <1>6, ScanExists
  <1>12. IsScan(g, s, 1, top)
    BY <1>9, <1>10, <1>11
  <1>13. g[1] \in good[1]
    BY <1>1, <1>6, <1>8, <1>12, ScanInduction
  <1>14. DataFrames(found) = g[1]
    BY <1>10, TablesAre
  <1> QED
    BY <1>1, <1>7, <1>13, <1>14 DEF T

\* A stream that opens has a table of well-formed rows.
LEMMA ParseType ==
  ASSUME NEW cells, InputOK(cells), NEW format, NEW maxFrames, NEW maxDictionary
  PROVE  ParsedOK(Parse(format, cells, maxFrames, maxDictionary))
  <1> DEFINE S == {ParseFrame(format, cells, p, maxDictionary) : p \in 1 .. Len(cells)}
  <1>1. \A f \in S : RowOK(f)
    BY FrameFound
  <1>2. PICK found : found = ParsedFrames(format, cells, maxDictionary) /\ found \in Rows(S)
    <2>1. \A p \in 1 .. Len(cells) : ParseFrame(format, cells, p, maxDictionary) \in S
      OBVIOUS
    <2> HIDE DEF S
    <2> QED
      BY <2>1, TableType
  <1> HIDE DEF S
  <1>3. /\ found \in Seq(S) /\ Len(found) \in Nat
        /\ \A i \in 1 .. Len(found) : found[i] \in S /\ RowOK(found[i])
        /\ \A i \in 1 .. Len(found) : i < Len(found) => found[i].k = "ok"
    <2>1. found \in Seq(S) /\ \A i \in 1 .. Len(found) : i < Len(found) => found[i].k = "ok"
      BY <1>2 DEF Rows
    <2> QED
      BY <1>1, <2>1, LenProperties, ElementOfSeq
  <1>4. Parse(format, cells, maxFrames, maxDictionary) =
          IF Len(found) > maxFrames THEN Failed("limit")
          ELSE IF found # << >> /\ found[Len(found)].k # "ok" THEN found[Len(found)]
          ELSE IF DataFrames(found) = << >> THEN Failed("format")
          ELSE [k |-> "ok", frames |-> DataFrames(found), all |-> found]
    BY <1>2 DEF Parse
  <1>5. /\ ParsedOK(Failed("limit")) /\ ParsedOK(Failed("format"))
    BY DEF ParsedOK, Failed
  <1>6. found # << >> => Len(found) \in 1 .. Len(found)
    BY <1>3, EmptySeq
  <1>7. ASSUME found # << >>, found[Len(found)].k # "ok" PROVE ParsedOK(found[Len(found)])
    <2>1. found[Len(found)].k \in Errors
      BY <1>3, <1>6, <1>7 DEF RowOK
    <2> QED
      BY <1>7, <2>1 DEF ParsedOK, Errors
  <1>8. ASSUME ~ (found # << >> /\ found[Len(found)].k # "ok")
        PROVE  ParsedOK([k |-> "ok", frames |-> DataFrames(found), all |-> found])
    <2> DEFINE Good == {f \in S : f.k = "ok"}
               T == {f \in Good : f.type # "skip"}
    <2>1. \A i \in 1 .. Len(found) : found[i] \in Good
      <3> SUFFICES ASSUME NEW i \in 1 .. Len(found) PROVE found[i] \in Good
        OBVIOUS
      <3>1. CASE i < Len(found)
        BY <1>3, <3>1
      <3>2. CASE i = Len(found)
        <4>1. found # << >>
          BY <1>3, <3>2, EmptySeq
        <4> QED
          BY <1>3, <1>8, <3>2, <4>1
      <3> QED
        BY <1>3, <3>1, <3>2
    <2>2. found \in Seq(Good)
      <3> HIDE DEF Good
      <3> QED
        BY <1>3, <2>1, IsASeq, SeqDef
    <2>3. \A f \in T : FrameOK(FrameEntry(f))
      BY <1>1 DEF RowOK, Errors
    <2>4. DataFrames(found) \in Seq(T)
      <3> HIDE DEF Good
      <3> QED
        BY <2>2, DataType
    <2>5. PICK data : data = DataFrames(found) /\ data \in Seq(T)
      BY <2>4
    <2> HIDE DEF T
    <2>6. /\ Len(data) \in Nat /\ DOMAIN data = 1 .. Len(data)
          /\ \A i \in DOMAIN data : FrameOK(FrameEntry(data[i]))
      BY <2>3, <2>5, LenProperties, ElementOfSeq
    <2> QED
      BY <2>5, <2>6 DEF ParsedOK
  <1> QED
    BY <1>4, <1>5, <1>7, <1>8
-----------------------------------------------------------------------------
(***************************************************************************)
(* The theorems                                                            *)
(***************************************************************************)
LEMMA PumpStep ==
  ASSUME PumpInv, [Next]_vars
  PROVE  PumpInv'
  <1>1. ASSUME Open PROVE PumpInv'
    <2>1. JobOK(job)
      BY JobsAssumption DEF PumpInv, TableInv
    <2>2. job.input \in Seq(Range(job.input)) /\ \A p \in DOMAIN job.input : CellOK(job.input[p])
      BY <2>1 DEF JobOK
    <2>3. InputOK(job.input)
      BY <2>2, LenProperties DEF InputOK
    <2> QED
      BY <1>1, <2>3, ParseType, OpenPump
  <1>2. ASSUME Cancel PROVE PumpInv'
    BY <1>2, CancelPump DEF Cancel
  <1>3. ASSUME UNCHANGED vars PROVE PumpInv'
    BY <1>3, CancelPump DEF vars
  <1>4. ASSUME Step, ~ Open PROVE PumpInv'
    BY <1>4, StartPump, DonePump, AskPump, AnswerPump, FailPump, ResumePump, CallPump, ReadPump,
       NothingPump, ChargePump, AdmitPump, WritePump, EndPump DEF Step
  <1> QED
    BY <1>1, <1>2, <1>3, <1>4 DEF Next

\* PumpInv is an invariant.
LEMMA PumpAlways == Spec => []PumpInv
  BY InitPump, PumpStep, PTL DEF Spec

\* All work is paid for before its output is handed on.
LEMMA PumpPays ==
  ASSUME PumpInv
  PROVE  PumpIsBounded
  <1>1. ASSUME phase = "write" PROVE WorkIsPaid
    <2>1. Active /\ Pending
      BY <1>1 DEF Active, Pending
    <2>2. /\ consumed \in Nat /\ charged \in Nat /\ output \in Nat /\ spent \in Nat
          /\ buffered \in Nat /\ InputBefore(at) \in Nat
      BY <2>1, Types
    <2>3. charged = consumed /\ paid = buffered
      BY <1>1 DEF PumpInv, InputInv
    <2>4. spent >= output + InputBefore(at) + paid + charged
      BY <1>1, <2>1 DEF PumpInv, PaidInv
    <2>5. spent >= output + buffered + consumed + InputBefore(at)
      BY <2>2, <2>3, <2>4
    <2> QED
      BY <1>1, <2>5 DEF WorkIsPaid
  <1>2. ASSUME phase = "end" PROVE WorkIsPaid
    <2>1. Active /\ ~ Pending
      BY <1>2 DEF Active, Pending
    <2>2. /\ consumed \in Nat /\ charged \in Nat /\ output \in Nat /\ spent \in Nat
          /\ InputBefore(at) \in Nat
      BY <2>1, Types
    <2>3. charged = consumed
      BY <1>2 DEF PumpInv, InputInv
    <2>4. spent >= output + InputBefore(at) + 0 + charged
      BY <1>2, <2>1 DEF PumpInv, PaidInv
    <2>5. spent >= output + 0 + consumed + InputBefore(at)
      BY <2>2, <2>3, <2>4
    <2> QED
      BY <1>2, <2>5 DEF WorkIsPaid
  <1>3. WorkIsPaid
    BY <1>1, <1>2 DEF WorkIsPaid
  <1> QED
    BY <1>3 DEF PumpInv, LimitInv, PumpIsBounded

\* pump_reader charges before it writes, and writes no more than the limits
\* and the declared sizes allow: for every table of frames, every decoder,
\* every pair of chunk sizes, and whenever the token is cancelled.
THEOREM PumpBounded == Spec => []PumpIsBounded
  BY PumpAlways, PumpPays, PTL

\* extract_to returns Ok only when every frame was intact and its whole output
\* was written, and every checksum was counted once.
THEOREM OkIntact == Spec => []OkIsIntact
  <1>1. PumpInv => OkIsIntact
    BY DEF PumpInv, ResultInv
  <1> QED
    BY <1>1, PumpAlways, PTL

\* extract_to returns Format or Checksum only for a frame that is bad, with all
\* before it written; its accounting never fails.
THEOREM BlamedBad == Spec => []BlamedFrameIsBad
  <1>1. PumpInv => BlamedFrameIsBad
    BY DEF PumpInv, ResultInv
  <1> QED
    BY <1>1, PumpAlways, PTL
=============================================================================
