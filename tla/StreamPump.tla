------------------------------ MODULE StreamPump ------------------------------
(***************************************************************************)
(* stream/mod.rs, stream/lz4.rs, stream/zstandard.rs: a session with an   *)
(* LZ4 or Zstandard stream.  It is opened, which finds the table of its    *)
(* frames (StreamFrames), and extracted.  Each frame is given to a library *)
(* decoder that pulls its input from a ControlledInput; pump_reader pulls  *)
(* output from the decoder, charges the work, checks the sizes and writes. *)
(*                                                                         *)
(* The decoders are external.  A frame record says what its decoder will   *)
(* do: the output it produces, the input it leaves, and damage that makes  *)
(* it fail.  It asks for input with Read::read, which hands an error on,   *)
(* or with Read::read_exact, which asks again after ErrorKind::Interrupted.*)
(* Another thread may cancel the token at any time.                        *)
(***************************************************************************)
EXTENDS StreamFrames

CONSTANTS
  Jobs,          \* an input with its limits and work budgets
  IoChunk,       \* IO_CHUNK_SIZE
  ControlChunk   \* CONTROL_CHUNK_SIZE

VARIABLES
  job,
  stream,        \* CompressedStream: its format, frame table and info
  phase,         \* the loop or call under way
  cancelled,     \* the token
  spent,         \* WorkBudget.consumed
  at,            \* the frame of the loop of extract
  consumed,      \* bytes ControlledInput gave to the decoder of this frame
  charged,       \* charged_input
  delta,         \* input_delta of the bytes in the buffer
  start,         \* start_output
  buffered,      \* output in the buffer
  paid,          \* output in the buffer that is charged already
  output,        \* ExtractionControl.output_bytes
  checksums,     \* ExtractionControl.checksums_verified
  opening,       \* the decoder is in its constructor
  asking,        \* the decoder's request for input: "none", "read",
                 \* "read_exact", or "eof" once it was answered with 0
  produced,      \* output of the decoder of this frame
  result         \* "none" until extract_to returns

pumpVars == <<charged, delta, start, buffered, paid>>
decoderVars == <<consumed, opening, asking, produced>>
vars == <<job, stream, phase, cancelled, spent, at, pumpVars, output, checksums,
          decoderVars, result>>

Unlimited == -1      \* WorkBudget::unlimited

\* A job: the frames that were written, the input that is there of them, the
\* format the caller asks for, or "any", and whether the stream is extracted.
JobOK(j) ==
  /\ j.requested \in {"any", "lz4", "zstandard"}
  /\ IsPrefix(j.input, WrittenInput(j.written))
  /\ j.input \in Seq(Range(j.input))
  /\ \A p \in DOMAIN j.input : CellOK(j.input[p])
  /\ j.extract \in BOOLEAN
  /\ \A i \in DOMAIN j.written :
       LET w == j.written[i] IN
       w.type # "skip" =>
         /\ DecoderOK(w.decoder)
         /\ w.decoder.damage = "checksum" => w.type # "legacy" /\ w.header.checksum
  /\ {j.budget, j.openBudget} \subseteq Nat \cup {Unlimited}
  /\ {j.maxInput, j.maxFrames, j.maxEntry, j.maxTotal, j.maxDictionary} \subseteq Nat

ASSUME JobsAssumption == \A j \in Jobs : JobOK(j)
ASSUME ChunksAssumption == IoChunk \in Nat \ {0} /\ ControlChunk \in Nat \ {0}

Phases == {"open", "frame", "pump", "decoder", "asked", "interrupted", "charge",
           "admit", "write", "end", "done"}

TypeOK ==
  /\ phase \in Phases
  /\ cancelled \in BOOLEAN /\ opening \in BOOLEAN
  /\ spent \in Nat
  /\ at \in 0 .. Len(stream.frames) + 1
  /\ \A n \in {consumed, charged, delta, start, output, checksums, produced} :
        n \in Nat
  /\ buffered \in 0 .. IoChunk /\ paid \in 0 .. buffered
  /\ asking \in {"none", "read", "read_exact", "eof"}
  /\ result \in {"none", "ok", "opened", "format", "checksum", "unsupported", "limit",
                 "cancelled", "io", "internal"}

Closed == [format |-> "none", frames |-> << >>, info |-> << >>]

Init ==
  /\ job \in Jobs
  /\ stream = Closed
  /\ phase = "open" /\ at = 0 /\ result = "none"
  /\ cancelled = FALSE
  /\ spent = 0 /\ output = 0 /\ checksums = 0
  /\ consumed = 0 /\ opening = FALSE /\ asking = "none" /\ produced = 0
  /\ charged = 0 /\ delta = 0 /\ start = 0 /\ buffered = 0 /\ paid = 0

Frame == stream.frames[at]

\* The input and the output of all frames in front of frame n.
InputBefore(n) ==
  SumFunctionOnSet([i \in DOMAIN stream.frames |-> stream.frames[i].input], 1 .. n - 1)
OutputBefore(n) ==
  SumFunctionOnSet([i \in DOMAIN stream.frames |-> stream.frames[i].output], 1 .. n - 1)

Return(r) == phase' = "done" /\ result' = r

Goto(p) == phase' = p /\ UNCHANGED result

\* CancellationToken::cancel, by another thread.
Cancel ==
  /\ ~ cancelled
  /\ phase # "done"
  /\ cancelled' = TRUE
  /\ UNCHANGED <<job, stream, phase, spent, at, pumpVars, output, checksums,
                 decoderVars, result>>

\* ExtractionControl::checkpoint: what it returns, and what it charges.
CheckpointResult(work) ==
  CASE cancelled -> "cancelled"
    [] ~ cancelled /\ job.budget # Unlimited /\ spent + work > job.budget -> "limit"
    [] OTHER -> "ok"

Checkpoint(work, p) ==
  LET r == CheckpointResult(work) IN
  IF r = "ok" THEN Goto(p) /\ spent' = spent + work
              ELSE Return(r) /\ UNCHANGED spent

\* checked_output_total: the total with additional bytes is within the limits.
WithinLimits(additional) ==
  output + additional <= Smaller(job.maxEntry, job.maxTotal)

(***************************************************************************)
(* Opening                                                                 *)
(***************************************************************************)
ChosenFormat == IF job.requested = "any" THEN DetectFormat(job.input) ELSE job.requested

\* An entry of Lz4Layout or ZstandardLayout, with what its decoder will do.
FrameEntry(f) ==
  [start |-> f.start, end |-> f.end, input |-> f.end - f.start, content |-> f.content,
   checksum |-> f.contentSum \/ f.blockSums, dictionary |-> f.dictionary,
   working |-> f.working, left |-> f.decoder.left, output |-> f.decoder.output,
   damage |-> f.decoder.damage]

\* open_bytes_inner: the input is paid for before it is looked at, the declared
\* aggregate is compared with both output limits.
OpenResult(parsed) ==
  LET size == UncompressedSize(parsed.frames) IN
  CASE Len(job.input) > job.maxInput -> "limit"
    [] Len(job.input) <= job.maxInput /\ cancelled -> "cancelled"
    [] OTHER ->
       IF job.openBudget # Unlimited /\ Len(job.input) > job.openBudget THEN "limit"
       ELSE IF ChosenFormat = "none" THEN "format"
       ELSE IF parsed.k # "ok" THEN parsed.k
       ELSE IF size # Unknown /\ size > Smaller(job.maxEntry, job.maxTotal) THEN "limit"
       ELSE "ok"

Open ==
  /\ phase = "open"
  /\ \E parsed \in {Parse(ChosenFormat, job.input, job.maxFrames, job.maxDictionary)} :
       IF OpenResult(parsed) # "ok"
         THEN Return(OpenResult(parsed)) /\ UNCHANGED <<stream, at>>
         ELSE /\ stream' = [format |-> ChosenFormat, info |-> FrameInfo(parsed),
                            frames |-> [i \in DOMAIN parsed.frames |->
                                          FrameEntry(parsed.frames[i])]]
              /\ at' = 1
              /\ IF job.extract THEN Goto("frame") ELSE Return("opened")
  /\ UNCHANGED <<job, cancelled, spent, pumpVars, output, checksums, decoderVars>>

(***************************************************************************)
(* The loop over the frames.                                               *)
(***************************************************************************)

\* What the checks before the decoder return.
FrameResult ==
  CASE cancelled -> "cancelled"
    [] ~ cancelled /\ Frame.working > job.maxDictionary -> "limit"
    [] ~ cancelled /\ Frame.working <= job.maxDictionary /\ Frame.dictionary -> "unsupported"
    [] OTHER -> "ok"

\* The checks of a frame, a fresh ControlledInput and a fresh decoder: the
\* constructor of the Zstandard decoder already reads.
StartFrame ==
  /\ phase = "frame"
  /\ at <= Len(stream.frames)
  /\ IF FrameResult # "ok" THEN Return(FrameResult)
     ELSE Goto(IF stream.format = "zstandard" THEN "decoder" ELSE "pump")
  /\ opening' = (stream.format = "zstandard")
  /\ consumed' = 0 /\ asking' = "none" /\ produced' = 0
  /\ charged' = 0 /\ delta' = 0 /\ start' = output
  /\ buffered' = 0 /\ paid' = 0
  /\ UNCHANGED <<job, stream, cancelled, spent, at, output, checksums>>

\* extract_to after the last frame: the aggregate size, then the result.
ExtractDone ==
  /\ phase = "frame"
  /\ at > Len(stream.frames)
  /\ LET expected == UncompressedSize(stream.frames) IN
     Return(IF expected # Unknown /\ expected # output THEN "internal" ELSE "ok")
  /\ UNCHANGED <<job, stream, cancelled, spent, at, pumpVars, output, checksums,
                 decoderVars>>

(***************************************************************************)
(* The decoder and its ControlledInput.                                    *)
(***************************************************************************)

\* External: what a healthy decoder reads of its frame.
Wanted == IF opening THEN 2 ELSE Frame.input - Frame.left

\* External: the decoder asks for more of its frame, or looks for a next one
\* behind it.
Ask(kind) ==
  /\ phase = "decoder"
  /\ asking = "none"
  /\ consumed < Wanted \/ (~ opening /\ consumed = Frame.input)
  /\ asking' = kind
  /\ Goto("asked")
  /\ UNCHANGED <<job, stream, cancelled, spent, at, pumpVars, output, checksums,
                 consumed, opening, produced>>

\* ControlledInput::read: Interrupted if the token is cancelled, nothing at
\* the end of the frame, else at most a control chunk.
Answer ==
  /\ phase = "asked"
  /\ IF cancelled
       THEN Goto("interrupted") /\ UNCHANGED <<consumed, asking>>
       ELSE /\ Goto("decoder")
            /\ IF consumed = Frame.input
                 THEN asking' = "eof" /\ UNCHANGED consumed
                 ELSE /\ asking' = "none"
                      /\ \E n \in 1 .. Smaller(Wanted - consumed, ControlChunk) :
                            consumed' = consumed + n
  /\ UNCHANGED <<job, stream, cancelled, spent, at, pumpVars, output, checksums,
                 opening, produced>>

\* Mutant: the error of the decoder is taken at its word.
DecoderFails_NoToken(r) ==
  /\ Return(r)
  /\ UNCHANGED <<job, stream, cancelled, spent, at, pumpVars, output, checksums,
                 decoderVars>>

\* pump_reader on an error of the decoder: cancellation comes first; the
\* constructor's errors are all taken for a bad header.
DecoderFails(r) ==
  /\ Return(IF ~ opening /\ cancelled THEN "cancelled" ELSE r)
  /\ UNCHANGED <<job, stream, cancelled, spent, at, pumpVars, output, checksums,
                 decoderVars>>

\* External: Read::read hands Interrupted to the decoder, which fails.
InterruptedRead ==
  /\ phase = "interrupted"
  /\ asking = "read"
  /\ DecoderFails("format")

\* External: Read::read_exact calls ControlledInput::read again.
InterruptedReadExact ==
  /\ phase = "interrupted"
  /\ asking = "read_exact"
  /\ Goto("asked")
  /\ UNCHANGED <<job, stream, cancelled, spent, at, pumpVars, output, checksums,
                 decoderVars>>

\* External: the decoder finds its frame damaged.  Only the LZ4 decoder
\* reports a wrong checksum itself.
Fail ==
  /\ phase = "decoder"
  /\ consumed > 0
  /\ \/ Frame.damage = "header"
     \/ ~ opening /\ produced = Frame.output /\ Frame.damage \in {"data", "panic"}
     \/ /\ ~ opening /\ produced = Frame.output
        /\ Frame.damage = "checksum" /\ stream.format = "lz4"
  /\ \/ /\ Frame.damage \notin {"panic", "checksum"}
        /\ DecoderFails("format")
     \/ /\ Frame.damage = "checksum"
        /\ DecoderFails("checksum")
     \/ /\ Frame.damage = "panic"      \* catch_unwind looks at no token
        /\ Return("format")
        /\ UNCHANGED <<job, stream, cancelled, spent, at, pumpVars, output, checksums,
                       decoderVars>>

\* External: the constructor has read the frame header.
Opened ==
  /\ phase = "decoder"
  /\ opening
  /\ consumed >= Wanted
  /\ Frame.damage # "header"
  /\ opening' = FALSE
  /\ Goto("pump")
  /\ UNCHANGED <<job, stream, cancelled, spent, at, pumpVars, output, checksums,
                 consumed, asking, produced>>

(***************************************************************************)
(* pump_reader.                                                            *)
(***************************************************************************)

\* The head of the loop: a look at the token, then into the decoder.
CallDecoder ==
  /\ phase = "pump"
  /\ Checkpoint(0, "decoder")
  /\ asking' = "none"
  /\ UNCHANGED <<job, stream, cancelled, at, pumpVars, output, checksums, consumed,
                 opening, produced>>

\* The decoder returns n bytes of output.
ReadOutput ==
  /\ phase = "decoder"
  /\ ~ opening
  /\ consumed > 0
  /\ Frame.damage # "header"
  /\ \E n \in 1 .. Smaller(IoChunk, Frame.output - produced) :
        buffered' = n /\ produced' = produced + n
  /\ paid' = 0
  /\ delta' = consumed - charged
  /\ charged' = consumed
  /\ Goto("charge")
  /\ UNCHANGED <<job, stream, cancelled, spent, at, start, output, checksums, consumed,
                 opening, asking>>

\* External: the decoder is through with the frame.
Exhausted ==
  /\ ~ opening
  /\ produced = Frame.output
  /\ Frame.damage = "none" \/ (Frame.damage = "checksum" /\ stream.format = "zstandard")
  /\ consumed = Frame.input - Frame.left

\* Mutant: an empty read is tried again, for free.
ReadNothing_Again ==
  /\ phase = "decoder"
  /\ Exhausted
  /\ charged' = consumed
  /\ Goto("pump")
  /\ UNCHANGED <<job, stream, cancelled, spent, at, delta, start, buffered, paid,
                 output, checksums, decoderVars>>

\* The decoder returns 0: the rest of the input is charged, the loop ends.
ReadNothing ==
  /\ phase = "decoder"
  /\ Exhausted
  /\ charged' = consumed
  /\ Checkpoint(consumed - charged + 1, "end")
  /\ UNCHANGED <<job, stream, cancelled, at, delta, start, buffered, paid, output,
                 checksums, decoderVars>>

\* Mutant: the input is charged only where the loop ends.
ChargeChunk_OutputOnly ==
  /\ phase = "charge"
  /\ LET length == Smaller(ControlChunk, buffered - paid) IN
     /\ Checkpoint(length + 1, IF paid + length = buffered THEN "admit" ELSE "charge")
     /\ paid' = paid + length
  /\ UNCHANGED <<job, stream, cancelled, at, charged, delta, start, buffered, output,
                 checksums, decoderVars>>

\* One control chunk of the buffer is charged, with the first the input too.
ChargeChunk ==
  /\ phase = "charge"
  /\ LET length == Smaller(ControlChunk, buffered - paid)
         work == length + 1 + (IF paid = 0 THEN delta ELSE 0) IN
     /\ Checkpoint(work, IF paid + length = buffered THEN "admit" ELSE "charge")
     /\ paid' = paid + length
  /\ UNCHANGED <<job, stream, cancelled, at, charged, delta, start, buffered, output,
                 checksums, decoderVars>>

\* The declared size of the frame, then the checks of write_output.
AdmitResult ==
  LET total == output + buffered IN
  CASE Frame.content # Unknown /\ ~ WithinLimits(buffered) -> "limit"
    [] Frame.content # Unknown /\ WithinLimits(buffered)
         /\ total - start > Frame.content -> "format"
    [] OTHER -> IF cancelled THEN "cancelled"
                ELSE IF ~ WithinLimits(buffered) THEN "limit" ELSE "ok"

Admit ==
  /\ phase = "admit"
  /\ IF AdmitResult = "ok" THEN Goto("write") ELSE Return(AdmitResult)
  /\ UNCHANGED <<job, stream, cancelled, spent, at, pumpVars, output, checksums,
                 decoderVars>>

\* write_all into the caller's writer, which may fail.
WriteOutput ==
  /\ phase = "write"
  /\ \/ Goto("pump") /\ output' = output + buffered
     \/ Return("io") /\ UNCHANGED output
  /\ UNCHANGED <<job, stream, cancelled, spent, at, pumpVars, checksums, decoderVars>>

\* Mutant: what the decoder left of the frame is not looked at.
EndResult_NoExtent ==
  CASE Frame.content # Unknown /\ Frame.content # output - start -> "format"
    [] OTHER ->
       IF stream.format = "zstandard" /\ Frame.damage = "checksum"
         THEN "checksum" ELSE "ok"

\* After the loop: the declared size, the accounting, the extent of the frame
\* and, for Zstandard, the checksum.
EndResult ==
  CASE Frame.content # Unknown /\ Frame.content # output - start -> "format"
    [] OTHER ->
       IF consumed # charged THEN "internal"
       ELSE IF consumed # Frame.input THEN "format"
       ELSE IF stream.format = "zstandard" /\ Frame.damage = "checksum"
         THEN "checksum"
       ELSE "ok"

\* finish_frame, and on to the next.
EndFrame ==
  /\ phase = "end"
  /\ \/ /\ EndResult = "ok"
        /\ checksums' = checksums + (IF Frame.checksum THEN 1 ELSE 0)
        /\ at' = at + 1
        /\ Goto("frame")
     \/ /\ EndResult # "ok"
        /\ Return(EndResult)
        /\ UNCHANGED <<at, checksums>>
  /\ UNCHANGED <<job, stream, cancelled, spent, pumpVars, output, decoderVars>>

Step ==
  \/ Open \/ StartFrame \/ ExtractDone
  \/ \E kind \in {"read", "read_exact"} : Ask(kind)
  \/ Answer \/ InterruptedRead \/ InterruptedReadExact \/ Fail \/ Opened
  \/ CallDecoder \/ ReadOutput \/ ReadNothing \/ ChargeChunk
  \/ Admit \/ WriteOutput \/ EndFrame

Next == Step \/ Cancel

\* The thread in extract_to keeps running, the decoder and the writer return
\* from every call; nobody has to cancel.
Spec == Init /\ [][Next]_vars /\ WF_vars(Step)

(***************************************************************************)
(* Properties.                                                             *)
(***************************************************************************)

\* The frames that are there, at least in part, and those of them with data.
Length == Len(job.input)
Kept == {i \in DOMAIN job.written : WrittenStart(job.written, i) <= Length}
DataKept == SelectSeq([i \in 1 .. Cardinality(Kept) |-> i],
                      LAMBDA i : job.written[i].type # "skip")

\* What is there of a frame: of a legacy frame, which has no end of its own, the
\* blocks in front of a cut between two of them.
Shortened(w, n) == [w EXCEPT !.blocks = SubSeq(@, 1, n)]
EndsAt(i, n) ==
  WrittenStart(job.written, i) + Len(WrittenCells(Shortened(job.written[i], n))) = Length + 1
Remnant(i) ==
  LET w == job.written[i]
      cuts == {n \in 0 .. Len(w.blocks) : EndsAt(i, n)}
  IN  IF w.type = "legacy" /\ cuts # {} THEN Shortened(w, Max(cuts)) ELSE w
RemnantEnd(i) == WrittenStart(job.written, i) + Len(WrittenCells(Remnant(i)))

\* The input is a stream of the format: whole, well written and with data.
IsStream(format) ==
  /\ DataKept # << >>
  /\ \A i \in Kept : /\ RemnantEnd(i) <= Length + 1
                     /\ WellWritten(Remnant(i))
                     /\ job.written[i].type # "skip" => FormatOf(job.written[i]) = format

\* Row n of the frame table is frame i.
IsTheFrame(n, i) ==
  LET w == job.written[i]
      f == stream.frames[n]
  IN  /\ f.start = WrittenStart(job.written, i)
      /\ f.end = RemnantEnd(i)
      /\ f.content = IF w.type = "legacy" THEN Unknown ELSE w.header.content
      /\ f.output = w.decoder.output

\* open_bytes finds, without decoding, the frames that were written: a stream
\* that opens is one of its format throughout and has a row for each of its data
\* frames, with their extents and sizes, whatever skippable frames and payloads
\* look like; and a stream that open blames (Format, Checksum) is none, or not of
\* the format that was asked for or comes first.
OpenedIsWhatWasWritten ==
  /\ result = "opened" \/ (phase = "frame" /\ at = 1) =>
       /\ IsStream(stream.format)
       /\ Len(stream.frames) = Len(DataKept)
       /\ \A n \in DOMAIN DataKept : IsTheFrame(n, DataKept[n])
       /\ stream.info.skippable = Cardinality(Kept) - Len(DataKept)
  /\ at = 0 /\ result \in {"format", "checksum"} =>
       ~ IsStream(IF job.requested # "any" \/ DataKept = << >> THEN job.requested
                  ELSE FormatOf(job.written[DataKept[1]]))

Intact(f) ==
  /\ f.damage = "none" /\ f.left = 0 /\ ~ f.dictionary
  /\ f.content \in {Unknown, f.output}

\* "Ok is returned only after every applicable checksum and declared size has
\* been verified" (extract_to): a successful extraction wrote all the output
\* of every frame, each intact, and counted each checksum once.
OkIsIntact ==
  result = "ok" =>
    /\ \A i \in DOMAIN stream.frames : Intact(stream.frames[i])
    /\ output = OutputBefore(Len(stream.frames) + 1)
    /\ checksums = Cardinality({i \in DOMAIN stream.frames : stream.frames[i].checksum})

\* extract blames the stream (Format, Checksum) only for a frame that is not
\* intact, after every frame before it was written completely; the errors of
\* the accounting itself are unreachable.  The one exception is a constructor
\* that a cancelled token interrupted.
BlamedFrameIsBad ==
  /\ result # "internal"
  /\ result \in {"format", "checksum"} /\ at > 0 /\ ~ (opening /\ cancelled) =>
       /\ ~ Intact(Frame)
       /\ start = OutputBefore(at)

\* pump_reader charges before it writes: with every buffer it hands to the
\* writer, and at the end of every frame, all the input taken and all the
\* output made so far is paid for.
WorkIsPaid ==
  phase \in {"write", "end"} =>
    spent >= output + (IF phase = "write" THEN buffered ELSE 0) + consumed
               + InputBefore(at)

\* No more than the limits, and no more of a frame than it declares, is ever
\* written.
OutputIsBounded ==
  /\ output <= Smaller(job.maxEntry, job.maxTotal)
  /\ at \in DOMAIN stream.frames /\ Frame.content # Unknown =>
       output - start <= Frame.content \/ phase = "frame"

\* The state of the pump keeps its types, all work is paid for, and the output is
\* within the limits and the declared sizes: pump_reader's order of charging,
\* checking and writing.
PumpIsBounded == TypeOK /\ WorkIsPaid /\ OutputIsBounded

\* An extraction that nobody cancels returns, whatever the frames hold.
RunsToTheEnd == [](~ cancelled) => <>(result # "none")

\* "Cancellation and work-budget checks occur between bounded volume/input
\* reads and within long decoder/filter loops": a cancelled extraction
\* returns.  It does not when the decoder waits in read_exact.
CancelledReturns == cancelled ~> result # "none"
=============================================================================
