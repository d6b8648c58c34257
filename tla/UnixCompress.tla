----------------------------- MODULE UnixCompress -----------------------------
(***************************************************************************)
(* stream/unix_compress.rs: decode_lzw with its CodeReader and its output  *)
(* buffer.  The size of a byte is a constant: codes start one bit wider    *)
(* than a byte and may grow to two bytes, and a group is as many codes as  *)
(* a byte has bits.  Input is the sequence of the bits of the payload, the *)
(* lowest bit of each byte first.                                          *)
(***************************************************************************)
EXTENDS Integers, Sequences, SequencesExt, FiniteSetsExt

CONSTANTS
  ByteBits,      \* 8
  IoChunk,       \* IO_CHUNK_SIZE
  ControlChunk,  \* CONTROL_CHUNK_SIZE
  Inputs         \* payloads with the fields of their validated headers

VARIABLES
  input,
  phase,
  result,
  codeBits,      \* code_bits
  nextCode,      \* next_code
  previous,      \* previous_code, None after a reset
  firstChar,     \* first_character
  force,         \* force_refill
  encoded,       \* encoded_code
  prefixes, suffixes,
  code,          \* the code the traversal has come to
  traversed,
  expansion,     \* the string of the code, backwards
  pending,       \* what buffer_output has still to copy
  buffer,        \* output[.. output_length]
  out,           \* what the writer has
  position,      \* CodeReader: bytes taken
  groupStart, bitOffset, validBits

readerVars == <<position, groupStart, bitOffset, validBits>>
tableVars == <<codeBits, nextCode, previous, firstChar, force, prefixes, suffixes>>
chainVars == <<code, traversed, expansion>>
outVars == <<pending, buffer, out>>
vars == <<input, phase, result, encoded, readerVars, tableVars, chainVars, outVars>>

Smaller(a, b) == IF a <= b THEN a ELSE b

Literals == 2 ^ ByteBits
InitialBits == ByteBits + 1
ClearCode == Literals
None == -1

\* The first code the table learns.
FirstCode(i) == IF i.block THEN Literals + 1 ELSE Literals

MaxCodes(i) == 2 ^ i.maxBits

\* What parse accepts: a code width of one to two bytes.  text is what was
\* compressed, if the payload comes from an encoder.
InputOK(i) ==
  /\ i.bits \in Seq({0, 1})
  /\ Len(i.bits) % ByteBits = 0
  /\ i.maxBits \in InitialBits .. 2 * ByteBits
  /\ i.block \in BOOLEAN
  /\ i.maxOutput \in Nat
  /\ i.compressed \in BOOLEAN

ASSUME ByteAssumption == ByteBits \in Nat \ {0}
ASSUME ChunksAssumption == IoChunk \in Nat \ {0} /\ ControlChunk \in Nat \ {0}
ASSUME InputsAssumption == \A i \in Inputs : InputOK(i)

\* Arithmetic that follows from ByteAssumption by induction on n.
ASSUME PowersAssumption ==
  \A m, n \in 0 .. 2 * ByteBits :
     2 ^ n \in Nat \ {0} /\ (m < n => 2 ^ m < 2 ^ n)

TypeOK ==
  /\ InputOK(input)
  /\ phase \in {"loop", "code", "chain", "write", "full", "end"}
  /\ result \in {"none", "ok", "format", "limit", "io", "stopped", "internal"}
  /\ codeBits \in InitialBits .. input.maxBits
  /\ nextCode \in FirstCode(input) .. MaxCodes(input)
  /\ previous \in {None} \cup 0 .. nextCode - 1
  /\ firstChar \in 0 .. Literals - 1
  /\ force \in BOOLEAN
  /\ encoded \in 0 .. MaxCodes(input) - 1
  /\ \A c \in 0 .. MaxCodes(input) - 1 :
        prefixes[c] \in 0 .. MaxCodes(input) - 1 /\ suffixes[c] \in 0 .. Literals - 1
  /\ code \in 0 .. MaxCodes(input) - 1
  /\ traversed \in 0 .. MaxCodes(input)
  /\ Len(buffer) <= IoChunk
  /\ position * ByteBits <= Len(input.bits)
  /\ groupStart <= position
  /\ bitOffset <= validBits
  /\ groupStart * ByteBits + validBits <= position * ByteBits

Init ==
  /\ input \in Inputs
  /\ phase = "loop" /\ result = "none"
  /\ codeBits = InitialBits
  /\ nextCode = FirstCode(input)
  /\ previous = None /\ firstChar = 0 /\ force = FALSE /\ encoded = 0
  /\ prefixes = [c \in 0 .. MaxCodes(input) - 1 |-> 0]
  /\ suffixes = [c \in 0 .. MaxCodes(input) - 1 |-> IF c < Literals THEN c ELSE 0]
  /\ code = 0 /\ traversed = 0 /\ expansion = << >>
  /\ pending = << >> /\ buffer = << >> /\ out = << >>
  /\ position = 0 /\ groupStart = 0 /\ bitOffset = 0 /\ validBits = 0

\* The phase stays where the decoder returned.
Return(r) == result' = r /\ UNCHANGED phase

Goto(p) == phase' = p /\ UNCHANGED result

(***************************************************************************)
(* The head of the loop and CodeReader::next_code.                         *)
(***************************************************************************)

\* Mutant: every width is left only after its last code.
MaximumCode_Whole(width) == 2 ^ width

\* maximum_code_for_width
MaximumCode(width) ==
  IF width = input.maxBits THEN 2 ^ width ELSE 2 ^ width - 1

Widens == nextCode > MaximumCode(codeBits) /\ codeBits < input.maxBits

Width == IF Widens THEN codeBits + 1 ELSE codeBits

Refills == force \/ Widens \/ bitOffset >= validBits

Remaining == Len(input.bits) \div ByteBits - position

\* A group is as many bytes as a code has bits.
GroupLength == Smaller(Remaining, Width)

CompleteCodes == (GroupLength * ByteBits) \div Width

\* The bits from the given place on as a number, the lowest first; the mask
\* of next_code keeps it below 2 ^ width.
Value(from, width) ==
  MapThenSumSet(LAMBDA k : input.bits[from + k] * 2 ^ (k - 1), 1 .. width)

\* No complete code is left: the loop ends, and nothing is read any more.
EndOfInput ==
  /\ phase = "loop"
  /\ Refills
  /\ Remaining = 0 \/ CompleteCodes = 0
  /\ Goto("end")
  /\ UNCHANGED <<input, encoded, readerVars, tableVars, chainVars, outVars>>

\* The next code, of this group or of a new one.
ReadCode ==
  /\ phase = "loop"
  /\ Refills => Remaining > 0 /\ CompleteCodes > 0
  /\ LET start  == IF Refills THEN position ELSE groupStart
         offset == IF Refills THEN 0 ELSE bitOffset IN
     /\ encoded' \in 0 .. 2 ^ Width - 1
     /\ encoded' = Value(start * ByteBits + offset, Width)
     /\ groupStart' = start
     /\ bitOffset' = offset + Width
     /\ validBits' = IF Refills THEN CompleteCodes * Width ELSE validBits
     /\ position' = IF Refills THEN position + GroupLength ELSE position
  /\ codeBits' = Width
  /\ force' = FALSE
  /\ Goto("code")
  /\ UNCHANGED <<input, nextCode, previous, firstChar, prefixes, suffixes,
                 chainVars, outVars>>

(***************************************************************************)
(* What a code means.                                                      *)
(***************************************************************************)

IsClear == input.block /\ encoded = ClearCode

\* CLEAR: an empty table, the first width, and the rest of the group dropped.
Clear ==
  /\ phase = "code"
  /\ IsClear
  /\ codeBits' = InitialBits
  /\ nextCode' = FirstCode(input)
  /\ previous' = None
  /\ expansion' = << >>
  /\ force' = TRUE
  /\ Goto("loop")
  /\ UNCHANGED <<input, encoded, readerVars, firstChar, prefixes, suffixes,
                 code, traversed, outVars>>

\* The first code after a reset has to be a literal.
FirstLiteral ==
  /\ phase = "code"
  /\ ~ IsClear
  /\ previous = None
  /\ \/ /\ encoded >= Literals
        /\ Return("format")
        /\ UNCHANGED <<firstChar, pending>>
     \/ /\ encoded < Literals
        /\ pending' = <<encoded>>
        /\ firstChar' = encoded
        /\ Goto("write")
  /\ UNCHANGED <<input, encoded, readerVars, codeBits, nextCode, previous, force,
                 prefixes, suffixes, chainVars, buffer, out>>

\* Mutant: codes beyond the table are not refused.
StartChain_Unbounded ==
  /\ phase = "code"
  /\ ~ IsClear
  /\ previous # None
  /\ traversed' = 0
  /\ \/ encoded = nextCode /\ expansion' = <<firstChar>> /\ code' = previous
     \/ encoded # nextCode /\ expansion' = << >> /\ code' = encoded
  /\ Goto("chain")
  /\ UNCHANGED <<input, encoded, readerVars, tableVars, outVars>>

\* A code that is not in the table yet stands for the previous string and its
\* first character.
StartChain ==
  /\ phase = "code"
  /\ ~ IsClear
  /\ previous # None
  /\ traversed' = 0
  /\ \/ /\ encoded = nextCode
        /\ expansion' = <<firstChar>>
        /\ code' = previous
        /\ Goto("chain")
     \/ /\ encoded < nextCode
        /\ expansion' = << >>
        /\ code' = encoded
        /\ Goto("chain")
     \/ /\ encoded > nextCode
        /\ Return("format")
        /\ UNCHANGED <<expansion, code>>
  /\ UNCHANGED <<input, encoded, readerVars, tableVars, outVars>>

\* One step along the prefixes.
Traverse ==
  /\ phase = "chain"
  /\ code >= Literals
  /\ traversed' = traversed + 1
  /\ IF traversed' > MaxCodes(input) \/ code >= nextCode
       THEN Return("internal") /\ UNCHANGED <<expansion, code>>
       ELSE /\ expansion' = Append(expansion, suffixes[code])
            /\ code' = prefixes[code]
            /\ UNCHANGED <<phase, result>>
  /\ UNCHANGED <<input, encoded, readerVars, tableVars, outVars>>

\* The chain ends in a literal; the string is written the right way round.
EndChain ==
  /\ phase = "chain"
  /\ code < Literals
  /\ firstChar' = code
  /\ expansion' = Append(expansion, code)
  /\ pending' = Reverse(expansion')
  /\ Goto("write")
  /\ UNCHANGED <<input, encoded, readerVars, codeBits, nextCode, previous, force,
                 prefixes, suffixes, code, traversed, buffer, out>>

(***************************************************************************)
(* buffer_output, flush_output and the new entry.                          *)
(***************************************************************************)

CopyCount ==
  Smaller(Smaller(Len(pending), IoChunk - Len(buffer)), ControlChunk)

\* One turn of buffer_output.  The buffer is flushed as soon as it is full,
\* so that there is always room.
CopyOutput ==
  /\ phase = "write"
  /\ pending # << >>
  /\ LET total == Len(out) + Len(buffer) + CopyCount IN
     \/ /\ total > input.maxOutput
        /\ Return("limit")
        /\ UNCHANGED <<pending, buffer>>
     \/ /\ total <= input.maxOutput
        /\ buffer' = buffer \o SubSeq(pending, 1, CopyCount)
        /\ pending' = SubSeq(pending, CopyCount + 1, Len(pending))
        /\ Goto(IF Len(buffer') = IoChunk THEN "full" ELSE "write")
  /\ UNCHANGED <<input, encoded, readerVars, tableVars, chainVars, out>>

\* flush_output into the caller's writer, which may fail.
FlushFull ==
  /\ phase = "full"
  /\ \/ out' = out \o buffer /\ buffer' = << >> /\ Goto("write")
     \/ Return("io") /\ UNCHANGED <<out, buffer>>
  /\ UNCHANGED <<input, encoded, readerVars, tableVars, chainVars, pending>>

\* Mutant: the entry extends the string just written.
AddEntry_Current ==
  /\ phase = "write"
  /\ pending = << >>
  /\ \/ /\ previous # None /\ nextCode < MaxCodes(input)
        /\ prefixes' = [prefixes EXCEPT ![nextCode] = encoded]
        /\ suffixes' = [suffixes EXCEPT ![nextCode] = firstChar]
        /\ nextCode' = nextCode + 1
     \/ /\ previous = None \/ nextCode = MaxCodes(input)
        /\ UNCHANGED <<prefixes, suffixes, nextCode>>
  /\ previous' = encoded
  /\ expansion' = << >>
  /\ Goto("loop")
  /\ UNCHANGED <<input, encoded, readerVars, codeBits, firstChar, force, code,
                 traversed, outVars>>

\* The string is written: the previous string and the first character of this
\* one become an entry, if there was a previous one and there is room.
AddEntry ==
  /\ phase = "write"
  /\ pending = << >>
  /\ \/ /\ previous # None /\ nextCode < MaxCodes(input)
        /\ prefixes' = [prefixes EXCEPT ![nextCode] = previous]
        /\ suffixes' = [suffixes EXCEPT ![nextCode] = firstChar]
        /\ nextCode' = nextCode + 1
     \/ /\ previous = None \/ nextCode = MaxCodes(input)
        /\ UNCHANGED <<prefixes, suffixes, nextCode>>
  /\ previous' = encoded
  /\ expansion' = << >>
  /\ Goto("loop")
  /\ UNCHANGED <<input, encoded, readerVars, codeBits, firstChar, force, code,
                 traversed, outVars>>

\* The last flush, and the result.
Finish ==
  /\ phase = "end"
  /\ \/ Return("ok") /\ out' = out \o buffer /\ buffer' = << >>
     \/ buffer # << >> /\ Return("io") /\ UNCHANGED <<out, buffer>>
  /\ UNCHANGED <<input, encoded, readerVars, tableVars, chainVars, pending>>

\* A checkpoint or the token check of a write fails: cancelled, or out of
\* budget.
Interrupt ==
  /\ \/ phase \in {"loop", "full"}
     \/ phase = "chain" /\ code >= Literals
     \/ phase = "write" /\ pending # << >>
     \/ phase = "end" /\ buffer # << >>
  /\ Return("stopped")
  /\ UNCHANGED <<input, encoded, readerVars, tableVars, chainVars, outVars>>

Step ==
  /\ result = "none"
  /\ \/ EndOfInput \/ ReadCode \/ Clear \/ FirstLiteral \/ StartChain
     \/ Traverse \/ EndChain \/ CopyOutput \/ FlushFull \/ AddEntry \/ Finish

Next == Step \/ (result = "none" /\ Interrupt)

Spec == Init /\ [][Next]_vars /\ WF_vars(Step)

(***************************************************************************)
(* Properties.                                                             *)
(***************************************************************************)

\* The errors of the traversal ("prefix chain contains a cycle", "prefix
\* references an unavailable code") fire for no payload whatever.
NoInternalError == result # "internal"

\* A payload that compress wrote is never called malformed, and decodes to
\* the text: both sides change the width, drop the rest of a group and reset
\* the table at the same code.
RoundTrips ==
  input.compressed =>
    /\ result # "format"
    /\ IsPrefix(out \o buffer, input.text)
    /\ result = "ok" => out = input.text

\* ... and for any payload at all the code reader, the table and the output
\* buffer stay inside their bounds.
DecodesInBounds == TypeOK /\ RoundTrips

(***************************************************************************)
(* The refinement: prefixes and suffixes stand for strings.                *)
(***************************************************************************)

\* The string of each code, along the prefixes.
Chain ==
  LET string[c \in 0 .. MaxCodes(input) - 1] ==
        IF c < Literals \/ c >= nextCode \/ prefixes[c] >= c THEN <<suffixes[c]>>
        ELSE Append(string[prefixes[c]], suffixes[c])
  IN string

\* A string under way counts as decoded once its expansion is complete.
Writing == phase \in {"write", "full"}

Decoded ==
  IF previous = None THEN <<encoded>> ELSE Reverse(expansion)

AbstractTable ==
  LET learned == [k \in 1 .. nextCode - FirstCode(input) |->
                    Chain[FirstCode(input) + k - 1]] IN
  IF Writing /\ previous # None /\ nextCode < MaxCodes(input)
    THEN Append(learned, Append(Chain[previous], firstChar))
    ELSE learned

AbstractLast ==
  IF Writing THEN Decoded
  ELSE IF previous = None THEN << >> ELSE Chain[previous]

LzwOfCodes == INSTANCE Lzw WITH
  room <- MaxCodes(input) - FirstCode(input),
  first <- FirstCode(input),
  table <- AbstractTable,
  last <- AbstractLast,
  text <- out \o buffer \o pending

\* Whatever the payload, what is decoded is LZW over whole strings, also for
\* the code that is not in the table yet, with a full table and after CLEAR.
ImplementsLzw == LzwOfCodes!Spec
=============================================================================
