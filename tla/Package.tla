------------------------------- MODULE Package -------------------------------
(***************************************************************************)
(* What the ZIP, CPIO, RPM, Debian and ARJ readers have in common: an input *)
(* is read, parsed into a listing and then, as an immutable archive,        *)
(* verified and extracted, all under one set of Limits.                     *)
(*                                                                          *)
(* An input is a sequence of cells.  A fixed-size record (a header, a       *)
(* trailer) is one cell that holds its fields, the bytes of names, data and *)
(* padding are cells of their own; a record's remaining width, where        *)
(* alignment makes it matter, is filled with cells of kind "rest".  Lengths *)
(* and offsets count cells.  input.truth is what the archiver stored: the   *)
(* readers never look at it.                                                *)
(***************************************************************************)
EXTENDS Integers, Sequences, FiniteSets, FiniteSetsExt

CONSTANTS
  Cases,       \* the files the readers are given, each with some Limits
  Ample,       \* Limits that no input exceeds
  IoChunk      \* IO_CHUNK_SIZE

VARIABLES
  input, limits,
  op,          \* the operation and the loop under way
  opened, verified, extracted,    \* results, "none" until the call returns
  offset,      \* the parser's place in the cells
  acc,         \* the parser's running totals and what it remembers
  entries,     \* the listing
  at,          \* the entry the loop of verify or extraction is at
  total,       \* the output accounted for by the operation
  content,     \* the verified bytes of the current entry
  cursor,      \* how many of them were handed out
  sink,        \* TRUE for extract_entries_to, FALSE for extract_entry_to
  begun,       \* history: entries begin_entry was called for
  got,         \* history: the bytes written for each entry
  finished     \* history: entries finish_entry accepted

parseVars == <<offset, acc, entries>>
loopVars  == <<at, total, content, cursor, sink, begun, got, finished>>
vars == <<input, limits, op, opened, verified, extracted, parseVars, loopVars>>

Smaller(a, b) == IF a <= b THEN a ELSE b

Byte(v) == [k |-> "byte", v |-> v]
Zero    == Byte(0)
Rest    == [k |-> "rest"]
Bytes(s) == [i \in DOMAIN s |-> Byte(s[i])]

\* The value a cell contributes to a checksum.
Value(c) == IF c.k = "byte" THEN c.v ELSE 1

\* The cells start+1 .. start+n, as many of them as there are.
Slice(cells, start, n) == SubSeq(cells, start + 1, Smaller(start + n, Len(cells)))

\* The record of kind k at an offset, or fallback where there is none.
RecordAt(cells, o, k, fallback) ==
  IF o \in 0 .. Len(cells) - 1 /\ cells[o + 1].k = k THEN cells[o + 1] ELSE fallback

\* The error of the first check that fails, in the order the code makes them.
FirstFailure(checks) ==
  LET bad == {i \in DOMAIN checks : ~ checks[i][1]} IN
  IF bad = {} THEN "ok" ELSE checks[Min(bad)][2]

\* The ? operator: the next result only if the one before it was no error.
AndThen(result, next) == IF result = "ok" THEN next ELSE result

\* Reading: the cells of a file opened from bytes or from a path.
Cells == input.cells

Init ==
  /\ \E c \in Cases : input = c.input /\ limits = c.limits
  /\ op = IF input.source = "path" THEN "stat" ELSE "start"
  /\ opened = "none" /\ verified = "none" /\ extracted = "none"
  /\ offset = 0
  /\ acc = [header |-> 0, names |-> 0, format |-> "none"]
  /\ entries = << >>
  /\ at = 1 /\ total = 0
  /\ content = << >> /\ cursor = 0
  /\ sink = TRUE
  /\ begun = << >> /\ got = << >> /\ finished = << >>

OpenReturns(r) ==
  /\ opened' = r
  /\ op' = IF r = "ok" THEN "verify" ELSE "done"
  /\ UNCHANGED <<input, limits, verified, extracted, loopVars>>

\* verify returns, and the caller extracts: everything, or one entry.
VerifyReturns(r) ==
  /\ verified' = r
  /\ op' = "extract"
  /\ at' = 1 /\ total' = 0
  /\ sink' \in BOOLEAN
  /\ got' = [i \in DOMAIN entries |-> << >>]
  /\ UNCHANGED <<input, limits, opened, extracted, parseVars, content, cursor,
                 begun, finished>>

ExtractReturns(r) ==
  /\ extracted' = r
  /\ op' = "done"
  /\ UNCHANGED <<input, limits, opened, verified, parseVars>>

Is(format) == input.format = format
-----------------------------------------------------------------------------
(***************************************************************************)
(* read_path: the size the file system reports, then a loop of bounded      *)
(* reads.  The file may have grown since (input.stat is what was reported)  *)
(* or be gone.                                                              *)
(***************************************************************************)
StatPath ==
  /\ op = "stat"
  /\ \/ /\ input.stat <= limits.input
        /\ op' = "read"
        /\ UNCHANGED <<input, limits, opened, verified, extracted, parseVars,
                       loopVars>>
     \/ /\ input.stat > limits.input
        /\ OpenReturns("limit")
        /\ UNCHANGED parseVars
     \/ /\ OpenReturns("io")
        /\ UNCHANGED parseVars

ReadPath ==
  /\ op = "read"
  /\ LET next == Smaller(offset + IoChunk, Len(Cells)) IN
     \/ /\ offset < Len(Cells) /\ next <= limits.input
        /\ offset' = next
        /\ UNCHANGED <<input, limits, op, opened, verified, extracted, acc,
                       entries, loopVars>>
     \/ /\ offset < Len(Cells) /\ next > limits.input
        /\ OpenReturns("limit")
        /\ UNCHANGED parseVars
     \/ /\ OpenReturns("io")
        /\ UNCHANGED parseVars
     \/ /\ offset = Len(Cells)
        /\ op' = "start"
        /\ offset' = 0
        /\ UNCHANGED <<input, limits, opened, verified, extracted, acc, entries,
                       loopVars>>

\* open_bytes up to its parser: the input limit.
StartOpen ==
  /\ op = "start"
  /\ \/ /\ Len(Cells) <= limits.input
        /\ op' = "open"
        /\ UNCHANGED <<input, limits, opened, verified, extracted, parseVars,
                       loopVars>>
     \/ /\ Len(Cells) > limits.input
        /\ OpenReturns("limit")
        /\ UNCHANGED parseVars

\* One round of a parser: it fails, goes on, or ends with the listing.
ParseFails(r) == OpenReturns(r) /\ UNCHANGED parseVars

ParseGoesOn ==
  /\ op' = "open"
  /\ UNCHANGED <<input, limits, opened, verified, extracted, loopVars>>
-----------------------------------------------------------------------------
(***************************************************************************)
(* verify: one entry, given the result of its checks and its output         *)
(***************************************************************************)
VerifyEntry(result, size) ==
  /\ op = "verify"
  /\ at \in DOMAIN entries
  /\ \/ /\ result = "ok"
        /\ at' = at + 1
        /\ total' = total + size
        /\ UNCHANGED <<input, limits, op, opened, verified, extracted, parseVars,
                       content, cursor, sink, begun, got, finished>>
     \/ /\ result # "ok"
        /\ VerifyReturns(result)

VerifyDone ==
  /\ op = "verify"
  /\ at \notin DOMAIN entries
  /\ VerifyReturns("ok")

(***************************************************************************)
(* extract_entries_to: begin_entry, the chunks, finish_entry.  Each call of *)
(* the sink may fail; begin_entry may have done so before or after the sink *)
(* noted the entry.                                                         *)
(***************************************************************************)
BeginEntry(result, size, data) ==
  /\ op = "extract" /\ sink
  /\ at \in DOMAIN entries
  /\ \/ /\ result = "ok"
        /\ begun' = Append(begun, at)
        /\ total' = total + size
        /\ content' = data
        /\ cursor' = 0
        /\ op' = "chunks"
        /\ UNCHANGED <<input, limits, opened, verified, extracted, parseVars, at,
                       sink, got, finished>>
     \/ /\ result = "ok"
        /\ begun' \in {begun, Append(begun, at)}
        /\ ExtractReturns("sink")
        /\ UNCHANGED <<at, total, content, cursor, sink, got, finished>>
     \/ /\ result # "ok"
        /\ ExtractReturns(result)
        /\ UNCHANGED loopVars

ExtractDone ==
  /\ op = "extract" /\ sink
  /\ at \notin DOMAIN entries
  /\ ExtractReturns("ok")
  /\ UNCHANGED loopVars

\* extract_entry_to for an index the caller chose: no bracketing calls.
BeginAlone(i, result, data) ==
  /\ op = "extract" /\ ~ sink
  /\ \/ /\ result = "ok"
        /\ at' = i
        /\ content' = data
        /\ cursor' = 0
        /\ op' = "chunks"
        /\ UNCHANGED <<input, limits, opened, verified, extracted, parseVars,
                       total, sink, begun, got, finished>>
     \/ /\ result # "ok"
        /\ ExtractReturns(result)
        /\ UNCHANGED loopVars

WriteChunk ==
  /\ op = "chunks"
  /\ cursor < Len(content)
  /\ LET end == Smaller(cursor + IoChunk, Len(content)) IN
     /\ got' = [got EXCEPT ![at] = @ \o SubSeq(content, cursor + 1, end)]
     /\ \/ /\ cursor' = end
           /\ UNCHANGED <<input, limits, op, opened, verified, extracted,
                          parseVars>>
        \/ /\ ExtractReturns("sink")
           /\ UNCHANGED cursor
  /\ UNCHANGED <<at, total, content, sink, begun, finished>>

\* Mutant: one chunk is taken for the whole entry.
Delivered_Once == cursor > 0 \/ content = << >>
Delivered == cursor = Len(content)

FinishEntry ==
  /\ op = "chunks"
  /\ Delivered
  /\ \/ /\ sink
        /\ finished' = Append(finished, at)
        /\ at' = at + 1
        /\ op' = "extract"
        /\ UNCHANGED <<input, limits, opened, verified, extracted, parseVars>>
     \/ /\ sink
        /\ ExtractReturns("sink")
        /\ UNCHANGED <<at, finished>>
     \/ /\ ~ sink
        /\ ExtractReturns("ok")
        /\ UNCHANGED <<at, finished>>
  /\ UNCHANGED <<total, content, cursor, sink, begun, got>>

\* A checkpoint fails: the token was cancelled or the work budget is spent,
\* where the caller cancels or limits the work at all (input.cancel).  No
\* checkpoint follows the last entry.
Interrupt ==
  \/ /\ input.cancel /\ op \in {"read", "open"}
     /\ OpenReturns("interrupted")
     /\ UNCHANGED parseVars
  \/ /\ input.cancel /\ op = "verify" /\ at \in DOMAIN entries
     /\ VerifyReturns("interrupted")
  \/ /\ input.cancel
     /\ \/ op = "extract" /\ (sink => at \in DOMAIN entries)
        \/ op = "chunks" /\ cursor < Len(content)
     /\ ExtractReturns("interrupted")
     /\ UNCHANGED loopVars

\* Nothing more happens once extraction returned.
Returned == op = "done" /\ UNCHANGED vars

\* check_limit on an entry's size and on the total with it.
WithinOutput(size) ==
  << <<size <= limits.entry, "limit">>, <<total + size <= limits.total, "limit">> >>
=============================================================================
