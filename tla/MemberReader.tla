----------------------------- MODULE MemberReader -----------------------------
(***************************************************************************)
(* archive.rs MemberReader: one decoded member handed out in pieces, whose *)
(* checksum is judged by finish.  The operation's CancellationToken is     *)
(* shared with other threads, its WorkBudget belongs to the reader.        *)
(*                                                                         *)
(* The bytes themselves are left out.  read_chunk and finish feed the      *)
(* checksum from the current position, CONTROL_CHUNK_SIZE bytes at a time, *)
(* and move the position only when the whole slice went through, so the    *)
(* checksum covers each member byte once exactly when the number of bytes  *)
(* fed to it (hashed) equals the position.                                 *)
(***************************************************************************)
EXTENDS Naturals

CONSTANTS
  MaxLength,      \* longest member
  MaxBudget,      \* largest bounded work budget
  ControlChunk,   \* CONTROL_CHUNK_SIZE
  SliceChunk      \* IO_CHUNK_SIZE

ASSUME SizesAssumption ==
  /\ MaxLength \in Nat
  /\ MaxBudget \in Nat
  /\ ControlChunk \in Nat \ {0}
  /\ SliceChunk \in Nat \ {0}

VARIABLES
  length,      \* end - start
  crc,         \* what the checksum of the member's bytes compares to
  folderBad,   \* folder_crc_mismatch
  encrypted,   \* the folder has an AES coder
  position,
  hashed,      \* bytes fed to the running checksum
  bounded,     \* the budget has a limit
  budget,      \* WorkBudget::remaining of a bounded budget
  cancelled,   \* the shared cancellation flag
  op,          \* the call under way: none, read_chunk, finish; then closed
  count,       \* bytes of the slice the call works on
  fed,         \* bytes of that slice already charged and hashed
  failed,      \* history: a call gave up in the middle of a slice
  outcome      \* what the last call returned

member == <<length, crc, folderBad, encrypted, bounded>>
readerVars == <<member, position, hashed, budget, cancelled, op, count, fed,
                failed, outcome>>

Lesser(a, b) == IF a <= b THEN a ELSE b

ReaderTypeOK ==
  /\ length \in 0 .. MaxLength
  /\ crc \in {"absent", "match", "mismatch"}
  /\ folderBad \in BOOLEAN
  /\ encrypted \in BOOLEAN
  /\ position \in 0 .. length
  /\ hashed \in Nat
  /\ bounded \in BOOLEAN
  /\ budget \in 0 .. MaxBudget
  /\ cancelled \in BOOLEAN
  /\ op \in {"idle", "read", "finish", "closed"}
  /\ count \in 0 .. length - position
  /\ fed \in 0 .. count
  /\ failed \in BOOLEAN
  /\ outcome \in {"none", "bytes", "end", "ok", "member", "folder",
                  "password", "cancelled", "work"}
-----------------------------------------------------------------------------
\* open_member hands over a reader at position 0.
ReaderInit ==
  /\ length \in 0 .. MaxLength
  /\ crc \in {"absent", "match", "mismatch"}
  /\ folderBad \in BOOLEAN
  /\ encrypted \in BOOLEAN
  /\ bounded \in BOOLEAN
  /\ budget \in 0 .. MaxBudget
  /\ position = 0
  /\ hashed = 0
  /\ cancelled \in BOOLEAN
  /\ op = "idle"
  /\ count = 0
  /\ fed = 0
  /\ failed = FALSE
  /\ outcome = "none"

\* CancellationToken::cancel, by any thread that holds a clone.
Cancel ==
  /\ ~ cancelled
  /\ cancelled' = TRUE
  /\ UNCHANGED <<member, position, hashed, budget, op, count, fed, failed,
                 outcome>>

\* read_chunk with a buffer of n bytes: an empty buffer or an exhausted
\* member only looks at the token, otherwise a slice is taken.
ReadChunk(n) ==
  /\ op = "idle"
  /\ \/ /\ n = 0 \/ position >= length
        /\ outcome' = IF cancelled THEN "cancelled" ELSE "end"
        /\ UNCHANGED <<op, count>>
     \/ /\ n # 0 /\ position < length
        /\ op' = "read"
        /\ count' = Lesser(n, length - position)
        /\ UNCHANGED outcome
  /\ UNCHANGED <<member, position, hashed, budget, cancelled, fed, failed>>

\* finish, and into_bytes of extract_entry: both consume what is unread.
Finish ==
  /\ op = "idle"
  /\ op' = "finish"
  /\ UNCHANGED <<member, position, hashed, budget, cancelled, count, fed,
                 failed, outcome>>

\* A call returns an error from the middle of a slice.  read_chunk leaves
\* the reader usable; finish has consumed it.
GiveUp(r) ==
  /\ outcome' = r
  /\ op' = IF op = "read" THEN "idle" ELSE "closed"
  /\ count' = 0
  /\ fed' = 0
  /\ failed' = TRUE
  /\ UNCHANGED <<hashed, budget>>

\* Mutant: the last chunk of a slice is as long as the others.
NextChunk_Whole == ControlChunk

NextChunk == Lesser(ControlChunk, count - fed)

\* Mutant: finish hashes the unread bytes without charging for them.
Chunk_FinishForFree ==
  /\ op \in {"read", "finish"}
  /\ fed < count
  /\ \/ /\ op = "read"
        /\ cancelled \/ (bounded /\ budget < NextChunk)
        /\ GiveUp(IF cancelled THEN "cancelled" ELSE "work")
     \/ /\ op = "finish" \/ ~ (cancelled \/ (bounded /\ budget < NextChunk))
        /\ budget' = IF bounded /\ op = "read" THEN budget - NextChunk
                     ELSE budget
        /\ hashed' = hashed + NextChunk
        /\ fed' = fed + NextChunk
        /\ UNCHANGED <<op, count, failed, outcome>>
  /\ UNCHANGED <<member, position, cancelled>>

\* One round of the chunk loop of read_chunk or consume_remaining: look at
\* the token, charge the budget, update the checksum.
Chunk ==
  /\ op \in {"read", "finish"}
  /\ fed < count
  /\ \/ /\ cancelled
        /\ GiveUp("cancelled")
     \/ /\ ~ cancelled
        /\ bounded /\ budget < NextChunk
        /\ GiveUp("work")
     \/ /\ ~ cancelled
        /\ ~ bounded \/ budget >= NextChunk
        /\ budget' = IF bounded THEN budget - NextChunk ELSE budget
        /\ hashed' = hashed + NextChunk
        /\ fed' = fed + NextChunk
        /\ UNCHANGED <<op, count, failed, outcome>>
  /\ UNCHANGED <<member, position, cancelled>>

\* The slice went through: the position moves, read_chunk returns it.
Advance ==
  /\ op \in {"read", "finish"}
  /\ count # 0
  /\ fed = count
  /\ position' = position + count
  /\ count' = 0
  /\ fed' = 0
  /\ op' = IF op = "read" THEN "idle" ELSE op
  /\ outcome' = IF op = "read" THEN "bytes" ELSE outcome
  /\ UNCHANGED <<member, hashed, budget, cancelled, failed>>

\* Mutant: the slice is measured from the start instead of the end.
Consume_FromStart ==
  /\ op = "finish"
  /\ count = 0
  /\ position < length
  /\ count' = Lesser(SliceChunk, position)
  /\ UNCHANGED <<member, position, hashed, budget, cancelled, op, fed,
                 failed, outcome>>

\* consume_remaining takes the next slice.
Consume ==
  /\ op = "finish"
  /\ count = 0
  /\ position < length
  /\ count' = Lesser(SliceChunk, length - position)
  /\ UNCHANGED <<member, position, hashed, budget, cancelled, op, fed,
                 failed, outcome>>

\* Whether the running checksum differs from the expected one: what the data
\* says when each byte was fed once, anything otherwise.
Differs(d) ==
  IF hashed = length THEN d = (crc = "mismatch")
                     ELSE d \in {TRUE, FALSE} /\ (crc = "absent" => ~ d)

\* Mutant: only the member checksum is looked at.
Verdict_MemberOnly(differs) ==
  IF differs THEN (IF encrypted THEN "password" ELSE "member") ELSE "ok"

\* verify_integrity: the member first, then the folder; damage under AES may
\* be a wrong password.
Verdict(differs) ==
  CASE differs /\ ~ encrypted -> "member"
    [] ~ differs /\ folderBad /\ ~ encrypted -> "folder"
    [] (differs \/ folderBad) /\ encrypted -> "password"
    [] ~ differs /\ ~ folderBad -> "ok"

VerifyIntegrity ==
  /\ op = "finish"
  /\ count = 0
  /\ position >= length
  /\ \E d \in BOOLEAN : Differs(d) /\ outcome' = Verdict(d)
  /\ op' = "closed"
  /\ UNCHANGED <<member, position, hashed, budget, cancelled, count, fed,
                 failed>>

\* The call under way takes its next step.
Work == Chunk \/ Advance \/ Consume \/ VerifyIntegrity

ReaderNext ==
  \/ Cancel
  \/ \E n \in 0 .. MaxLength : ReadChunk(n)
  \/ Finish
  \/ Work

\* The thread inside a call keeps running; nobody has to call or to cancel.
ReaderSpec == ReaderInit /\ [][ReaderNext]_readerVars /\ WF_readerVars(Work)
-----------------------------------------------------------------------------
\* What finish says is what the data is: success only for an intact member of
\* an intact folder, a checksum error only for a damaged one, whatever reads,
\* failed reads and retries came before it.
VerdictIsTrue ==
  /\ outcome = "ok" => crc # "mismatch" /\ ~ folderBad
  /\ outcome = "member" => crc = "mismatch"
  /\ outcome = "folder" => folderBad /\ crc # "mismatch"
  /\ outcome = "password" => crc = "mismatch" \/ folderBad

\* A read_chunk that gave up after hashing a part of its slice leaves the
\* checksum ahead of the position.  No later call of that reader comes to a
\* verdict: the budget left never covers the bytes still unread.
FailedReaderNeverJudges ==
  failed => outcome \notin {"ok", "member", "folder", "password"}

\* Every call returns.
CallsReturn == op \in {"read", "finish"} ~> op \in {"idle", "closed"}
=============================================================================
