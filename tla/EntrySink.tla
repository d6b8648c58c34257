------------------------------ MODULE EntrySink ------------------------------
(***************************************************************************)
(* What every extract_entries_to promises its sink: the entries come one at *)
(* a time and in order, each is begun, receives its bytes and is finished   *)
(* only when it has all of them; after the operation ended there are no     *)
(* more calls.                                                              *)
(***************************************************************************)
EXTENDS Naturals, Sequences

VARIABLES
  current,     \* the entry between begin_entry and finish_entry, 0 for none
  missing,     \* how many of its bytes the sink has not seen
  complete,    \* how many entries were finished
  over         \* the operation has returned

sinkVars == <<current, missing, complete, over>>

SinkInit == current = 0 /\ missing = 0 /\ complete = 0 /\ over = FALSE

SinkBegin ==
  /\ ~ over /\ current = 0
  /\ current' = complete + 1
  /\ missing' \in Nat
  /\ UNCHANGED <<complete, over>>

SinkWrite ==
  /\ ~ over /\ current # 0
  /\ missing' \in 0 .. missing - 1
  /\ UNCHANGED <<current, complete, over>>

SinkFinish ==
  /\ ~ over /\ current # 0 /\ missing = 0
  /\ complete' = current
  /\ current' = 0
  /\ UNCHANGED <<missing, over>>

\* The operation returns; an entry under way stays unfinished for good.
SinkOver ==
  /\ ~ over /\ over'
  /\ current' = 0 /\ missing' = 0
  /\ UNCHANGED complete

SinkNext == SinkBegin \/ SinkWrite \/ SinkFinish \/ SinkOver

SinkSpec == SinkInit /\ [][SinkNext]_sinkVars
=============================================================================
