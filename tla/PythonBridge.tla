----------------------------- MODULE PythonBridge -----------------------------
(***************************************************************************)
(* bindings/python: threads of a Python program in calls of the extension.  *)
(* A call converts its arguments with the interpreter attached, runs the    *)
(* core detached (detached_core), attaches again for every callback and for *)
(* the result.  gil is the one thread that is attached.  While a callback   *)
(* runs Python may switch threads, and any thread that is attached may      *)
(* cancel a token, which several calls may share.                           *)
(*                                                                          *)
(* What the core does with a call is modelled elsewhere.  Here it is a plan *)
(* of the callbacks it makes, which an error or a panic may cut short.      *)
(***************************************************************************)
EXTENDS PythonApi, Sequences

CONSTANTS
  Threads,
  Programs,      \* the call each thread makes
  MaxChunk,      \* the most bytes of a member that go out in one write
  MaxVolumes     \* the volumes a provider has

VARIABLES
  call,          \* the call of each thread
  pc,            \* where each thread is
  gil,           \* the thread that is attached to the interpreter, or Nobody
  cancelled,     \* the tokens that are cancelled
  at,            \* the callback of the plan that is next
  offset,        \* how much of its bytes write_all has placed
  answer,        \* what the entry sink's callback answered
  outcome,       \* what the core returned
  result,        \* what the call returned or raised
  switched,      \* the callback under way has been interrupted (bound: once)
  received,      \* history: the bytes Python accepted, in order
  told,          \* history: begin_entry's arguments for each entry
  finished,      \* history: the entries finish_entry was called for
  refusal,       \* history: the first answer that is not to go on
  asked          \* history: a token of the call was cancelled by somebody

\* A call: its method, its token, whether its arguments are good, the members
\* of the object it is made on, their indices, sizes and names as the core has
\* them, the entries of its RPM header, its stream information, and the fields
\* given to Limits.
CallOK(c) ==
  /\ c.method \in Methods
  /\ c.arguments \in {"good", "format", "large"}
  /\ Len(c.entries) \in Nat /\ DOMAIN c.entries = 1 .. Len(c.entries)
  /\ \A i \in DOMAIN c.entries : c.entries[i].size \in Nat
  /\ c.method.does \in {"one", "member", "volumes"} => Len(c.entries) > 0
  /\ \A i \in DOMAIN c.entries :
       {c.entries[i].raw, c.entries[i].name} \subseteq Seq(Characters)
  /\ HeaderOK(c.header)
  /\ c.info.format \in StreamFormats /\ DOMAIN c.info.own = FieldsOf(c.info.format)
  /\ DOMAIN c.given \subseteq LimitFields

ASSUME BridgeAssumption ==
  /\ \A program \in Programs : /\ DOMAIN program = Threads
                                /\ \A t \in Threads : CallOK(program[t])
  /\ MaxChunk \in Nat \ {0} /\ MaxVolumes \in Nat

Nobody == "nobody"
coreVars == <<at, offset, answer, outcome>>
history  == <<received, told, finished, refusal, asked>>
vars == <<call, pc, gil, cancelled, coreVars, result, switched, history>>

Nothing == [k |-> "none"]
Go      == [k |-> "go"]
Stop    == [k |-> "stop"]
Raise(e) == [k |-> "raise", e |-> e]
Exception(class) == [k |-> "exception", class |-> class, format |-> "none", id |-> 0]

\* An error of the core; format is only that of a stream's errors, cause only
\* that of an io::Error made of a PythonCallbackError.
CoreError(e) == [k |-> "error", e |-> e, format |-> "none", cause |-> Nothing]
CallbackError(exception) == [CoreError("Io") EXCEPT !.cause = exception]
Returned(n) == [k |-> "returned", n |-> n]
Panicked    == [k |-> "panic"]
-----------------------------------------------------------------------------
(***************************************************************************)
(* The plan of a call: the callbacks the core makes if nothing fails.       *)
(* Bytes are numbered through the call.                                     *)
(***************************************************************************)
Callback(f, entry, bytes) == [f |-> f, entry |-> entry, bytes |-> bytes]

Numbers(from, n) == [i \in 1 .. n |-> from + i]

\* The member a call extracts goes out in chunks of at most MaxChunk bytes.
Min2(m, n) == IF m < n THEN m ELSE n
ChunkPlan(e) ==
  [i \in 1 .. (e.size + MaxChunk - 1) \div MaxChunk |->
     Callback("write", e,
              Numbers(MaxChunk * (i - 1), Min2(MaxChunk, e.size - MaxChunk * (i - 1))))]

\* The bytes of the entries in front of entry k, and their callbacks; the entry
\* the i-th callback is for.
SizeBefore(c, k) ==
  SumFunctionOnSet([j \in DOMAIN c.entries |-> c.entries[j].size], 1 .. k - 1)
CallsBefore(c, k) == SizeBefore(c, k) + 2 * (k - 1)
EntryOf(c, i) ==
  CHOOSE k \in DOMAIN c.entries : CallsBefore(c, k) < i /\ i <= CallsBefore(c, k + 1)

\* The i-th of the callbacks of entry k: one begin_entry, a write_entry for each
\* byte, one finish_entry.
EntryCallback(c, k, i) ==
  CASE i = 1 -> Callback("begin_entry", c.entries[k], << >>)
    [] i = c.entries[k].size + 2 -> Callback("finish_entry", c.entries[k], << >>)
    [] OTHER -> Callback("write_entry", c.entries[k], Numbers(SizeBefore(c, k) + i - 2, 1))

Plan(c) ==
  CASE c.method.does = "all" ->
         [i \in 1 .. CallsBefore(c, Len(c.entries) + 1) |->
            LET k == EntryOf(c, i) IN EntryCallback(c, k, i - CallsBefore(c, k))]
    [] c.method.does \in {"one", "member"} -> ChunkPlan(c.entries[1])
    [] c.method.does = "volumes" ->
         [i \in 1 .. MaxVolumes + 1 |-> Callback("open_volume", c.entries[1], << >>)]
    [] OTHER -> << >>

\* The count the operation returns.
PlanBytes(c) ==
  CASE c.method.does = "all" -> SizeBefore(c, Len(c.entries) + 1)
    [] c.method.does \in {"one", "member"} -> c.entries[1].size
    [] OTHER -> 0

\* The errors the core may return, other than those of the callbacks and of
\* the token; c.errors bounds them.
CoreErrors(c) ==
  LET kinds == IF c.method.on = "stream"
               THEN {"StreamFormat", "StreamChecksum", "UnsupportedStreamFeature",
                     "LimitExceeded", "Io"}
                      \cup (IF c.method.does = "open" THEN {"MissingVolume"} ELSE {})
               ELSE {"Format", "Checksum", "UnsupportedMethod", "UnsupportedFeature",
                     "LimitExceeded", "PasswordRequired", "WrongPasswordOrCorrupt",
                     "MissingVolume", "Io"}
      streamKinds == {"StreamFormat", "StreamChecksum", "UnsupportedStreamFeature"}
  IN  {[CoreError(e) EXCEPT !.format = IF e \in streamKinds THEN "lz4" ELSE "none"] :
         e \in kinds \cap c.errors}
-----------------------------------------------------------------------------
(***************************************************************************)
(* errors.rs                                                                *)
(***************************************************************************)
ClassOf ==
  [Format |-> "FormatError", StreamFormat |-> "FormatError",
   Checksum |-> "ChecksumError", StreamChecksum |-> "ChecksumError",
   UnsupportedMethod |-> "UnsupportedMethodError",
   UnsupportedFeature |-> "UnsupportedFeatureError",
   UnsupportedStreamFeature |-> "UnsupportedFeatureError",
   LimitExceeded |-> "LimitExceededError", MissingVolume |-> "MissingVolumeError",
   PasswordRequired |-> "PasswordRequiredError",
   WrongPasswordOrCorrupt |-> "WrongPasswordOrCorruptError",
   Cancelled |-> "CancelledError", Io |-> "ArchiveIoError"]

\* Mutant: an io::Error is an ArchiveIoError, whatever caused it.
MapCoreError_NoCause(error, label) ==
  [Exception(ClassOf[error.e]) EXCEPT
     !.format = IF error.e \in {"Format", "Checksum", "UnsupportedFeature"}
                THEN label ELSE error.format]

\* map_core_error_for: the exception a callback raised comes out as it is; the
\* errors of an archive are given its format, those of a stream bring their own.
MapCoreError(error, label) ==
  IF error.cause # Nothing THEN error.cause
  ELSE [Exception(ClassOf[error.e]) EXCEPT
          !.format = IF error.e \in {"Format", "Checksum", "UnsupportedFeature"}
                     THEN label ELSE error.format]

\* detached_core and detached_core_for, with guard around them.
CallResult(o, label) ==
  CASE o.k = "returned" -> o
    [] o.k = "error"    -> MapCoreError(o, label)
    [] o.k = "panic"    -> Exception("InternalError")
-----------------------------------------------------------------------------
Tokens == {"shared"}
\* cancellation_or_new: a call that is given no token makes its own.
TokenOf(t) == IF call[t].token = "none" THEN t ELSE call[t].token

Init ==
  /\ call \in Programs
  /\ pc = [t \in Threads |-> "python"]
  /\ gil = Nobody
  /\ cancelled = {} /\ asked = {}
  /\ at = [t \in Threads |-> 1]
  /\ offset = [t \in Threads |-> 0]
  /\ switched = [t \in Threads |-> FALSE]
  /\ received = [t \in Threads |-> << >>]
  /\ told = [t \in Threads |-> << >>]
  /\ finished = [t \in Threads |-> << >>]
  /\ answer = [t \in Threads |-> Nothing]
  /\ outcome = [t \in Threads |-> Nothing]
  /\ result = [t \in Threads |-> Nothing]
  /\ refusal = [t \in Threads |-> Nothing]

Goto(t, p) == pc' = [pc EXCEPT ![t] = p]
Finish(t, r) == result' = [result EXCEPT ![t] = r] /\ Goto(t, "done")

\* The core returns o.
CoreReturns(t, o) == outcome' = [outcome EXCEPT ![t] = o] /\ Goto(t, "return")

Remember(t, r) == refusal' = [refusal EXCEPT ![t] = r]

\* CancellationToken::cancel, asked for by Python.
RequestCancel(token) ==
  cancelled' = cancelled \cup {token} /\ asked' = asked \cup {token}
-----------------------------------------------------------------------------
(***************************************************************************)
(* With the interpreter attached, in front of the core                      *)
(***************************************************************************)

\* parse_format, then copy_input.
ArgumentError(c) ==
  CASE c.method.named /\ c.arguments = "format" -> Exception("ValueError")
    [] c.method.copies /\ c.arguments = "large" ->
         MapCoreError(CoreError("LimitExceeded"), c.method.label)
    [] OTHER -> Nothing

\* What a call that needs no core operation returns.
Listed(c) ==
  CASE c.method.does = "header" ->
         [k |-> "header",
          values |-> [tag \in {e.tag : e \in {c.header[i] : i \in DOMAIN c.header}} |->
                        HeaderValue(c.header, tag)],
          dict |-> AsDict(c.header),
          main |-> AsNamedDict(c.header, MainTagName),
          signature |-> AsNamedDict(c.header, SignatureTagName)]
    [] c.method.does = "info" ->
         [k |-> "info", info |-> PyStreamInfo(c.info)]
    [] c.method.does = "limits" ->
         [k |-> "limits", limits |-> PyLimitsGet(PyLimits(c.given))]
    [] c.method.does = "members" ->
         [k |-> "members", entries |-> [i \in DOMAIN c.entries |-> PyDebMember(c.entries[i])]]
    [] c.method.does = "list" ->
         [k |-> "list",
          entries |-> [i \in DOMAIN c.entries |->
                         SinkFor(c.method.label, c.entries[i]).begin_entry.entry]]

Inspect(t) ==
  /\ pc[t] = "python" /\ gil = Nobody
  /\ call[t].method.does \in {"list", "members", "header", "info", "limits"}
  /\ Finish(t, Listed(call[t]))
  /\ UNCHANGED <<call, gil, cancelled, coreVars, switched, history>>

\* symlink_target stays attached; the core may refuse the index.
SymlinkTarget(t) ==
  /\ pc[t] = "python" /\ gil = Nobody
  /\ call[t].method.does = "target"
  /\ \E o \in {Returned(0), CoreError("Format")} :
       Finish(t, CallResult(o, call[t].method.label))
  /\ UNCHANGED <<call, gil, cancelled, coreVars, switched, history>>

\* Arguments, then py.detach.
Enter(t) ==
  /\ pc[t] = "python" /\ gil = Nobody
  /\ call[t].method.does \in {"open", "volumes", "verify", "one", "member", "all"}
  /\ IF ArgumentError(call[t]) # Nothing
       THEN Finish(t, ArgumentError(call[t]))
       ELSE Goto(t, "core") /\ UNCHANGED result
  /\ UNCHANGED <<call, gil, cancelled, coreVars, switched, history>>

\* PyCancellationToken::cancel
CancelToken(t) ==
  /\ pc[t] = "python" /\ gil = Nobody
  /\ call[t].method.does = "cancel"
  /\ RequestCancel(TokenOf(t))
  /\ Finish(t, Returned(0))
  /\ UNCHANGED <<call, gil, coreVars, switched, received, told, finished, refusal>>
-----------------------------------------------------------------------------
(***************************************************************************)
(* The core, detached                                                       *)
(***************************************************************************)
Upcoming(t) == Plan(call[t])[at[t]]

CoreFails(t) ==
  /\ pc[t] = "core"
  /\ \/ \E e \in CoreErrors(call[t]) : CoreReturns(t, e)
     \/ CoreReturns(t, Panicked)
     \/ TokenOf(t) \in cancelled /\ CoreReturns(t, CoreError("Cancelled"))
  /\ UNCHANGED <<call, gil, cancelled, at, offset, answer, result, switched, history>>

\* The next callback.  Bytes go out only after a look at the token.
CoreCalls(t) ==
  /\ pc[t] = "core"
  /\ at[t] <= Len(Plan(call[t]))
  /\ Upcoming(t).f \in {"write", "write_entry"} => TokenOf(t) \notin cancelled
  /\ Goto(t, "attach")
  /\ UNCHANGED <<call, gil, cancelled, coreVars, result, switched, history>>

CoreCompletes(t) ==
  /\ pc[t] = "core"
  /\ at[t] > Len(Plan(call[t]))
  /\ CoreReturns(t, Returned(PlanBytes(call[t])))
  /\ UNCHANGED <<call, gil, cancelled, at, offset, answer, result, switched, history>>
-----------------------------------------------------------------------------
(***************************************************************************)
(* The callback, attached.  Python may switch threads in it and may cancel  *)
(* the token the program holds.                                             *)
(***************************************************************************)
Attach(t) ==
  /\ pc[t] = "attach" /\ gil = Nobody
  /\ gil' = t
  /\ switched' = [switched EXCEPT ![t] = FALSE]
  /\ told' = IF Upcoming(t).f # "begin_entry" THEN told
             ELSE [told EXCEPT ![t] = Append(@,
                     SinkFor(call[t].method.label, Upcoming(t).entry).begin_entry)]
  /\ finished' = IF Upcoming(t).f # "finish_entry" THEN finished
                 ELSE [finished EXCEPT ![t] = Append(@,
                         SinkFor(call[t].method.label, Upcoming(t).entry).finish_entry)]
  /\ Goto(t, "callback")
  /\ UNCHANGED <<call, cancelled, coreVars, result, received, refusal, asked>>

Switch(t) ==
  /\ pc[t] = "callback" /\ ~ switched[t]
  /\ gil' = Nobody
  /\ switched' = [switched EXCEPT ![t] = TRUE]
  /\ Goto(t, "switched")
  /\ UNCHANGED <<call, cancelled, coreVars, result, history>>

Resume(t) ==
  /\ pc[t] = "switched" /\ gil = Nobody
  /\ gil' = t
  /\ Goto(t, "callback")
  /\ UNCHANGED <<call, cancelled, coreVars, result, switched, history>>

CancelInside(t) ==
  /\ pc[t] = "callback"
  /\ call[t].token \in Tokens \ cancelled
  /\ RequestCancel(call[t].token)
  /\ UNCHANGED <<call, pc, gil, coreVars, result, switched, received, told, finished,
                 refusal>>

\* What Python code may raise, and what the binding raises in its name.
UserError(t) == [Exception("UserError") EXCEPT !.id = at[t]]

\* The callback ends with an exception, which the core gets as an io::Error.
Raises(t, e) ==
  /\ Remember(t, Raise(e))
  /\ CoreReturns(t, CallbackError(e))
  /\ UNCHANGED <<cancelled, at, offset, received, asked>>

Accept(t, bytes) == received' = [received EXCEPT ![t] = @ \o bytes]

Advance(t) ==
  /\ at' = [at EXCEPT ![t] = @ + 1]
  /\ offset' = [offset EXCEPT ![t] = 0]
  /\ Goto(t, "core")
-----------------------------------------------------------------------------
(***************************************************************************)
(* PythonSink::write with SinkMode::Writer, below the core's write_all: a   *)
(* short count is answered with a write of the rest, a count of zero with   *)
(* an error of write_all's own.                                             *)
(***************************************************************************)
Rest(t) == SubSeq(Upcoming(t).bytes, offset[t] + 1, Len(Upcoming(t).bytes))

WriterCounts(t, n) ==
  /\ Accept(t, SubSeq(Rest(t), 1, n))
  /\ IF n < Len(Rest(t))
       THEN /\ offset' = [offset EXCEPT ![t] = @ + n]
            /\ Goto(t, "attach") /\ UNCHANGED at
       ELSE Advance(t)
  /\ UNCHANGED <<cancelled, outcome, refusal, asked>>

WriterRefuses(t) ==
  \/ \E e \in {Exception("ValueError"), Exception("TypeError"), UserError(t)} : Raises(t, e)
  \/ /\ Remember(t, [k |-> "zero"])
     /\ CoreReturns(t, CoreError("Io"))
     /\ UNCHANGED <<cancelled, at, offset, received, asked>>

LeaveWriter(t) ==
  /\ pc[t] = "callback" /\ Upcoming(t).f = "write"
  /\ call[t].method.target = "writer"
  /\ gil' = Nobody
  /\ UNCHANGED <<call, answer, result, switched, told, finished>>

\* Mutant: whatever the count, the chunk is taken to be written.
WriterReturns_Whole(t) ==
  /\ LeaveWriter(t)
  /\ \/ \E n \in 1 .. Len(Rest(t)) :
          /\ Accept(t, SubSeq(Rest(t), 1, n)) /\ Advance(t)
          /\ UNCHANGED <<cancelled, outcome, refusal, asked>>
     \/ WriterRefuses(t)

\* Mutant: a writer that takes nothing is asked again.
WriterReturns_Again(t) ==
  /\ LeaveWriter(t)
  /\ \/ \E n \in 0 .. Len(Rest(t)) : WriterCounts(t, n)
     \/ \E e \in {Exception("ValueError"), Exception("TypeError"), UserError(t)} :
          Raises(t, e)

WriterReturns(t) ==
  /\ LeaveWriter(t)
  /\ \/ \E n \in 1 .. Len(Rest(t)) : WriterCounts(t, n)
     \/ WriterRefuses(t)

\* PythonSink::write with SinkMode::Callback: False cancels the token while
\* still attached, and is raised as CancelledError.
CallbackReturns(t) ==
  /\ pc[t] = "callback" /\ Upcoming(t).f = "write"
  /\ call[t].method.target = "callback"
  /\ gil' = Nobody
  /\ \/ /\ Accept(t, Upcoming(t).bytes) /\ Advance(t)
        /\ UNCHANGED <<cancelled, outcome, refusal, asked>>
     \/ /\ RequestCancel(TokenOf(t))
        /\ Remember(t, Stop)
        /\ CoreReturns(t, CallbackError(Exception("CancelledError")))
        /\ UNCHANGED <<at, offset, received>>
     \/ \E e \in {Exception("TypeError"), UserError(t)} : Raises(t, e)
  /\ UNCHANGED <<call, answer, result, switched, told, finished>>
-----------------------------------------------------------------------------
(***************************************************************************)
(* PythonEntrySink and its twins: the callback's answer is taken attached,  *)
(* what follows of it is decided detached, in finish_callback.              *)
(***************************************************************************)
SinkReturns(t) ==
  /\ pc[t] = "callback"
  /\ call[t].method.target = "sink"
  /\ gil' = Nobody
  /\ \E a \in {Go, Stop, Raise(Exception("TypeError")), Raise(UserError(t))} :
       /\ answer' = [answer EXCEPT ![t] = a]
       /\ IF a = Go THEN Accept(t, Upcoming(t).bytes) /\ UNCHANGED refusal
                    ELSE Remember(t, a) /\ UNCHANGED received
       /\ asked' = IF a = Stop THEN asked \cup {TokenOf(t)} ELSE asked
  /\ Goto(t, "finish")
  /\ UNCHANGED <<call, cancelled, at, offset, outcome, result, switched, told, finished>>

FinishCallback(t) ==
  /\ pc[t] = "finish"
  /\ \/ /\ answer[t] = Go
        /\ IF TokenOf(t) \in cancelled
             THEN CoreReturns(t, CoreError("Cancelled")) /\ UNCHANGED <<at, offset>>
             ELSE Advance(t) /\ UNCHANGED outcome
        /\ UNCHANGED cancelled
     \/ /\ answer[t] = Stop
        /\ cancelled' = cancelled \cup {TokenOf(t)}
        /\ CoreReturns(t, CoreError("Cancelled"))
        /\ UNCHANGED <<at, offset>>
     \/ /\ answer[t].k = "raise"
        /\ CoreReturns(t, CallbackError(answer[t].e))
        /\ UNCHANGED <<cancelled, at, offset>>
  /\ UNCHANGED <<call, gil, answer, result, switched, history>>

\* PythonVolumeProvider: bytes, which are copied if the limits admit them, or
\* None, which is the end of the sequence unless it is the first volume.
ProviderReturns(t) ==
  /\ pc[t] = "callback" /\ Upcoming(t).f = "open_volume"
  /\ gil' = Nobody
  /\ \/ /\ at[t] <= MaxVolumes
        /\ Advance(t)
        /\ UNCHANGED <<outcome, refusal>>
     \/ /\ at[t] > 1
        /\ at' = [at EXCEPT ![t] = Len(Plan(call[t])) + 1]
        /\ Goto(t, "core")
        /\ UNCHANGED <<offset, outcome, refusal>>
     \/ /\ at[t] = 1
        /\ Remember(t, [k |-> "missing"])
        /\ CoreReturns(t, CoreError("MissingVolume"))
        /\ UNCHANGED <<at, offset>>
     \/ /\ Remember(t, [k |-> "large"])
        /\ CoreReturns(t, CoreError("LimitExceeded"))
        /\ UNCHANGED <<at, offset>>
     \/ \E e \in {Exception("TypeError"), UserError(t)} :
          /\ Remember(t, Raise(e))
          /\ CoreReturns(t, CallbackError(e))
          /\ UNCHANGED <<at, offset>>
  /\ UNCHANGED <<call, cancelled, answer, result, switched, received, told, finished, asked>>

\* Back in the interpreter: the result, or the exception that maps the error.
Reattach(t) ==
  /\ pc[t] = "return" /\ gil = Nobody
  /\ Finish(t, CallResult(outcome[t], call[t].method.label))
  /\ UNCHANGED <<call, gil, cancelled, coreVars, switched, history>>
-----------------------------------------------------------------------------
Step(t) ==
  \/ Inspect(t) \/ SymlinkTarget(t) \/ Enter(t) \/ CancelToken(t)
  \/ CoreFails(t) \/ CoreCalls(t) \/ CoreCompletes(t)
  \/ Attach(t) \/ Switch(t) \/ Resume(t) \/ CancelInside(t)
  \/ WriterReturns(t) \/ CallbackReturns(t) \/ SinkReturns(t) \/ FinishCallback(t)
  \/ ProviderReturns(t) \/ Reattach(t)

AllDone == (\A t \in Threads : pc[t] = "done") /\ UNCHANGED vars

Next == (\E t \in Threads : Step(t)) \/ AllDone

\* Every thread that can run is run in the end, and Python code returns from
\* the callbacks it is given.
Spec == Init /\ [][Next]_vars /\ \A t \in Threads : WF_vars(Step(t))
-----------------------------------------------------------------------------
(***************************************************************************)
(* Properties                                                               *)
(***************************************************************************)
Raised(t) == pc[t] = "done" /\ result[t].k = "exception"
ReturnedCount(t) == pc[t] = "done" /\ result[t].k = "returned"

\* A callback that refuses is the last one of its call.
RefusalIsLast(t) ==
  refusal[t] # Nothing => pc[t] \in {"finish", "return", "done"}

\* The caller gets the very exception its callback raised.
OwnExceptionComesBack(t) ==
  pc[t] = "done" /\ refusal[t].k = "raise" => result[t] = refusal[t].e

\* A call ends as cancelled only if Python asked for it, and one that Python
\* stopped does and leaves its token cancelled.
CancellationIsAsked(t) ==
  /\ Raised(t) /\ result[t].class = "CancelledError" => TokenOf(t) \in asked
  /\ pc[t] = "done" /\ refusal[t] = Stop =>
       Raised(t) /\ result[t].class = "CancelledError" /\ TokenOf(t) \in cancelled

\* The format attribute is that of the object the call was made on.
FormatIsItsOwn(t) ==
  Raised(t) /\ result[t].format # "none" =>
    result[t].format = IF call[t].method.on = "stream" THEN "lz4" ELSE call[t].method.on

\* What a call of the extension raises is true: map_core_error_for,
\* PythonSink::write and finish_callback keep a callback's own exception, name
\* the right format, and report a cancellation only where Python, in this thread
\* or another one that shares the token, asked for it.
RaisedIsTruthful ==
  \A t \in Threads : /\ RefusalIsLast(t)
                     /\ OwnExceptionComesBack(t)
                     /\ CancellationIsAsked(t)
                     /\ FormatIsItsOwn(t)

\* A call that returns a count has had every byte of it accepted by Python, in
\* order and once, with every entry of extract_entries_to begun and finished,
\* however short the writes were and whatever other threads did meanwhile.
OkIsComplete ==
  \A t \in Threads :
    ReturnedCount(t) =>
      /\ refusal[t] = Nothing
      /\ received[t] = Numbers(0, result[t].n)
      /\ call[t].method.does = "all" =>
           /\ [i \in DOMAIN told[t] |-> told[t][i].entry.index]
                = [i \in DOMAIN call[t].entries |-> call[t].entries[i].index]
           /\ finished[t] = [i \in DOMAIN call[t].entries |-> call[t].entries[i].index]

\* What a snapshot calls a safe path leaves the directory it is joined to on no
\* platform, neither by the name Python reads nor by the raw one it was made
\* from (a ZIP entry's raw name is another name).
SafeIsSafe(snapshot, label) ==
  snapshot.path.safe =>
    /\ snapshot.name # << >> /\ ~ Escapes(snapshot.name)
    /\ label # "zip" => ~ Escapes(snapshot.raw)

\* The views of an RPM header agree: value(), as_dict() and as_named_dict(), by
\* either table of names, give the same entry for a tag, and lose none.
NamedAgrees(dict, names, plain) ==
  \A tag \in DOMAIN plain :
    LET named == dict[TagKey(tag, names)] IN
    \/ named.k = plain[tag].k /\ named = plain[tag]
    \/ named.k = "int" /\ plain[tag].k = "list" /\ plain[tag].v = <<named.v>>
    \/ /\ named.k = "bytes" /\ plain[tag].k = "list"
       /\ named.v = IF plain[tag].v = << >> THEN << >> ELSE plain[tag].v[1]
ViewsAgree(views) ==
  /\ views.dict = views.values
  /\ NamedAgrees(views.main, MainTagName, views.dict)
  /\ NamedAgrees(views.signature, SignatureTagName, views.dict)

\* A StreamInfo says something of the stream's own format only; a Limits object
\* says what it was given and, for the rest, the defaults.
InfoIsItsOwn(info, core) ==
  \A n \in DOMAIN info.fields :
    info.fields[n] = IF n \in DOMAIN core.own THEN Some(core.own[n]) ELSE None
LimitsAreGiven(limits, given) ==
  \A n \in DOMAIN limits :
    limits[n] = IF n \in DOMAIN given THEN Some(given[n]) ELSE None

\* The objects Python sees are true to the archive: paths called safe are, in
\* listings and in what begin_entry is given, for names that are missing,
\* ill-formed or full of foreign separators; the views of an RPM header with
\* repeated tags agree; stream information and limits are what the core has.
SnapshotsAreFaithful ==
  \A t \in Threads :
    /\ \A i \in DOMAIN told[t] : SafeIsSafe(told[t][i].entry, call[t].method.label)
    /\ pc[t] = "done" /\ result[t].k = "list" =>
         \A i \in DOMAIN result[t].entries :
           SafeIsSafe(result[t].entries[i], call[t].method.label)
    /\ pc[t] = "done" /\ result[t].k = "header" => ViewsAgree(result[t])
    /\ pc[t] = "done" /\ result[t].k = "info" => InfoIsItsOwn(result[t].info, call[t].info)
    /\ pc[t] = "done" /\ result[t].k = "limits" =>
         LimitsAreGiven(result[t].limits, call[t].given)

\* Every call returns: no count a writer answers, no thread switch and no shared
\* token keeps write_all, the callbacks or the interpreter lock from making way.
CallsReturn == \A t \in Threads : <>(pc[t] = "done")
=============================================================================
